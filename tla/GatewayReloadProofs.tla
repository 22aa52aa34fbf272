------------------------ MODULE GatewayReloadProofs ------------------------
(***************************************************************************)
(* Proofs about GatewayReload, for any stacks, configurations, commands    *)
(* and faults: the running parts follow Gateway.config over every failure, *)
(* rollback and cancellation (ReloadSound), and one failure of a step is   *)
(* always survived (NeverStranded).                                        *)
(***************************************************************************)
EXTENDS GatewayReload, TLAPS

(***************************************************************************)
(* The inductive invariant                                                 *)
(***************************************************************************)
Configs == [binds : Bindings, rules : RuleSets, dm : BOOLEAN]
Kinds == {"reload", "rule", "dispatch", "remove"}
Pcs == {"none", "build", "stacks", "shutdown", "start", "abort", "commit", "traffic", "finish"}
ClientState == [pc : {"idle", "wait", "run"}, kind : Kinds, target : Configs, id : Ids]
JobState ==
    [pc : Pcs, client : Clients, kind : Kinds, mode : {"forward", "rollback"}, target : Configs,
     old : Configs, todo : SUBSET Ids, changed : SUBSET Ids, created : SUBSET Ids,
     started : SUBSET Ids, removed : Bindings]
Stack == [bind : Binds, rules : RuleSets]
StackMaps == UNION {[S -> Stack] : S \in SUBSET Ids}
HandlerMaps == UNION {[S -> RuleSets] : S \in SUBSET Ids}

Typed ==
    /\ world \in Worlds /\ file \in world.files /\ config \in Configs
    /\ stacks \in StackMaps
    /\ prepared \in HandlerMaps /\ DOMAIN prepared \subseteq DOMAIN stacks
    /\ closing \subseteq Binds
    /\ services \in RuleSets /\ traffic \in RuleSets /\ devices \in BOOLEAN
    /\ clients \in [Clients -> ClientState]
    /\ job \in JobState
    /\ used \subseteq Rules /\ gone \subseteq Rules /\ intact \in BOOLEAN
    /\ commands \in 0..world.commands /\ faults \in 0..world.faults

\* The holder of reload_lock.
Holder == \A c \in Clients : clients[c].pc = "run" <=> (job.pc # "none" /\ job.client = c)

\* The stacks of the configuration c.
StacksOf(c) == [i \in DOMAIN c.binds |-> [bind |-> c.binds[i], rules |-> c.rules]]

\* What a job holds is apart from the manager.
Pieces ==
    /\ job.pc = "none" => job = NoJob
    /\ job.started \subseteq job.created /\ job.created \subseteq DOMAIN job.target.binds
    /\ job.created \cap DOMAIN stacks = {} /\ DOMAIN job.removed \cap DOMAIN stacks = {}
    /\ job.changed \subseteq DOMAIN stacks
    /\ job.pc # "shutdown" => DOMAIN job.removed = {}
    /\ job.pc \in {"none", "build", "traffic", "finish"} => job.changed = {} /\ job.created = {}
    /\ job.pc = "start" => job.todo \subseteq job.created

\* How far a reload has come: every stack of the target is prepared or created,
\* then the manager has no others, then handlers and services follow.
Reloading ==
    job.kind # "remove" =>
        /\ job.pc = "stacks" =>
             /\ job.todo \cup job.changed \cup job.created = DOMAIN job.target.binds
             /\ \A i \in job.changed : stacks[i].bind = job.target.binds[i]
        /\ job.pc \in {"shutdown", "start", "abort", "commit"} =>
             /\ DOMAIN stacks \cup job.created = DOMAIN job.target.binds
             /\ \A i \in DOMAIN stacks : stacks[i].bind = job.target.binds[i]
        /\ job.pc \in {"shutdown", "start", "commit"} =>
             \A i \in DOMAIN stacks : i \in job.changed \/ stacks[i].rules = job.target.rules
        /\ job.pc \in {"traffic", "finish"} =>
             stacks = StacksOf(job.target) /\ services = job.target.rules
        /\ job.pc = "finish" => traffic = job.target.rules

\* remove_dispatch takes its stack out of a configuration that is applied.
Removing ==
    job.kind = "remove" =>
        /\ job.pc = "shutdown" /\ job.changed = {} /\ job.created = {}
        /\ job.target.dm = config.dm
        /\ intact => /\ stacks = StacksOf(job.target)
                     /\ services = job.target.rules /\ traffic = job.target.rules

GInv ==
    /\ Typed
    /\ Holder
    /\ Pieces
    /\ Reloading
    /\ Removing
    /\ CommitsOwnUpdate
    /\ ConfigApplied
    /\ DevicesFollowConfig

(***************************************************************************)
(* Maps                                                                    *)
(***************************************************************************)
\* A map of stacks is a function on some of the stack ids.
LEMMA MapIs ==
    ASSUME NEW B, NEW f
    PROVE  f \in UNION {[S -> B] : S \in SUBSET Ids}
             <=> (DOMAIN f \subseteq Ids /\ f \in [DOMAIN f -> B])
<1>1. ASSUME f \in UNION {[S -> B] : S \in SUBSET Ids}
      PROVE  DOMAIN f \subseteq Ids /\ f \in [DOMAIN f -> B]
  <2>1. PICK S \in SUBSET Ids : f \in [S -> B]
    BY <1>1
  <2> QED BY <2>1
<1>2. ASSUME DOMAIN f \subseteq Ids, f \in [DOMAIN f -> B]
      PROVE  f \in UNION {[S -> B] : S \in SUBSET Ids}
  <2>1. [DOMAIN f -> B] \in {[S -> B] : S \in SUBSET Ids}
    BY <1>2
  <2> QED BY <1>2, <2>1
<1> QED BY <1>1, <1>2

\* Drop takes keys away and keeps the values.
LEMMA DropIs ==
    ASSUME NEW f, NEW S
    PROVE  /\ DOMAIN Drop(f, S) = DOMAIN f \ S
           /\ \A i \in DOMAIN f \ S : Drop(f, S)[i] = f[i]
           /\ Drop(f, S) = [i \in DOMAIN f \ S |-> f[i]]
BY DEF Drop, Restrict

\* Put adds a key or changes its value.
LEMMA PutIs ==
    ASSUME NEW f, NEW i, NEW v
    PROVE  /\ DOMAIN Put(f, i, v) = DOMAIN f \cup {i} /\ Put(f, i, v)[i] = v
           /\ \A j \in DOMAIN f : j # i => Put(f, i, v)[j] = f[j]
           /\ Put(f, i, v) = [j \in DOMAIN f \cup {i} |-> IF j = i THEN v ELSE f[j]]
BY DEF Put

\* Maps stay maps.
LEMMA MapsStay ==
    ASSUME NEW B, NEW f \in UNION {[S -> B] : S \in SUBSET Ids}
    PROVE  /\ \A S : Drop(f, S) \in UNION {[R -> B] : R \in SUBSET Ids}
           /\ \A i \in Ids, v \in B : Put(f, i, v) \in UNION {[R -> B] : R \in SUBSET Ids}
<1>1. DOMAIN f \subseteq Ids /\ f \in [DOMAIN f -> B]
  BY MapIs
<1>2. ASSUME NEW S PROVE Drop(f, S) \in UNION {[R -> B] : R \in SUBSET Ids}
  <2>0. [i \in DOMAIN f \ S |-> f[i]] \in [DOMAIN f \ S -> B]
    BY <1>1
  <2>1. DOMAIN Drop(f, S) \subseteq Ids /\ Drop(f, S) \in [DOMAIN Drop(f, S) -> B]
    BY <1>1, <2>0, DropIs
  <2> QED BY <2>1, MapIs
<1>3. ASSUME NEW i \in Ids, NEW v \in B
      PROVE  Put(f, i, v) \in UNION {[R -> B] : R \in SUBSET Ids}
  <2>0. [j \in DOMAIN f \cup {i} |-> IF j = i THEN v ELSE f[j]] \in [DOMAIN f \cup {i} -> B]
    BY <1>1
  <2>a. Put(f, i, v) \in [DOMAIN f \cup {i} -> B]
    BY <2>0 DEF Put
  <2>b. DOMAIN Put(f, i, v) = DOMAIN f \cup {i} /\ DOMAIN f \cup {i} \subseteq Ids
    BY <1>1, PutIs
  <2>1. DOMAIN Put(f, i, v) \subseteq Ids /\ Put(f, i, v) \in [DOMAIN Put(f, i, v) -> B]
    BY <2>a, <2>b
  <2> QED BY <2>1, MapIs
<1> QED BY <1>2, <1>3

(***************************************************************************)
(* The constants, and a gateway without a job                              *)
(***************************************************************************)
\* The assumptions on the constants, in the form the proofs use.
LEMMA Constants ==
    /\ Files \subseteq Configs
    /\ Dispatches \in Bindings
    /\ \A w \in Worlds :
         /\ w.files \subseteq Files /\ w.clients \subseteq Clients
         /\ w.rules \subseteq Rules /\ w.dispatches \subseteq DOMAIN Dispatches
         /\ w.commands \in Nat /\ w.faults \in Nat
<1>1. ASSUME NEW f \in Files PROVE f \in Configs
  <2>1. f \in [binds : Bindings, rules : SUBSET UNION {g.rules : g \in Files}, dm : BOOLEAN]
    BY ReloadAssumption
  <2>2. f.rules \in RuleSets
    BY <2>1 DEF RuleSets, Tunnels
  <2> QED BY <2>1, <2>2 DEF Configs
<1> QED BY <1>1, ReloadAssumption

\* The placeholders have their types.
LEMMA Placeholders ==
    /\ NoConfig \in Files /\ NoConfig \in Configs
    /\ Idle \in ClientState /\ Idle.pc = "idle"
    /\ NoUpdates \in Bindings /\ DOMAIN NoUpdates = {}
    /\ NoJob \in JobState
    /\ NoJob.pc = "none" /\ NoJob.kind = "reload" /\ NoJob.mode = "forward"
    /\ NoJob.todo = {} /\ NoJob.changed = {} /\ NoJob.created = {} /\ NoJob.started = {}
    /\ NoJob.removed = NoUpdates /\ NoJob.target = NoConfig /\ NoJob.old = NoConfig
<1>1. NoConfig \in Files /\ NoConfig \in Configs
  BY Constants, ReloadAssumption DEF NoConfig
<1>2. DOMAIN NoUpdates = {} /\ NoUpdates \in [DOMAIN NoUpdates -> Binds]
  BY DEF NoUpdates
<1>3. NoUpdates \in Bindings
  BY <1>2, MapIs DEF Bindings
<1>4. Idle \in ClientState /\ Idle.pc = "idle"
  BY <1>1, ReloadAssumption DEF Idle, ClientState, Kinds
<1>5. (CHOOSE c \in Clients : TRUE) \in Clients
  BY ReloadAssumption
<1>6. NoJob \in JobState
  BY <1>1, <1>3, <1>5 DEF NoJob, JobState, Kinds, Pcs
<1> QED BY <1>1, <1>2, <1>3, <1>4, <1>6 DEF NoJob

(***************************************************************************)
(* What a step does to the job                                             *)
(***************************************************************************)
\* The job goes on.
JobNow(pc, todo, changed, created, started, removed) ==
    /\ job' \in JobState /\ job'.pc = pc /\ job'.client = job.client /\ job'.kind = job.kind
    /\ job'.mode = job.mode /\ job'.target = job.target /\ job'.old = job.old
    /\ job'.todo = todo /\ job'.changed = changed /\ job'.created = created
    /\ job'.started = started /\ job'.removed = removed

\* The fields of a job.
LEMMA JobIs ==
    ASSUME Typed
    PROVE  /\ job \in JobState /\ job.pc \in Pcs /\ job.client \in Clients /\ job.kind \in Kinds
           /\ job.mode \in {"forward", "rollback"} /\ job.target \in Configs /\ job.old \in Configs
           /\ job.todo \subseteq Ids /\ job.changed \subseteq Ids /\ job.created \subseteq Ids
           /\ job.started \subseteq Ids /\ job.removed \in Bindings
           /\ DOMAIN job.target.binds \subseteq Ids /\ job.target.rules \in RuleSets
           /\ job.target.binds \in [DOMAIN job.target.binds -> Binds]
           /\ DOMAIN job.removed \subseteq Ids /\ job.removed \in [DOMAIN job.removed -> Binds]
<1>1. job \in JobState
  BY DEF Typed
<1>2. job.target \in Configs /\ job.removed \in Bindings
  BY <1>1 DEF JobState
<1>3. job.target.binds \in Bindings /\ job.target.rules \in RuleSets
  BY <1>2 DEF Configs
<1>4. /\ DOMAIN job.target.binds \subseteq Ids
      /\ job.target.binds \in [DOMAIN job.target.binds -> Binds]
  BY <1>3, MapIs DEF Bindings
<1>5. DOMAIN job.removed \subseteq Ids /\ job.removed \in [DOMAIN job.removed -> Binds]
  BY <1>2, MapIs DEF Bindings
<1> QED BY <1>1, <1>2, <1>3, <1>4, <1>5 DEF JobState

\* The stacks of the manager.
LEMMA StacksAre ==
    ASSUME Typed
    PROVE  /\ DOMAIN stacks \subseteq Ids /\ stacks \in [DOMAIN stacks -> Stack]
           /\ \A i \in DOMAIN stacks : stacks[i] \in Stack /\ stacks[i].bind \in Binds
                                       /\ stacks[i].rules \in RuleSets
           /\ prepared \in [DOMAIN prepared -> RuleSets] /\ DOMAIN prepared \subseteq DOMAIN stacks
<1>1. DOMAIN stacks \subseteq Ids /\ stacks \in [DOMAIN stacks -> Stack]
  BY MapIs DEF Typed, StackMaps
<1>2. prepared \in [DOMAIN prepared -> RuleSets]
  BY MapIs DEF Typed, HandlerMaps
<1> QED BY <1>1, <1>2 DEF Typed, Stack

\* The invariant without its types.
Clauses == Pieces /\ Reloading /\ Removing /\ CommitsOwnUpdate /\ ConfigApplied

\* A step beside the job: what the invariant looks at stays.
LEMMA BesideKept ==
    ASSUME GInv, Typed',
           UNCHANGED <<config, stacks, prepared, services, traffic, devices, job, intact>>,
           \A c \in Clients : clients'[c].pc = "run" <=> clients[c].pc = "run"
    PROVE  GInv'
<1>1. Holder' /\ Pieces'
  BY DEF GInv, Holder, Pieces
<1>2. Reloading' /\ Removing'
  BY DEF GInv, Reloading, Removing, StacksOf
<1>3. CommitsOwnUpdate' /\ ConfigApplied' /\ DevicesFollowConfig'
  BY DEF GInv, CommitsOwnUpdate, ConfigApplied, Untouched, Applied, DevicesFollowConfig
<1> QED BY <1>1, <1>2, <1>3 DEF GInv

\* The end of a job: only the configuration has to be looked at.
LEMMA EndKept ==
    ASSUME GInv, Typed', job.pc # "none", job' = NoJob,
           clients' = [clients EXCEPT ![job.client] = Idle],
           intact' => Applied', DevicesFollowConfig'
    PROVE  GInv'
<1>1. job'.pc = "none" /\ job'.kind = "reload" /\ job'.changed = {} /\ job'.created = {}
      /\ job'.started = {} /\ DOMAIN job'.removed = {}
  BY Placeholders
<1>2. Holder'
  <2>1. clients'[job.client].pc = "idle" /\ \A c \in Clients : c # job.client => clients'[c] = clients[c]
    BY JobIs, Placeholders DEF GInv, Typed
  <2> QED BY <1>1, <2>1 DEF GInv, Holder
<1>3. Pieces'
  BY <1>1 DEF Pieces
<1>4. Reloading' /\ Removing'
  BY <1>1 DEF Reloading, Removing
<1>5. CommitsOwnUpdate' /\ ConfigApplied'
  BY <1>1 DEF CommitsOwnUpdate, ConfigApplied
<1> QED BY <1>2, <1>3, <1>4, <1>5 DEF GInv

\* A job that goes on: the lock stays where it is.
LEMMA GoesOn ==
    ASSUME GInv, Typed', job.pc # "none", job'.pc # "none", job'.client = job.client,
           clients' = clients, devices' = devices, config' = config, Clauses'
    PROVE  GInv'
<1>1. Holder'
  BY DEF GInv, Holder
<1>2. DevicesFollowConfig'
  BY DEF GInv, DevicesFollowConfig
<1> QED BY <1>1, <1>2 DEF GInv, Clauses

\* The error of reload_inner, before it changed anything or in the rollback.
LEMMA RefuseKept ==
    ASSUME GInv, Typed', job.pc # "none", Refuse,
           Untouched \/ job.mode = "rollback",
           UNCHANGED <<config, stacks, services, traffic, devices>>
    PROVE  GInv'
<1>1. job' = NoJob /\ clients' = [clients EXCEPT ![job.client] = Idle]
  BY DEF Refuse, End
<1>2. ASSUME intact' PROVE Applied'
  <2>1. CASE job.mode = "rollback"
    <3>1. intact' = IntactAfter("rollback_failed")
      BY <2>1 DEF Refuse
    <3> QED BY <1>2, <3>1 DEF IntactAfter
  <2>2. CASE Untouched
    <3>1. intact' = IntactAfter("refused")
      BY <2>2 DEF Refuse, Untouched
    <3>2. intact' = intact
      BY <3>1 DEF IntactAfter
    <3>3. Applied
      BY <1>2, <2>2, <3>2 DEF GInv, ConfigApplied
    <3> QED BY <3>3 DEF Applied
  <2> QED BY <2>1, <2>2
<1>3. DevicesFollowConfig'
  BY DEF GInv, DevicesFollowConfig
<1> QED BY <1>1, <1>2, <1>3, EndKept

\* A refusal leaves the types alone.
LEMMA RefuseTyped ==
    ASSUME Typed, Refuse, prepared' \in HandlerMaps, DOMAIN prepared' \subseteq DOMAIN prepared,
           faults' \in 0..world.faults,
           UNCHANGED <<world, file, config, stacks, closing, services, traffic, devices, used, commands>>
    PROVE  Typed'
<1>1. job' \in JobState
  BY Placeholders DEF Refuse, End
<1>2. clients' \in [Clients -> ClientState]
  BY Placeholders, JobIs DEF Refuse, End, Typed
<1>3. gone' \subseteq Rules /\ intact' \in BOOLEAN
  BY DEF Refuse, IntactAfter, Typed
<1> QED BY <1>1, <1>2, <1>3 DEF Typed

\* A fault stays within its bound.
LEMMA FaultTyped ==
    ASSUME Typed, NEW k, Fault(k)
    PROVE  faults' \in 0..world.faults
<1>1. world.faults \in Nat
  BY Constants DEF Typed
<1> QED BY <1>1 DEF Fault, Typed

(***************************************************************************)
(* Steps beside the job                                                    *)
(***************************************************************************)
\* A command that asks for the lock.
LEMMA SubmitKept ==
    ASSUME GInv, NEW c \in Clients, NEW k \in Kinds, NEW t \in Configs, NEW i \in Ids,
           Submit(c, k, t, i), used' \subseteq Rules
    PROVE  GInv'
<1> DEFINE s == [pc |-> "wait", kind |-> k, target |-> t, id |-> i]
<1>1. s \in ClientState /\ s.pc = "wait"
  BY DEF ClientState
<1>2. clients' = [clients EXCEPT ![c] = s] /\ clients[c].pc = "idle"
  BY DEF Submit
<1> HIDE DEF s
<1>3. clients \in [Clients -> ClientState]
  BY DEF GInv, Typed
<1>4. clients' \in [Clients -> ClientState]
  BY <1>1, <1>2, <1>3
<1>5. \A d \in Clients : clients'[d].pc = "run" <=> clients[d].pc = "run"
  BY <1>1, <1>2, <1>3
<1>6. UNCHANGED <<world, file, config, job, faults>>
  BY DEF Submit
<1>7. UNCHANGED <<stacks, prepared, closing, services, traffic, devices, intact, gone>>
  BY DEF Submit, runtime, history
<1>8. commands' \in 0..world.commands
  <2>1. world.commands \in Nat
    BY Constants DEF GInv, Typed
  <2> QED BY <2>1 DEF Submit, GInv, Typed
<1>9. Typed'
  BY <1>4, <1>6, <1>7, <1>8 DEF GInv, Typed
<1> QED BY <1>5, <1>6, <1>7, <1>9, BesideKept

\* Every command but the holder's asks for the lock with a configuration.
LEMMA CommandKept ==
    ASSUME GInv, NEW c \in world.clients, Command(c)
    PROVE  GInv'
<1>1. c \in Clients /\ world.rules \subseteq Rules /\ world.dispatches \subseteq DOMAIN Dispatches
  BY Constants DEF GInv, Typed
<1>2. Idle.id \in Ids
  BY Placeholders DEF ClientState
<1>3. DOMAIN Dispatches \subseteq Ids /\ Dispatches \in [DOMAIN Dispatches -> Binds]
  BY Constants, MapIs DEF Bindings
<1>4. config \in Configs /\ used \subseteq Rules
  BY DEF GInv, Typed
<1>5. CASE SubmitReload(c)
  <2>1. file \in Configs
    BY Constants DEF GInv, Typed
  <2> QED BY <1>1, <1>2, <1>4, <1>5, <2>1, SubmitKept DEF SubmitReload, Kinds
<1>6. ASSUME NEW r \in world.rules, SubmitRule(c, r) PROVE GInv'
  <2> DEFINE t == [config EXCEPT !.rules = @ \cup {r}]
  <2>1. t \in Configs
    BY <1>1, <1>4 DEF Configs, RuleSets
  <2>2. Submit(c, "rule", t, Idle.id) /\ used' \subseteq Rules
    BY <1>1, <1>4, <1>6 DEF SubmitRule
  <2> HIDE DEF t
  <2> QED BY <1>1, <1>2, <2>1, <2>2, SubmitKept DEF Kinds
<1>7. ASSUME NEW i \in world.dispatches, SubmitDispatch(c, i) PROVE GInv'
  <2> DEFINE t == [config EXCEPT !.binds = Put(@, i, Dispatches[i])]
  <2>1. Put(config.binds, i, Dispatches[i]) \in Bindings
    <3>1. config.binds \in UNION {[S -> Binds] : S \in SUBSET Ids}
      BY <1>4 DEF Configs, Bindings
    <3>2. i \in Ids /\ Dispatches[i] \in Binds
      BY <1>1, <1>3
    <3> QED BY <3>1, <3>2, MapsStay DEF Bindings
  <2>2. t \in Configs
    BY <1>4, <2>1 DEF Configs
  <2>3. Submit(c, "dispatch", t, Idle.id) /\ used' \subseteq Rules
    BY <1>4, <1>7 DEF SubmitDispatch
  <2> HIDE DEF t
  <2> QED BY <1>1, <1>2, <2>2, <2>3, SubmitKept DEF Kinds
<1>8. ASSUME NEW i \in world.dispatches, SubmitRemove(c, i) PROVE GInv'
  <2>1. i \in Ids
    BY <1>1, <1>3
  <2>2. Submit(c, "remove", NoConfig, i) /\ used' \subseteq Rules
    BY <1>4, <1>8 DEF SubmitRemove
  <2> QED BY <1>1, <2>1, <2>2, Placeholders, SubmitKept DEF Kinds
<1> QED BY <1>5, <1>6, <1>7, <1>8 DEF Command

\* The operator edits the file, and the runtime lets go of a port.
LEMMA OutsideKept ==
    ASSUME GInv, (\E f \in world.files : EditFile(f)) \/ (\E b \in Binds : Release(b))
    PROVE  GInv'
<1>1. ASSUME NEW f \in world.files, EditFile(f) PROVE GInv'
  <2>1. UNCHANGED <<world, config, stacks, prepared, closing, services, traffic, devices, clients,
                    job, used, intact, gone, commands, faults>> /\ file' = f
    BY <1>1 DEF EditFile, runtime, history
  <2>2. Typed'
    BY <2>1 DEF GInv, Typed
  <2> QED BY <2>1, <2>2, BesideKept
<1>2. ASSUME NEW b \in Binds, Release(b) PROVE GInv'
  <2>1. UNCHANGED <<world, file, config, stacks, prepared, services, traffic, devices, clients,
                    job, used, intact, gone, commands, faults>> /\ closing' = closing \ {b}
    BY <1>2 DEF Release, history
  <2>2. Typed'
    BY <2>1 DEF GInv, Typed
  <2> QED BY <2>1, <2>2, BesideKept
<1> QED BY <1>1, <1>2

\* A control connection goes away, with or without the lock.
LEMMA CancelKept ==
    ASSUME GInv, NEW c \in Clients, Cancel(c)
    PROVE  GInv'
<1>1. Typed /\ Holder
  BY DEF GInv
<1>2. clients \in [Clients -> ClientState] /\ clients' = [clients EXCEPT ![c] = Idle]
  BY <1>1 DEF Typed, Cancel
<1>3. clients' \in [Clients -> ClientState]
  BY <1>2, Placeholders
<1>4. faults' \in 0..world.faults
  BY <1>1, FaultTyped DEF Cancel
<1>5. UNCHANGED <<world, file, config, stacks, prepared, services, traffic, devices, used, gone,
                  commands>>
  BY DEF Cancel
<1>6. CASE clients[c].pc = "run"
  <2>1. job.pc # "none" /\ job.client = c
    BY <1>1, <1>6 DEF Holder
  <2>2. job' = NoJob /\ intact' = (intact /\ Untouched)
        /\ closing' = closing \cup BindsOf(job.removed) \cup {job.target.binds[i] : i \in job.started}
    BY <1>6 DEF Cancel
  <2>3. closing' \subseteq Binds
    <3>1. BindsOf(job.removed) \subseteq Binds
      BY <1>1, JobIs DEF BindsOf
    <3>2. \A i \in job.started : job.target.binds[i] \in Binds
      <4>1. job.started \subseteq DOMAIN job.target.binds
        BY DEF GInv, Pieces
      <4> QED BY <4>1, <1>1, JobIs
    <3> QED BY <1>1, <2>2, <3>1, <3>2 DEF Typed
  <2>4. Typed'
    BY <1>1, <1>3, <1>4, <1>5, <2>2, <2>3, Placeholders DEF Typed
  <2>5. intact' => Applied'
    <3>1. intact' => Applied
      BY <2>2 DEF GInv, ConfigApplied
    <3> QED BY <3>1, <1>5 DEF Applied
  <2>6. DevicesFollowConfig'
    BY <1>5 DEF GInv, DevicesFollowConfig
  <2>7. clients' = [clients EXCEPT ![job.client] = Idle]
    BY <1>2, <2>1
  <2> QED BY <2>1, <2>2, <2>4, <2>5, <2>6, <2>7, EndKept
<1>7. CASE clients[c].pc # "run"
  <2>1. UNCHANGED <<job, closing, intact>>
    BY <1>7 DEF Cancel
  <2>2. Typed'
    BY <1>1, <1>3, <1>4, <1>5, <2>1 DEF Typed
  <2>3. \A d \in Clients : clients'[d].pc = "run" <=> clients[d].pc = "run"
    BY <1>2, <1>7, Placeholders
  <2> QED BY <1>5, <2>1, <2>2, <2>3, BesideKept
<1> QED BY <1>6, <1>7

(***************************************************************************)
(* A command takes the lock                                                *)
(***************************************************************************)
\* The client whose command takes the lock runs.
LEMMA TakesLock ==
    ASSUME GInv, NEW c \in Clients, job.pc = "none",
           clients' = [clients EXCEPT ![c].pc = "run"]
    PROVE  /\ clients' \in [Clients -> ClientState]
           /\ clients'[c].pc = "run"
           /\ \A d \in Clients : d # c => clients'[d].pc # "run"
<1>1. clients \in [Clients -> ClientState]
  BY DEF GInv, Typed
<1>2. clients[c] \in ClientState
  BY <1>1
<1>3. [clients[c] EXCEPT !.pc = "run"] \in ClientState /\ [clients[c] EXCEPT !.pc = "run"].pc = "run"
  BY <1>2 DEF ClientState
<1>4. clients' = [clients EXCEPT ![c] = [clients[c] EXCEPT !.pc = "run"]]
  OBVIOUS
<1> DEFINE r == [clients[c] EXCEPT !.pc = "run"]
<1> HIDE DEF r
<1>5. r \in ClientState /\ r.pc = "run" /\ clients' = [clients EXCEPT ![c] = r]
  BY <1>3, <1>4 DEF r
<1> QED BY <1>1, <1>5 DEF GInv, Holder

\* A command starts: the lock is now its own.
LEMMA Starts ==
    ASSUME GInv, Typed', NEW c \in Clients, job.pc = "none",
           clients' = [clients EXCEPT ![c].pc = "run"], job'.pc # "none", job'.client = c,
           UNCHANGED <<devices, config>>, Clauses'
    PROVE  GInv'
<1>1. Holder'
  BY TakesLock DEF Holder
<1>2. DevicesFollowConfig'
  BY DEF GInv, DevicesFollowConfig
<1> QED BY <1>1, <1>2 DEF GInv, Clauses

\* A reload takes the lock.
LEMMA AcquireKept ==
    ASSUME GInv, NEW c \in Clients, Acquire(c)
    PROVE  GInv'
<1>1. Typed
  BY DEF GInv
<1>2. job.pc = "none" /\ clients' = [clients EXCEPT ![c].pc = "run"] /\ clients[c].kind # "remove"
  BY DEF Acquire
<1>3. clients[c] \in ClientState
  BY <1>1 DEF Typed
<1>4. clients[c].kind \in Kinds /\ clients[c].target \in Configs
  BY <1>3 DEF ClientState
<1>5. UNCHANGED <<world, file, config, used, commands, faults>>
  BY DEF Acquire
<1>6. UNCHANGED <<stacks, prepared, closing, services, traffic, devices, intact, gone>>
  BY DEF Acquire, runtime, history
<1>7. /\ job' \in JobState /\ job'.pc = "build" /\ job'.client = c /\ job'.kind = clients[c].kind
      /\ job'.mode = "forward" /\ job'.changed = {} /\ job'.created = {} /\ job'.started = {}
      /\ job'.removed = NoUpdates
  <2> DEFINE k == clients[c].kind
             t == clients[c].target
  <2>1. job' = [pc |-> "build", client |-> c, kind |-> k, mode |-> "forward", target |-> t,
                old |-> config, todo |-> {}, changed |-> {}, created |-> {}, started |-> {},
                removed |-> NoUpdates]
    BY DEF Acquire, NoJob
  <2>2. k \in Kinds /\ t \in Configs /\ config \in Configs /\ NoUpdates \in Bindings
    BY <1>1, <1>4, Placeholders DEF Typed
  <2> HIDE DEF k, t
  <2>3. /\ job' \in JobState /\ job'.pc = "build" /\ job'.client = c /\ job'.kind = k
        /\ job'.mode = "forward" /\ job'.changed = {} /\ job'.created = {} /\ job'.started = {}
        /\ job'.removed = NoUpdates
    BY <2>1, <2>2 DEF JobState, Pcs
  <2> QED BY <2>3 DEF k
<1>8. Typed'
  BY <1>1, <1>2, <1>5, <1>6, <1>7, TakesLock DEF Typed
<1>9. Pieces'
  BY <1>7, Placeholders DEF Pieces
<1>10. Reloading' /\ Removing'
  BY <1>2, <1>7 DEF Reloading, Removing
<1>11. CommitsOwnUpdate' /\ ConfigApplied'
  <2>1. intact => Applied
    BY <1>2 DEF GInv, ConfigApplied
  <2> QED BY <1>5, <1>6, <1>7, <2>1 DEF CommitsOwnUpdate, ConfigApplied, Applied
<1> QED BY <1>2, <1>5, <1>6, <1>7, <1>8, <1>9, <1>10, <1>11, Starts DEF Clauses

\* remove_dispatch takes the lock and its stack.
LEMMA RemoveDispatchKept ==
    ASSUME GInv, NEW c \in Clients, RemoveDispatch(c)
    PROVE  GInv'
<1> DEFINE i == clients[c].id
<1>1. Typed /\ job.pc = "none"
  BY DEF GInv, RemoveDispatch
<1>2. clients \in [Clients -> ClientState] /\ clients[c].pc = "wait"
  BY <1>1 DEF Typed, RemoveDispatch
<1>3. UNCHANGED <<world, file, config, closing, services, traffic, devices, used, intact, gone,
                  commands, faults>>
  BY DEF RemoveDispatch
<1>4. CASE i \notin DOMAIN config.binds
  <2>1. UNCHANGED <<job, stacks, prepared>> /\ clients' = [clients EXCEPT ![c] = Idle]
    BY <1>4 DEF RemoveDispatch
  <2>2. clients' \in [Clients -> ClientState]
    BY <1>2, <2>1, Placeholders
  <2>3. Typed'
    BY <1>1, <1>3, <2>1, <2>2 DEF Typed
  <2>4. \A d \in Clients : clients'[d].pc = "run" <=> clients[d].pc = "run"
    BY <1>2, <2>1, Placeholders
  <2> QED BY <1>3, <2>1, <2>3, <2>4, BesideKept
<1>5. CASE i \in DOMAIN config.binds
  <2> DEFINE t == [config EXCEPT !.binds = Drop(@, {i})]
             out == [k \in {i} \cap DOMAIN stacks |-> stacks[k].bind]
  <2>1. /\ stacks' = Drop(stacks, {i}) /\ prepared' = Drop(prepared, {i})
        /\ clients' = [clients EXCEPT ![c].pc = "run"]
        /\ job' = [NoJob EXCEPT !.pc = "shutdown", !.client = c, !.kind = "remove",
                                !.target = t, !.removed = out]
    BY <1>5 DEF RemoveDispatch
  <2>2. config \in Configs /\ config.binds \in Bindings
    BY <1>1 DEF Typed, Configs
  <2>3. Drop(config.binds, {i}) \in Bindings
    BY <2>2, MapsStay DEF Bindings
  <2>4. t \in Configs /\ t.binds = Drop(config.binds, {i}) /\ t.rules = config.rules
        /\ t.dm = config.dm
    BY <2>2, <2>3 DEF Configs
  <2>5. DOMAIN out = {i} \cap DOMAIN stacks /\ out \in [DOMAIN out -> Binds]
    BY <1>1, StacksAre
  <2>6. out \in Bindings
    BY <1>1, <2>5, MapIs, StacksAre DEF Bindings
  <2> HIDE DEF t, out
  <2>7. job' = [pc |-> "shutdown", client |-> c, kind |-> "remove", mode |-> "forward", target |-> t,
                old |-> NoConfig, todo |-> {}, changed |-> {}, created |-> {}, started |-> {},
                removed |-> out]
    BY <2>1 DEF NoJob
  <2>8. /\ job' \in JobState /\ job'.pc = "shutdown" /\ job'.client = c /\ job'.kind = "remove"
        /\ job'.target = t /\ job'.changed = {} /\ job'.created = {} /\ job'.started = {}
        /\ job'.removed = out
    BY <2>4, <2>6, <2>7, Placeholders DEF JobState, Pcs, Kinds
  <2>9. /\ DOMAIN stacks' = DOMAIN stacks \ {i} /\ DOMAIN prepared' = DOMAIN prepared \ {i}
        /\ stacks' = [k \in DOMAIN stacks \ {i} |-> stacks[k]]
    BY <2>1, DropIs
  <2>10. stacks' \in StackMaps /\ prepared' \in HandlerMaps
    BY <1>1, <2>1, MapsStay DEF Typed, StackMaps, HandlerMaps
  <2>11. Typed'
    BY <1>1, <1>3, <2>1, <2>8, <2>9, <2>10, TakesLock DEF Typed
  <2>12. Pieces'
    BY <2>5, <2>8, <2>9 DEF Pieces
  <2>13. Reloading'
    BY <2>8 DEF Reloading
  <2>14. Removing'
    <3>1. ASSUME intact PROVE stacks' = StacksOf(t) /\ services = t.rules /\ traffic = t.rules
      <4>1. stacks = StacksOf(config) /\ services = config.rules /\ traffic = config.rules
        BY <1>1, <3>1 DEF GInv, ConfigApplied, Applied, StacksOf
      <4>2. DOMAIN t.binds = DOMAIN config.binds \ {i}
            /\ \A k \in DOMAIN config.binds \ {i} : t.binds[k] = config.binds[k]
        <5>1. /\ DOMAIN Drop(config.binds, {i}) = DOMAIN config.binds \ {i}
              /\ \A k \in DOMAIN config.binds \ {i} : Drop(config.binds, {i})[k] = config.binds[k]
          BY DropIs
        <5> QED BY <2>4, <5>1
      <4>3. DOMAIN stacks = DOMAIN config.binds
            /\ \A k \in DOMAIN stacks : stacks[k] = [bind |-> config.binds[k], rules |-> config.rules]
        BY <4>1 DEF StacksOf
      <4>4. stacks' = StacksOf(t)
        BY <2>4, <2>9, <4>2, <4>3 DEF StacksOf
      <4> QED BY <2>4, <4>1, <4>4
    <3> QED BY <1>3, <2>4, <2>8, <3>1 DEF Removing, StacksOf
  <2>15. CommitsOwnUpdate' /\ ConfigApplied'
    BY <2>8 DEF CommitsOwnUpdate, ConfigApplied, Untouched
  <2> QED BY <1>1, <1>3, <2>1, <2>8, <2>11, <2>12, <2>13, <2>14, <2>15, Starts DEF Clauses
<1> QED BY <1>4, <1>5

(***************************************************************************)
(* A command ends                                                          *)
(***************************************************************************)
\* The commit point: the target becomes the configuration.
LEMMA FinishKept ==
    ASSUME GInv, Finish
    PROVE  GInv'
<1>1. Typed /\ job.pc = "finish" /\ job.kind # "remove"
  BY DEF GInv, Finish, Removing
<1>2. UNCHANGED <<world, file, stacks, prepared, closing, services, traffic, used, commands, faults>>
      /\ config' = job.target /\ job' = NoJob
      /\ clients' = [clients EXCEPT ![job.client] = Idle]
  BY DEF Finish, End
<1>3. job.target \in Configs
  BY <1>1, JobIs
<1>4. devices' = job.target.dm
  BY DEF Finish, GInv, DevicesFollowConfig
<1>5. intact' \in BOOLEAN
  BY <1>1 DEF Finish, IntactAfter, Typed
<1>6. gone' \subseteq Rules
  BY <1>1 DEF Finish, Typed
<1>7. devices' \in BOOLEAN
  BY <1>3, <1>4 DEF Configs
<1>8. clients' \in [Clients -> ClientState]
  BY <1>1, <1>2, JobIs, Placeholders DEF Typed
<1>9. Typed'
  BY <1>1, <1>2, <1>3, <1>5, <1>6, <1>7, <1>8, Placeholders DEF Typed
<1>10. Applied'
  BY <1>1, <1>2, <1>4 DEF GInv, Reloading, Applied, StacksOf
<1>11. DevicesFollowConfig'
  BY <1>2, <1>4 DEF DevicesFollowConfig
<1> QED BY <1>1, <1>2, <1>9, <1>10, <1>11, EndKept

\* The stack of remove_dispatch is gone, and the configuration says so.
LEMMA RemoveDoneKept ==
    ASSUME GInv, RemoveDone
    PROVE  GInv'
<1>1. Typed /\ job.pc = "shutdown" /\ job.kind = "remove"
  BY DEF GInv, RemoveDone
<1>2. UNCHANGED <<world, file, stacks, prepared, closing, services, traffic, devices, used,
                  intact, gone, commands, faults>>
      /\ config' = job.target /\ job' = NoJob
      /\ clients' = [clients EXCEPT ![job.client] = Idle]
  BY DEF RemoveDone, End, runtime
<1>3. job.target \in Configs
  BY <1>1, JobIs
<1>4. clients' \in [Clients -> ClientState]
  BY <1>1, <1>2, JobIs, Placeholders DEF Typed
<1>5. Typed'
  BY <1>1, <1>2, <1>3, <1>4, Placeholders DEF Typed
<1>6. devices' = job.target.dm
  BY <1>1, <1>2 DEF GInv, Removing, DevicesFollowConfig
<1>7. intact' => Applied'
  BY <1>1, <1>2, <1>6 DEF GInv, Removing, Applied, StacksOf
<1>8. DevicesFollowConfig'
  BY <1>2, <1>6 DEF DevicesFollowConfig
<1> QED BY <1>1, <1>2, <1>5, <1>7, <1>8, EndKept

(***************************************************************************)
(* reload_inner builds and prepares                                        *)
(***************************************************************************)
\* What the manager has not been touched for stays applied.
LEMMA StaysApplied ==
    ASSUME GInv, UNCHANGED <<config, stacks, services, traffic, devices, intact>>,
           job'.pc # "none", job'.mode = job.mode,
           job'.pc \in {"build", "stacks"} => job.pc \in {"build", "stacks"}
    PROVE  ConfigApplied'
<1>1. ASSUME intact', Untouched' PROVE Applied'
  <2>1. Untouched /\ intact
    BY <1>1 DEF Untouched
  <2>2. Applied
    BY <2>1 DEF GInv, ConfigApplied
  <2> QED BY <2>2 DEF Applied
<1> QED BY <1>1 DEF ConfigApplied

\* A refusal while the new configuration is built or prepared.
LEMMA PrepareRefused ==
    ASSUME GInv, job.pc \in {"build", "stacks"}, Refuse, faults' \in 0..world.faults,
           prepared' \in HandlerMaps, DOMAIN prepared' \subseteq DOMAIN prepared,
           UNCHANGED <<world, file, config, stacks, closing, services, traffic, devices, used, commands>>
    PROVE  GInv'
<1>1. Typed
  BY DEF GInv
<1>2. Typed'
  BY <1>1, RefuseTyped
<1>3. Untouched \/ job.mode = "rollback"
  BY <1>1, JobIs DEF Untouched
<1> QED BY <1>2, <1>3, RefuseKept

\* A reload has built what it needs, or is refused.
LEMMA BuildKept ==
    ASSUME GInv, Build
    PROVE  GInv'
<1>1. Typed /\ job.pc = "build" /\ job.kind # "remove"
  BY DEF GInv, Build, Removing
<1>2. UNCHANGED <<world, file, config, stacks, prepared, closing, services, traffic, devices, used,
                  commands>>
  BY DEF Build, runtime
<1>3. CASE job' = [job EXCEPT !.pc = "stacks", !.todo = DOMAIN job.target.binds]
           /\ UNCHANGED <<clients, faults, history>>
  <2>0. UNCHANGED <<clients, faults, intact, gone>>
    BY <1>3 DEF history
  <2>1. JobNow("stacks", DOMAIN job.target.binds, job.changed, job.created, job.started, job.removed)
    <3> DEFINE d == DOMAIN job.target.binds
    <3>1. d \subseteq Ids /\ job \in JobState /\ job' = [job EXCEPT !.pc = "stacks", !.todo = d]
      BY <1>1, <1>3, JobIs
    <3> HIDE DEF d
    <3>2. JobNow("stacks", d, job.changed, job.created, job.started, job.removed)
      BY <3>1 DEF JobNow, JobState, Pcs
    <3> QED BY <3>2 DEF d
  <2>2. Typed'
    BY <1>1, <1>2, <2>0, <2>1 DEF Typed, JobNow
  <2>3. job.changed = {} /\ job.created = {}
    BY <1>1 DEF GInv, Pieces
  <2>4. Pieces'
    BY <1>1, <1>2, <2>1 DEF GInv, Pieces, JobNow
  <2>5. Reloading' /\ Removing'
    BY <1>1, <2>1, <2>3 DEF Reloading, Removing, JobNow
  <2>6. CommitsOwnUpdate'
    BY <2>1, <2>3 DEF CommitsOwnUpdate, JobNow
  <2>7. ConfigApplied'
    BY <1>1, <1>2, <2>0, <2>1, StaysApplied DEF JobNow
  <2> QED BY <1>1, <1>2, <2>0, <2>1, <2>2, <2>4, <2>5, <2>6, <2>7, GoesOn DEF Clauses, JobNow
<1>4. CASE Fault("build") /\ Refuse
  <2>1. faults' \in 0..world.faults
    BY <1>1, <1>4, FaultTyped
  <2> QED BY <1>1, <1>2, <1>4, <2>1, PrepareRefused DEF Typed
<1> QED BY <1>3, <1>4 DEF Build

\* A managed stack prepares its handler, or the reload is refused.
LEMMA PrepareStackKept ==
    ASSUME GInv, NEW i \in Ids, PrepareStack(i)
    PROVE  GInv'
<1>1. Typed /\ job.pc = "stacks" /\ job.kind # "remove" /\ i \in job.todo /\ i \in DOMAIN stacks
  BY DEF GInv, PrepareStack, Removing
<1>2. UNCHANGED <<world, file, config, stacks, closing, services, traffic, devices, used, commands>>
  BY DEF PrepareStack
<1>3. CASE /\ stacks[i].bind = job.target.binds[i]
           /\ prepared' = Put(prepared, i, job.target.rules)
           /\ job' = [job EXCEPT !.todo = @ \ {i}, !.changed = @ \cup {i}]
           /\ UNCHANGED <<clients, faults, history>>
  <2>0. UNCHANGED <<clients, faults, intact, gone>>
    BY <1>3 DEF history
  <2>1. JobNow("stacks", job.todo \ {i}, job.changed \cup {i}, job.created, job.started, job.removed)
    <3>1. job \in JobState
      BY <1>1, JobIs
    <3> QED BY <1>1, <1>3, <3>1 DEF JobNow, JobState
  <2>2. job.target.rules \in RuleSets
    BY <1>1, JobIs
  <2>3. prepared' \in HandlerMaps
    BY <1>1, <1>3, <2>2, MapsStay DEF Typed, HandlerMaps
  <2>4. DOMAIN prepared' = DOMAIN prepared \cup {i} /\ prepared'[i] = job.target.rules
        /\ \A j \in DOMAIN prepared : j # i => prepared'[j] = prepared[j]
    <3> DEFINE v == job.target.rules
    <3> HIDE DEF v
    <3>1. /\ DOMAIN Put(prepared, i, v) = DOMAIN prepared \cup {i} /\ Put(prepared, i, v)[i] = v
          /\ \A j \in DOMAIN prepared : j # i => Put(prepared, i, v)[j] = prepared[j]
      BY DEF Put
    <3>2. prepared' = Put(prepared, i, v)
      BY <1>3 DEF v
    <3>3. DOMAIN prepared' = DOMAIN prepared \cup {i} /\ prepared'[i] = v
          /\ \A j \in DOMAIN prepared : j # i => prepared'[j] = prepared[j]
      BY <3>1, <3>2
    <3> QED BY <3>3 DEF v
  <2>5. Typed'
    BY <1>1, <1>2, <2>0, <2>1, <2>3, <2>4 DEF Typed, JobNow
  <2>6. Pieces'
    BY <1>1, <1>2, <2>1 DEF GInv, Pieces, JobNow
  <2>7. Reloading'
    BY <1>1, <1>2, <1>3, <2>1 DEF GInv, Reloading, JobNow
  <2>8. CommitsOwnUpdate' /\ Removing'
    BY <1>1, <2>1, <2>4 DEF GInv, CommitsOwnUpdate, Removing, JobNow
  <2>9. ConfigApplied'
    BY <1>1, <1>2, <2>0, <2>1, StaysApplied DEF JobNow
  <2> QED BY <1>1, <1>2, <2>0, <2>1, <2>5, <2>6, <2>7, <2>8, <2>9, GoesOn DEF Clauses, JobNow
<1>4. CASE /\ IF stacks[i].bind # job.target.binds[i] THEN UNCHANGED faults ELSE Fault("prepare")
           /\ prepared' = Drop(prepared, job.changed \cup {i})
           /\ Refuse
  <2>1. faults' \in 0..world.faults
    BY <1>1, <1>2, <1>4, FaultTyped DEF Typed
  <2>2. prepared' \in HandlerMaps
    BY <1>1, <1>4, MapsStay DEF Typed, HandlerMaps
  <2>3. DOMAIN prepared' \subseteq DOMAIN prepared
    <3>1. DOMAIN Drop(prepared, job.changed \cup {i}) = DOMAIN prepared \ (job.changed \cup {i})
      BY DropIs
    <3> QED BY <1>4, <3>1
  <2> QED BY <1>1, <1>2, <1>4, <2>1, <2>2, <2>3, PrepareRefused
<1> QED BY <1>3, <1>4 DEF PrepareStack

\* A new stack is created, or the reload is refused.
LEMMA CreateStackKept ==
    ASSUME GInv, NEW i \in Ids, CreateStack(i)
    PROVE  GInv'
<1>1. Typed /\ job.pc = "stacks" /\ job.kind # "remove" /\ i \in job.todo /\ i \notin DOMAIN stacks
  BY DEF GInv, CreateStack, Removing
<1>2. UNCHANGED <<world, file, config, stacks, closing, services, traffic, devices, used, commands>>
  BY DEF CreateStack
<1>3. CASE /\ job' = [job EXCEPT !.todo = @ \ {i}, !.created = @ \cup {i}]
           /\ UNCHANGED <<clients, prepared, faults, history>>
  <2>0. UNCHANGED <<clients, prepared, faults, intact, gone>>
    BY <1>3 DEF history
  <2>1. JobNow("stacks", job.todo \ {i}, job.changed, job.created \cup {i}, job.started, job.removed)
    <3>1. job \in JobState
      BY <1>1, JobIs
    <3> QED BY <1>1, <1>3, <3>1 DEF JobNow, JobState
  <2>2. Typed'
    BY <1>1, <1>2, <2>0, <2>1 DEF Typed, JobNow
  <2>3. Pieces'
    BY <1>1, <1>2, <2>1 DEF GInv, Pieces, Reloading, JobNow
  <2>4. Reloading'
    BY <1>1, <1>2, <2>1 DEF GInv, Reloading, JobNow
  <2>5. CommitsOwnUpdate' /\ Removing'
    BY <1>1, <2>0, <2>1 DEF GInv, CommitsOwnUpdate, Removing, JobNow
  <2>6. ConfigApplied'
    BY <1>1, <1>2, <2>0, <2>1, StaysApplied DEF JobNow
  <2> QED BY <1>1, <1>2, <2>0, <2>1, <2>2, <2>3, <2>4, <2>5, <2>6, GoesOn DEF Clauses, JobNow
<1>4. CASE Fault("create") /\ prepared' = Drop(prepared, job.changed) /\ Refuse
  <2>1. faults' \in 0..world.faults
    BY <1>1, <1>4, FaultTyped
  <2>2. prepared' \in HandlerMaps
    BY <1>1, <1>4, MapsStay DEF Typed, HandlerMaps
  <2>3. DOMAIN prepared' \subseteq DOMAIN prepared
    <3>1. DOMAIN Drop(prepared, job.changed) = DOMAIN prepared \ job.changed
      BY DropIs
    <3> QED BY <1>4, <3>1
  <2> QED BY <1>1, <1>2, <1>4, <2>1, <2>2, <2>3, PrepareRefused
<1> QED BY <1>3, <1>4 DEF CreateStack

(***************************************************************************)
(* reload_inner changes the manager                                        *)
(***************************************************************************)
\* A reload past its preparation says nothing about what is applied.
LEMMA InTheMiddle ==
    ASSUME job'.pc \notin {"none", "build", "stacks"}
    PROVE  ConfigApplied'
BY DEF ConfigApplied, Untouched

\* Obsolete stacks leave the manager.
LEMMA RetainKept ==
    ASSUME GInv, Retain
    PROVE  GInv'
<1> DEFINE out == DOMAIN stacks \ DOMAIN job.target.binds
           left == [i \in out |-> stacks[i].bind]
<1>1. Typed /\ job.pc = "stacks" /\ job.kind # "remove" /\ job.todo = {}
  BY DEF GInv, Retain, Removing
<1>2. UNCHANGED <<world, file, config, closing, services, traffic, devices, clients, used, commands,
                  faults, intact, gone>>
  BY DEF Retain, history
<1>3. stacks' = Drop(stacks, out) /\ prepared' = Drop(prepared, out)
      /\ job' = [job EXCEPT !.pc = "shutdown", !.removed = left]
  BY DEF Retain
<1>4. DOMAIN left = out /\ left \in [DOMAIN left -> Binds] /\ out \subseteq Ids
  BY <1>1, StacksAre
<1>5. left \in Bindings
  BY <1>4, MapIs DEF Bindings
<1>6. DOMAIN stacks' = DOMAIN stacks \ out /\ DOMAIN prepared' = DOMAIN prepared \ out
      /\ (\A i \in DOMAIN stacks \ out : stacks'[i] = stacks[i])
      /\ \A i \in DOMAIN prepared \ out : prepared'[i] = prepared[i]
  <2> DEFINE o == out
  <2> HIDE DEF o
  <2>1. stacks' = Drop(stacks, o) /\ prepared' = Drop(prepared, o)
    BY <1>3 DEF o
  <2>2. DOMAIN stacks' = DOMAIN stacks \ o /\ DOMAIN prepared' = DOMAIN prepared \ o
        /\ (\A i \in DOMAIN stacks \ o : stacks'[i] = stacks[i])
        /\ \A i \in DOMAIN prepared \ o : prepared'[i] = prepared[i]
    BY <2>1 DEF Drop, Restrict
  <2> QED BY <2>2 DEF o
<1>7. stacks' \in StackMaps /\ prepared' \in HandlerMaps
  BY <1>1, <1>3, MapsStay DEF Typed, StackMaps, HandlerMaps
<1>8. JobNow("shutdown", job.todo, job.changed, job.created, job.started, left)
  <2>1. job \in JobState
    BY <1>1, JobIs
  <2> HIDE DEF left
  <2> QED BY <1>3, <1>5, <2>1 DEF JobNow, JobState, Pcs
<1>9. /\ DOMAIN job'.removed = out
      /\ job'.target = job.target /\ job'.changed = job.changed /\ job'.created = job.created
      /\ job'.started = job.started /\ job'.pc = "shutdown" /\ job'.kind = job.kind
      /\ job'.client = job.client /\ job' \in JobState
  BY <1>4, <1>8 DEF JobNow
<1> HIDE DEF left
<1>10. Typed'
  BY <1>1, <1>2, <1>6, <1>7, <1>9 DEF Typed
<1>11. job.changed \cup job.created = DOMAIN job.target.binds
       /\ \A i \in job.changed : stacks[i].bind = job.target.binds[i]
  BY <1>1 DEF GInv, Reloading
<1>12. Pieces'
  BY <1>1, <1>6, <1>9, <1>11 DEF GInv, Pieces
<1>13. DOMAIN stacks' = job.changed
  BY <1>6, <1>11 DEF GInv, Pieces
<1>14. Reloading'
  BY <1>1, <1>6, <1>9, <1>11, <1>13 DEF Reloading
<1>15. CommitsOwnUpdate'
  <2>1. job.changed \subseteq DOMAIN job.target.binds
    BY <1>11
  <2> QED BY <1>1, <1>6, <1>9, <2>1 DEF GInv, CommitsOwnUpdate
<1>16. Removing' /\ ConfigApplied'
  BY <1>1, <1>9, InTheMiddle DEF Removing
<1> QED BY <1>1, <1>2, <1>9, <1>10, <1>12, <1>14, <1>15, <1>16, GoesOn DEF Clauses

\* What a stack leaves behind is an address.
LEMMA AfterShutdownTyped ==
    ASSUME Typed, NEW i, NEW b \in Binds
    PROVE  AfterShutdown(i, b) \subseteq Binds
BY DEF AfterShutdown, Typed

\* An obsolete stack is shut down.
LEMMA ShutdownStackKept ==
    ASSUME GInv, NEW i \in Ids, ShutdownStack(i)
    PROVE  GInv'
<1> DEFINE rest == Drop(job.removed, {i})
<1>1. Typed /\ job.pc = "shutdown" /\ i \in DOMAIN job.removed
  BY DEF GInv, ShutdownStack
<1>2. UNCHANGED <<world, file, config, stacks, prepared, services, traffic, devices, clients, used,
                  commands, faults, intact, gone>>
  BY DEF ShutdownStack, history
<1>3. closing' \subseteq Binds
  <2>1. job.removed[i] \in Binds
    BY <1>1, JobIs
  <2> QED BY <1>1, <2>1, AfterShutdownTyped DEF ShutdownStack
<1>4. rest \in Bindings /\ DOMAIN rest \subseteq DOMAIN job.removed
  <2>1. job.removed \in UNION {[S -> Binds] : S \in SUBSET Ids}
    BY <1>1, JobIs DEF Bindings
  <2>2. rest \in UNION {[S -> Binds] : S \in SUBSET Ids}
    BY <2>1, MapsStay
  <2>3. DOMAIN rest = DOMAIN job.removed \ {i}
    BY DropIs
  <2> QED BY <2>2, <2>3 DEF Bindings
<1>5. JobNow("shutdown", job.todo, job.changed, job.created, job.started, rest)
  <2>1. job \in JobState /\ job' = [job EXCEPT !.removed = rest]
    BY <1>1, JobIs DEF ShutdownStack
  <2> HIDE DEF rest
  <2> QED BY <1>1, <1>4, <2>1 DEF JobNow, JobState
<1> HIDE DEF rest
<1>6. Typed'
  BY <1>1, <1>2, <1>3, <1>5 DEF Typed, JobNow
<1>7. Pieces'
  BY <1>1, <1>2, <1>4, <1>5 DEF GInv, Pieces, JobNow
<1>8. Reloading'
  BY <1>1, <1>2, <1>5 DEF GInv, Reloading, JobNow
<1>9. Removing'
  BY <1>1, <1>2, <1>5 DEF GInv, Removing, JobNow, StacksOf
<1>10. CommitsOwnUpdate' /\ ConfigApplied'
  BY <1>1, <1>2, <1>5, InTheMiddle DEF GInv, CommitsOwnUpdate, JobNow
<1> QED BY <1>1, <1>2, <1>5, <1>6, <1>7, <1>8, <1>9, <1>10, GoesOn DEF Clauses, JobNow

\* All obsolete stacks are down: the new ones are to start.
LEMMA ShutdownDoneKept ==
    ASSUME GInv, ShutdownDone
    PROVE  GInv'
<1>1. Typed /\ job.pc = "shutdown" /\ job.kind # "remove" /\ DOMAIN job.removed = {}
  BY DEF GInv, ShutdownDone
<1>2. UNCHANGED <<world, file, config, stacks, prepared, closing, services, traffic, devices, clients,
                  used, commands, faults, intact, gone>>
  BY DEF ShutdownDone, runtime, history
<1>3. JobNow("start", job.created, job.changed, job.created, job.started, job.removed)
  <2>1. job \in JobState
    BY <1>1, JobIs
  <2> QED BY <2>1 DEF ShutdownDone, JobNow, JobState, Pcs
<1>4. Typed'
  BY <1>1, <1>2, <1>3 DEF Typed, JobNow
<1>5. Pieces'
  BY <1>1, <1>2, <1>3 DEF GInv, Pieces, JobNow
<1>6. Reloading'
  BY <1>1, <1>2, <1>3 DEF GInv, Reloading, JobNow
<1>7. Removing' /\ CommitsOwnUpdate' /\ ConfigApplied'
  BY <1>1, <1>2, <1>3, InTheMiddle DEF GInv, Removing, CommitsOwnUpdate, JobNow
<1> QED BY <1>1, <1>2, <1>3, <1>4, <1>5, <1>6, <1>7, GoesOn DEF Clauses, JobNow

\* A new stack starts, or the new stacks are to be shut down.
LEMMA StartStackKept ==
    ASSUME GInv, NEW i \in Ids, StartStack(i)
    PROVE  GInv'
<1>1. Typed /\ job.pc = "start" /\ job.kind # "remove" /\ i \in job.todo
  BY DEF GInv, StartStack, Removing
<1>2. UNCHANGED <<world, file, config, stacks, closing, services, traffic, devices, clients, used,
                  commands, intact, gone>>
  BY DEF StartStack, history
<1>3. job \in JobState
  BY <1>1, JobIs
<1>4. CASE /\ job' = [job EXCEPT !.todo = @ \ {i}, !.started = @ \cup {i}]
           /\ UNCHANGED <<prepared, faults>>
  <2>1. JobNow("start", job.todo \ {i}, job.changed, job.created, job.started \cup {i}, job.removed)
    BY <1>1, <1>3, <1>4 DEF JobNow, JobState
  <2>2. Typed'
    BY <1>1, <1>2, <1>4, <2>1 DEF Typed, JobNow
  <2>3. Pieces'
    BY <1>1, <1>2, <2>1 DEF GInv, Pieces, JobNow
  <2>4. Reloading'
    BY <1>1, <1>2, <2>1 DEF GInv, Reloading, JobNow
  <2>5. Removing' /\ CommitsOwnUpdate' /\ ConfigApplied'
    BY <1>1, <1>2, <1>4, <2>1, InTheMiddle DEF GInv, Removing, CommitsOwnUpdate, JobNow
  <2> QED BY <1>1, <1>2, <2>1, <2>2, <2>3, <2>4, <2>5, GoesOn DEF Clauses, JobNow
<1>5. CASE /\ IF job.target.binds[i] \in Bound THEN UNCHANGED faults ELSE Fault("start")
           /\ prepared' = Drop(prepared, job.changed)
           /\ job' = [job EXCEPT !.pc = "abort", !.todo = {}]
  <2>1. JobNow("abort", {}, job.changed, job.created, job.started, job.removed)
    BY <1>3, <1>5 DEF JobNow, JobState, Pcs
  <2>2. faults' \in 0..world.faults
    BY <1>1, <1>2, <1>5, FaultTyped DEF Typed
  <2>3. prepared' \in HandlerMaps
    BY <1>1, <1>5, MapsStay DEF Typed, HandlerMaps
  <2>4. DOMAIN prepared' \subseteq DOMAIN prepared
    <3>1. DOMAIN Drop(prepared, job.changed) = DOMAIN prepared \ job.changed
      BY DropIs
    <3> QED BY <1>5, <3>1
  <2>5. Typed'
    BY <1>1, <1>2, <2>1, <2>2, <2>3, <2>4 DEF Typed, JobNow
  <2>6. Pieces'
    BY <1>1, <1>2, <2>1 DEF GInv, Pieces, JobNow
  <2>7. Reloading'
    BY <1>1, <1>2, <2>1 DEF GInv, Reloading, JobNow
  <2>8. Removing' /\ CommitsOwnUpdate' /\ ConfigApplied'
    BY <1>1, <1>2, <2>1, InTheMiddle DEF GInv, Removing, CommitsOwnUpdate, JobNow
  <2> QED BY <1>1, <1>2, <2>1, <2>5, <2>6, <2>7, <2>8, GoesOn DEF Clauses, JobNow
<1> QED BY <1>4, <1>5 DEF StartStack

\* A stack that had started is shut down again.
LEMMA AbortStackKept ==
    ASSUME GInv, NEW i \in Ids, AbortStack(i)
    PROVE  GInv'
<1>1. Typed /\ job.pc = "abort" /\ job.kind # "remove" /\ i \in job.started
  BY DEF GInv, AbortStack, Removing
<1>2. UNCHANGED <<world, file, config, stacks, prepared, services, traffic, devices, clients, used,
                  commands, faults, intact, gone>>
  BY DEF AbortStack, history
<1>3. closing' \subseteq Binds
  <2>1. i \in DOMAIN job.target.binds
    BY <1>1 DEF GInv, Pieces
  <2>2. job.target.binds[i] \in Binds
    BY <1>1, <2>1, JobIs
  <2> QED BY <1>1, <2>2, AfterShutdownTyped DEF AbortStack
<1>4. JobNow("abort", job.todo, job.changed, job.created, job.started \ {i}, job.removed)
  <2>1. job \in JobState
    BY <1>1, JobIs
  <2> QED BY <1>1, <2>1 DEF AbortStack, JobNow, JobState
<1>5. Typed'
  BY <1>1, <1>2, <1>3, <1>4 DEF Typed, JobNow
<1>6. Pieces'
  BY <1>1, <1>2, <1>4 DEF GInv, Pieces, JobNow
<1>7. Reloading'
  BY <1>1, <1>2, <1>4 DEF GInv, Reloading, JobNow
<1>8. Removing' /\ CommitsOwnUpdate' /\ ConfigApplied'
  BY <1>1, <1>2, <1>4, InTheMiddle DEF GInv, Removing, CommitsOwnUpdate, JobNow
<1> QED BY <1>1, <1>2, <1>4, <1>5, <1>6, <1>7, <1>8, GoesOn DEF Clauses, JobNow

(***************************************************************************)
(* reload_inner commits, or goes back                                      *)
(***************************************************************************)
\* A failure past the preparation: the old configuration is reloaded under the
\* same lock, or this was that reload already.
LEMMA RollBackKept ==
    ASSUME GInv, job.pc \in {"abort", "traffic"}, RollBack, faults' \in 0..world.faults,
           UNCHANGED <<world, file, config, stacks, prepared, closing, services, traffic, devices, used,
                       commands>>
    PROVE  GInv'
<1>1. Typed /\ job.kind # "remove"
  BY DEF GInv, Removing
<1>2. CASE job.mode = "forward"
  <2>1. job' = Nested /\ UNCHANGED <<clients, intact, gone>>
    BY <1>2 DEF RollBack, history
  <2>2. /\ job' \in JobState /\ job'.pc = "build" /\ job'.client = job.client /\ job'.kind = job.kind
        /\ job'.mode = "rollback" /\ job'.changed = {} /\ job'.created = {} /\ job'.started = {}
        /\ job'.removed = NoUpdates
    <3>1. job' = [pc |-> "build", client |-> job.client, kind |-> job.kind, mode |-> "rollback",
                  target |-> job.old, old |-> job.old, todo |-> {}, changed |-> {}, created |-> {},
                  started |-> {}, removed |-> NoUpdates]
      BY <2>1 DEF Nested, NoJob
    <3>2. job.client \in Clients /\ job.kind \in Kinds /\ job.old \in Configs /\ NoUpdates \in Bindings
      BY <1>1, JobIs, Placeholders
    <3> QED BY <3>1, <3>2 DEF JobState, Pcs
  <2>3. Typed'
    BY <1>1, <2>1, <2>2 DEF Typed
  <2>4. Pieces'
    BY <2>2, Placeholders DEF Pieces
  <2>5. Reloading' /\ Removing' /\ CommitsOwnUpdate' /\ ConfigApplied'
    BY <1>1, <2>2 DEF Reloading, Removing, CommitsOwnUpdate, ConfigApplied, Untouched
  <2> QED BY <1>1, <2>1, <2>2, <2>3, <2>4, <2>5, GoesOn DEF Clauses
<1>3. CASE job.mode = "rollback"
  <2>1. Refuse
    BY <1>3 DEF RollBack
  <2>2. Typed'
    BY <1>1, <2>1, RefuseTyped DEF Typed
  <2> QED BY <1>3, <2>1, <2>2, RefuseKept
<1> QED BY <1>1, <1>2, <1>3, JobIs

\* The new stacks are shut down again.
LEMMA AbortDoneKept ==
    ASSUME GInv, AbortDone
    PROVE  GInv'
<1>1. job.pc = "abort" /\ RollBack
      /\ UNCHANGED <<world, file, config, stacks, prepared, closing, services, traffic, devices, used,
                     commands, faults>>
  BY DEF AbortDone, runtime
<1>2. faults' \in 0..world.faults
  BY <1>1 DEF GInv, Typed
<1> QED BY <1>1, <1>2, RollBackKept

\* All new stacks have started.
LEMMA StartDoneKept ==
    ASSUME GInv, StartDone
    PROVE  GInv'
<1>1. Typed /\ job.pc = "start" /\ job.kind # "remove"
  BY DEF GInv, StartDone, Removing
<1>2. UNCHANGED <<world, file, config, stacks, prepared, closing, services, traffic, devices, clients,
                  used, commands, faults, intact, gone>>
  BY DEF StartDone, runtime, history
<1>3. JobNow("commit", job.todo, job.changed, job.created, job.started, job.removed)
  <2>1. job \in JobState
    BY <1>1, JobIs
  <2> QED BY <2>1 DEF StartDone, JobNow, JobState, Pcs
<1>4. Typed'
  BY <1>1, <1>2, <1>3 DEF Typed, JobNow
<1>5. Pieces'
  BY <1>1, <1>2, <1>3 DEF GInv, Pieces, JobNow
<1>6. Reloading'
  BY <1>1, <1>2, <1>3 DEF GInv, Reloading, JobNow
<1>7. Removing' /\ CommitsOwnUpdate' /\ ConfigApplied'
  BY <1>1, <1>2, <1>3, InTheMiddle DEF GInv, Removing, CommitsOwnUpdate, JobNow
<1> QED BY <1>1, <1>2, <1>3, <1>4, <1>5, <1>6, <1>7, GoesOn DEF Clauses, JobNow

\* A changed stack swaps its handler: it is the one this reload prepared.
LEMMA CommitStackKept ==
    ASSUME GInv, NEW i \in Ids, CommitStack(i)
    PROVE  GInv'
<1>1. Typed /\ job.pc = "commit" /\ job.kind # "remove" /\ i \in job.changed /\ i \in DOMAIN stacks
  BY DEF GInv, CommitStack, Removing, Pieces
<1>2. UNCHANGED <<world, file, config, closing, services, traffic, devices, clients, used, commands,
                  faults, intact, gone>>
  BY DEF CommitStack, history
<1>3. prepared[i] = job.target.rules /\ job.target.rules \in RuleSets
  BY <1>1, JobIs DEF GInv, CommitsOwnUpdate
<1>4. /\ DOMAIN stacks' = DOMAIN stacks /\ stacks' \in StackMaps
      /\ \A j \in DOMAIN stacks :
           /\ stacks'[j].bind = stacks[j].bind
           /\ stacks'[j].rules = IF j = i THEN job.target.rules ELSE stacks[j].rules
  <2> DEFINE s == [stacks[i] EXCEPT !.rules = job.target.rules]
  <2>1. stacks' = [stacks EXCEPT ![i] = s]
    BY <1>3 DEF CommitStack
  <2>2. stacks[i] \in Stack
    BY <1>1, StacksAre
  <2>3. s \in Stack /\ s.bind = stacks[i].bind /\ s.rules = job.target.rules
    BY <1>3, <2>2 DEF Stack
  <2> HIDE DEF s
  <2>4. stacks \in [DOMAIN stacks -> Stack] /\ DOMAIN stacks \subseteq Ids
    BY <1>1, StacksAre
  <2>5. stacks' \in [DOMAIN stacks' -> Stack] /\ DOMAIN stacks' = DOMAIN stacks
    BY <2>1, <2>3, <2>4
  <2>6. stacks' \in StackMaps
    BY <2>4, <2>5, MapIs DEF StackMaps
  <2> QED BY <1>1, <2>1, <2>3, <2>4, <2>5, <2>6
<1>5. /\ DOMAIN prepared' = DOMAIN prepared \ {i}
      /\ \A j \in DOMAIN prepared \ {i} : prepared'[j] = prepared[j]
  BY DEF CommitStack, Drop, Restrict
<1>6. prepared' \in HandlerMaps
  BY <1>1, MapsStay DEF CommitStack, Typed, HandlerMaps
<1>7. JobNow("commit", job.todo, job.changed \ {i}, job.created, job.started, job.removed)
  <2>1. job \in JobState
    BY <1>1, JobIs
  <2> QED BY <1>1, <2>1 DEF CommitStack, JobNow, JobState
<1>8. Typed'
  BY <1>1, <1>2, <1>4, <1>5, <1>6, <1>7 DEF Typed, JobNow
<1>9. Pieces'
  BY <1>1, <1>4, <1>7 DEF GInv, Pieces, JobNow
<1>10. Reloading'
  BY <1>1, <1>4, <1>7 DEF GInv, Reloading, JobNow
<1>11. Removing' /\ CommitsOwnUpdate' /\ ConfigApplied'
  BY <1>1, <1>5, <1>7, InTheMiddle DEF GInv, Removing, CommitsOwnUpdate, JobNow
<1> QED BY <1>1, <1>2, <1>7, <1>8, <1>9, <1>10, <1>11, GoesOn DEF Clauses, JobNow

\* The new stacks enter the manager and the services are replaced.
LEMMA InstallKept ==
    ASSUME GInv, Install
    PROVE  GInv'
<1> DEFINE t == job.target
<1>1. Typed /\ job.pc = "commit" /\ job.kind # "remove" /\ job.changed = {}
  BY DEF GInv, Install, Removing
<1>2. UNCHANGED <<world, file, config, prepared, closing, traffic, devices, clients, used, commands,
                  faults, intact, gone>> /\ services' = t.rules
  BY DEF Install, history
<1>3. stacks' = StacksOf(t)
  <2>1. stacks' = [i \in DOMAIN stacks \cup job.created |->
                    IF i \in job.created THEN [bind |-> t.binds[i], rules |-> t.rules] ELSE stacks[i]]
    BY DEF Install
  <2>2. DOMAIN stacks \cup job.created = DOMAIN t.binds
    BY <1>1 DEF GInv, Reloading
  <2>3. ASSUME NEW i \in DOMAIN stacks PROVE stacks[i] = [bind |-> t.binds[i], rules |-> t.rules]
    <3>1. stacks[i].bind = t.binds[i] /\ stacks[i].rules = t.rules
      BY <1>1 DEF GInv, Reloading
    <3>2. stacks[i] \in [bind : Binds, rules : RuleSets]
      BY <1>1, StacksAre DEF Stack
    <3> QED BY <3>1, <3>2
  <2> HIDE DEF t
  <2> QED BY <2>1, <2>2, <2>3 DEF StacksOf
<1>4. DOMAIN t.binds \subseteq Ids /\ t.rules \in RuleSets /\ t.binds \in [DOMAIN t.binds -> Binds]
  BY <1>1, JobIs
<1>5. DOMAIN stacks' = DOMAIN t.binds /\ stacks' \in StackMaps
  <2> HIDE DEF t
  <2>1. DOMAIN stacks' = DOMAIN t.binds
    BY <1>3 DEF StacksOf
  <2>2. stacks' \in [DOMAIN stacks' -> Stack]
    BY <1>3, <1>4 DEF StacksOf, Stack
  <2> QED BY <1>4, <2>1, <2>2, MapIs DEF StackMaps
<1>6. DOMAIN stacks \subseteq DOMAIN t.binds
  BY <1>1 DEF GInv, Reloading
<1>7. JobNow("traffic", job.todo, job.changed, {}, {}, job.removed)
  <2>1. job \in JobState
    BY <1>1, JobIs
  <2> QED BY <2>1 DEF Install, JobNow, JobState, Pcs
<1>8. job'.target = t /\ job'.pc = "traffic" /\ job'.kind = job.kind
  BY <1>7 DEF JobNow
<1>9. Typed'
  BY <1>1, <1>2, <1>4, <1>5, <1>6, <1>7 DEF Typed, JobNow
<1>10. Pieces'
  <2>1. DOMAIN job'.removed = {} /\ job'.changed = {} /\ job'.created = {} /\ job'.started = {}
    BY <1>1, <1>7 DEF GInv, Pieces, JobNow
  <2> QED BY <1>8, <2>1 DEF Pieces
<1> HIDE DEF t
<1>11. Reloading'
  BY <1>2, <1>3, <1>8 DEF Reloading, StacksOf
<1>12. Removing' /\ CommitsOwnUpdate' /\ ConfigApplied'
  BY <1>1, <1>8, InTheMiddle DEF GInv, Removing, CommitsOwnUpdate
<1> QED BY <1>1, <1>2, <1>7, <1>9, <1>10, <1>11, <1>12, GoesOn DEF Clauses, JobNow

\* The traffic service restarts, or the reload goes back.
LEMMA RestartTrafficKept ==
    ASSUME GInv, RestartTraffic
    PROVE  GInv'
<1>1. Typed /\ job.pc = "traffic" /\ job.kind # "remove"
  BY DEF GInv, RestartTraffic, Removing
<1>2. UNCHANGED <<world, file, config, stacks, prepared, closing, services, devices, used, commands>>
  BY DEF RestartTraffic
<1>3. CASE /\ traffic' = job.target.rules
           /\ job' = [job EXCEPT !.pc = "finish"]
           /\ UNCHANGED <<clients, faults, history>>
  <2>0. UNCHANGED <<clients, faults, intact, gone>>
    BY <1>3 DEF history
  <2>1. JobNow("finish", job.todo, job.changed, job.created, job.started, job.removed)
    <3>1. job \in JobState
      BY <1>1, JobIs
    <3> QED BY <1>3, <3>1 DEF JobNow, JobState, Pcs
  <2>2. traffic' \in RuleSets
    BY <1>1, <1>3, JobIs
  <2>3. Typed'
    BY <1>1, <1>2, <2>0, <2>1, <2>2 DEF Typed, JobNow
  <2>4. Pieces'
    BY <1>1, <1>2, <2>1 DEF GInv, Pieces, JobNow
  <2>5. Reloading'
    BY <1>1, <1>2, <1>3, <2>1 DEF GInv, Reloading, JobNow, StacksOf
  <2>6. Removing' /\ CommitsOwnUpdate' /\ ConfigApplied'
    BY <1>1, <2>1, InTheMiddle DEF GInv, Removing, CommitsOwnUpdate, JobNow
  <2> QED BY <1>1, <1>2, <2>0, <2>1, <2>3, <2>4, <2>5, <2>6, GoesOn DEF Clauses, JobNow
<1>4. CASE Fault("traffic") /\ RollBack /\ UNCHANGED traffic
  <2>1. faults' \in 0..world.faults
    BY <1>1, <1>4, FaultTyped
  <2> QED BY <1>1, <1>2, <1>4, <2>1, RollBackKept
<1> QED BY <1>3, <1>4 DEF RestartTraffic

(***************************************************************************)
(* The theorems                                                            *)
(***************************************************************************)
\* A gateway that has just started.
LEMMA InitGInv ==
    ASSUME Init
    PROVE  GInv
<1>1. world \in Worlds /\ file \in world.files /\ config = file /\ file \in Configs
  BY Constants DEF Init
<1>2. /\ job = NoJob /\ clients = [c \in Clients |-> Idle] /\ closing = {} /\ prepared = NoUpdates
      /\ used = {} /\ gone = {} /\ intact = TRUE /\ commands = 0 /\ faults = 0
  BY DEF Init
<1>3. stacks = StacksOf(file) /\ services = file.rules /\ traffic = file.rules /\ devices = file.dm
  BY DEF Init, StacksOf
<1>4. file.binds \in Bindings /\ file.rules \in RuleSets /\ file.dm \in BOOLEAN
  BY <1>1 DEF Configs
<1>5. DOMAIN file.binds \subseteq Ids /\ file.binds \in [DOMAIN file.binds -> Binds]
  BY <1>4, MapIs DEF Bindings
<1>6. DOMAIN stacks \subseteq Ids /\ stacks \in [DOMAIN stacks -> Stack]
  BY <1>3, <1>4, <1>5 DEF StacksOf, Stack
<1>7. stacks \in StackMaps
  BY <1>6, MapIs DEF StackMaps
<1>8. DOMAIN prepared = {} /\ prepared \in [DOMAIN prepared -> RuleSets]
  BY <1>2 DEF NoUpdates
<1>9. prepared \in HandlerMaps
  BY <1>8, MapIs DEF HandlerMaps
<1>10. world.commands \in Nat /\ world.faults \in Nat
  BY <1>1, Constants
<1>11. Typed
  BY <1>1, <1>2, <1>3, <1>4, <1>7, <1>8, <1>9, <1>10, Placeholders DEF Typed
<1>12. Holder /\ Pieces
  BY <1>2, Placeholders DEF Holder, Pieces
<1>13. Reloading /\ Removing /\ CommitsOwnUpdate
  BY <1>2, Placeholders DEF Reloading, Removing, CommitsOwnUpdate
<1>14. ConfigApplied /\ DevicesFollowConfig
  BY <1>1, <1>3 DEF ConfigApplied, Applied, StacksOf, DevicesFollowConfig
<1> QED BY <1>11, <1>12, <1>13, <1>14 DEF GInv

\* A step that changes nothing.
LEMMA StutterKept ==
    ASSUME GInv, UNCHANGED vars
    PROVE  GInv'
<1>1. UNCHANGED <<config, stacks, prepared, services, traffic, devices, job, intact, clients>>
  BY DEF vars
<1>2. Typed'
  BY DEF GInv, Typed, vars
<1> QED BY <1>1, <1>2, BesideKept

\* apply_keep_tunnels goes on: nothing else changes.
LEMMA TunnelStepKept ==
    ASSUME GInv, TunnelStep
    PROVE  GInv'
<1>1. UNCHANGED <<config, stacks, prepared, services, traffic, devices, job, intact, clients>>
  BY DEF TunnelStep, history
<1>2. Typed'
  BY DEF GInv, Typed, TunnelStep, history
<1> QED BY <1>1, <1>2, BesideKept

\* Every step of the gateway keeps the invariant.
LEMMA NextGInv ==
    ASSUME GInv, [Next]_vars
    PROVE  GInv'
<1>0. world.clients \subseteq Clients
  BY Constants DEF GInv, Typed
<1>1. ASSUME NEW c \in world.clients, Command(c) \/ TakeLock(c) \/ Cancel(c) PROVE GInv'
  BY <1>0, <1>1, CommandKept, AcquireKept, RemoveDispatchKept, CancelKept DEF TakeLock
<1>2. CASE JobStep
  <2>1. ASSUME NEW i \in Ids,
               \/ PrepareStack(i) \/ CreateStack(i) \/ ShutdownStack(i)
               \/ StartStack(i) \/ AbortStack(i) \/ CommitStack(i)
        PROVE  GInv'
    BY <2>1, PrepareStackKept, CreateStackKept, ShutdownStackKept, StartStackKept, AbortStackKept,
       CommitStackKept
  <2>2. ASSUME SwapTunnels \/ TunnelsDone \/ \E t \in Tunnels : StopTunnel(t) \/ StartTunnel(t)
        PROVE  GInv'
    BY <2>2, TunnelStepKept DEF SwapTunnels, TunnelsDone, StopTunnel, StartTunnel
  <2> QED BY <1>2, <2>1, <2>2, BuildKept, RetainKept, ShutdownDoneKept, AbortDoneKept, StartDoneKept,
             InstallKept, RestartTrafficKept, FinishKept, RemoveDoneKept DEF JobStep
<1>3. CASE UNCHANGED vars
  BY <1>3, StutterKept
<1> QED BY <1>1, <1>2, <1>3, OutsideKept DEF Next

\* The inductive invariant of the gateway: who holds the lock, which pieces a
\* reload holds, how far it has come, and what is applied when it is over.
THEOREM ReloadInvariance == Spec => []GInv
<1>1. Init => GInv
  BY InitGInv
<1>2. GInv /\ [Next]_vars => GInv'
  BY NextGInv
<1> QED BY <1>1, <1>2, PTL DEF Spec

(***************************************************************************)
(* Kept tunnels                                                            *)
(***************************************************************************)
\* The stack i with its kept tunnels k under the given rules, outside a swap or
\* in one of its steps, with todo left to do.
Whole(i, k, rules, step, todo) ==
    /\ k.lost \subseteq k.list
    /\ k.torn => i \in world.awaiting
    /\ step = "none" =>
         /\ k.torn \/ k.list = KeepOf(i, rules)
         /\ k.tasks = k.list \ k.lost
    /\ step = "stop" =>
         /\ ~k.torn /\ todo \subseteq k.list \ KeepOf(i, rules)
         /\ k.tasks = (k.list \ k.lost) \cap (KeepOf(i, rules) \cup todo)
    /\ step = "start" =>
         /\ ~k.torn /\ k.list = KeepOf(i, rules) /\ todo \subseteq k.list \ k.lost
         /\ k.tasks = (k.list \ k.lost) \ todo

\* The step of the swap that the stack i is in.
Doing(i) == IF swap.at = i THEN swap.step ELSE "none"

KeptWhole == \A i \in DOMAIN stacks : Whole(i, kept[i], stacks[i].rules, Doing(i), swap.todo)

KeptTyped == kept \in [DOMAIN stacks -> KeptState] /\ swap \in SwapState

\* A swap belongs to a stack that has just swapped its handler.
SwapPlace ==
    swap.step # "none" => /\ job.pc = "commit" /\ job.kind # "remove"
                          /\ swap.at \in DOMAIN stacks /\ swap.at \in world.awaiting

\* The stacks whose last commit was cut off.
Torn == {i \in DOMAIN stacks : kept[i].torn}

\* Every reload that succeeds has committed them again.
Mended ==
    /\ job.kind # "remove" /\ job.pc \in {"shutdown", "start", "commit"} => Torn \subseteq job.changed
    /\ job.pc \in {"traffic", "finish"} => Torn = {}
    /\ intact /\ (job.pc = "none" \/ Untouched \/ job.kind = "remove") => Torn = {}

TInv == KeptTyped /\ KeptWhole /\ SwapPlace /\ Mended

\* What a stack keeps up is a set of tunnels.
LEMMA KeepTyped == \A i, r : KeepOf(i, r) \subseteq Tunnels
BY DEF KeepOf

\* A stack that has started keeps its whole list up.
LEMMA StartedWhole ==
    ASSUME NEW i, NEW r
    PROVE  /\ Started(i, r) \in KeptState /\ ~Started(i, r).torn
           /\ \A x : Whole(i, Started(i, r), r, "none", x)
<1>1. Started(i, r) \in KeptState
  BY KeepTyped DEF Started, KeptState
<1>2. /\ Started(i, r).list = KeepOf(i, r) /\ Started(i, r).tasks = KeepOf(i, r)
      /\ Started(i, r).lost = {} /\ Started(i, r).torn = FALSE
  BY DEF Started
<1> QED BY <1>1, <1>2 DEF Whole

\* A commit begins: no tunnel has been stopped.
LEMMA CommitWhole ==
    ASSUME NEW i, NEW k \in KeptState, NEW h \in KeptState, NEW r, NEW q, NEW x,
           Whole(i, k, r, "none", x),
           h.list = k.list, h.tasks = k.tasks, h.lost = k.lost, h.torn = FALSE
    PROVE  /\ i \in world.awaiting => Whole(i, h, q, "stop", k.list \ KeepOf(i, q))
           /\ i \notin world.awaiting => \A y : Whole(i, h, q, "none", y)
<1>1. k.lost \subseteq k.list /\ k.tasks = k.list \ k.lost
  BY DEF Whole
<1>2. CASE i \in world.awaiting
  BY <1>1, <1>2 DEF Whole
<1>3. CASE i \notin world.awaiting
  <2>1. k.list = {} /\ KeepOf(i, q) = {}
    BY <1>3 DEF Whole, KeepOf
  <2> QED BY <1>1, <1>3, <2>1 DEF Whole
<1> QED BY <1>2, <1>3

\* A tunnel is stopped.
LEMMA StopWhole ==
    ASSUME NEW i, NEW k \in KeptState, NEW h \in KeptState, NEW r, NEW x, NEW t \in x,
           Whole(i, k, r, "stop", x),
           h.list = k.list, h.tasks = k.tasks \ {t}, h.lost = k.lost, h.torn = k.torn
    PROVE  Whole(i, h, r, "stop", x \ {t})
<1>1. /\ k.lost \subseteq k.list /\ ~k.torn /\ x \subseteq k.list \ KeepOf(i, r)
      /\ k.tasks = (k.list \ k.lost) \cap (KeepOf(i, r) \cup x)
  BY DEF Whole
<1>2. h.tasks = (h.list \ h.lost) \cap (KeepOf(i, r) \cup (x \ {t}))
  BY <1>1
<1> QED BY <1>1, <1>2 DEF Whole

\* The list is swapped.
LEMMA SwapWhole ==
    ASSUME NEW i, NEW k \in KeptState, NEW h \in KeptState, NEW r,
           Whole(i, k, r, "stop", {}),
           h.list = KeepOf(i, r), h.tasks = k.tasks, h.lost = k.lost \cap KeepOf(i, r),
           h.torn = k.torn
    PROVE  Whole(i, h, r, "start", KeepOf(i, r) \ k.list)
<1>1. /\ k.lost \subseteq k.list /\ ~k.torn
      /\ k.tasks = (k.list \ k.lost) \cap KeepOf(i, r)
  BY DEF Whole
<1>2. h.tasks = (h.list \ h.lost) \ (KeepOf(i, r) \ k.list)
  BY <1>1
<1>3. KeepOf(i, r) \ k.list \subseteq h.list \ h.lost
  BY <1>1
<1> QED BY <1>1, <1>2, <1>3 DEF Whole

\* A tunnel is started.
LEMMA StartWhole ==
    ASSUME NEW i, NEW k \in KeptState, NEW h \in KeptState, NEW r, NEW x, NEW t \in x,
           Whole(i, k, r, "start", x),
           h.list = k.list, h.tasks = k.tasks \cup {t}, h.lost = k.lost, h.torn = k.torn
    PROVE  Whole(i, h, r, "start", x \ {t})
<1>1. /\ k.lost \subseteq k.list /\ ~k.torn /\ k.list = KeepOf(i, r)
      /\ x \subseteq k.list \ k.lost /\ k.tasks = (k.list \ k.lost) \ x
  BY DEF Whole
<1>2. h.tasks = (h.list \ h.lost) \ (x \ {t})
  BY <1>1
<1> QED BY <1>1, <1>2 DEF Whole

\* The swap is over.
LEMMA DoneWhole ==
    ASSUME NEW i, NEW k, NEW r, Whole(i, k, r, "start", {})
    PROVE  \A x : Whole(i, k, r, "none", x)
BY DEF Whole

\* The swap is cut off.
LEMMA CutWhole ==
    ASSUME NEW i \in world.awaiting, NEW k \in KeptState, NEW h \in KeptState, NEW r,
           NEW s \in {"stop", "start"}, NEW x,
           Whole(i, k, r, s, x),
           h.list = k.list, h.tasks = k.tasks, h.torn = TRUE,
           h.lost = k.lost \cup IF s = "stop" THEN k.list \ (KeepOf(i, r) \cup x) ELSE x
    PROVE  \A y : Whole(i, h, r, "none", y)
<1>1. k.lost \subseteq k.list
  BY DEF Whole
<1>2. CASE s = "stop"
  <2>1. k.tasks = (k.list \ k.lost) \cap (KeepOf(i, r) \cup x)
    BY <1>2 DEF Whole
  <2>2. h.lost = k.lost \cup (k.list \ (KeepOf(i, r) \cup x))
    BY <1>2
  <2>3. h.lost \subseteq h.list /\ h.tasks = h.list \ h.lost
    BY <1>1, <2>1, <2>2
  <2> QED BY <2>3 DEF Whole
<1>3. CASE s = "start"
  <2>1. x \subseteq k.list \ k.lost /\ k.tasks = (k.list \ k.lost) \ x
    BY <1>3 DEF Whole
  <2>2. h.lost = k.lost \cup x
    BY <1>3
  <2>3. h.lost \subseteq h.list /\ h.tasks = h.list \ h.lost
    BY <1>1, <2>1, <2>2
  <2> QED BY <2>3 DEF Whole
<1> QED BY <1>2, <1>3

\* The parts of the invariant at a step that leaves the kept tunnels alone.
LEMMA KeptStays ==
    ASSUME TInv, UNCHANGED <<world, stacks, kept, swap>>, SwapPlace', Mended'
    PROVE  TInv'
<1>1. KeptTyped' /\ KeptWhole'
  BY DEF TInv, KeptTyped, KeptWhole, Whole, Doing, KeepOf
<1> QED BY <1>1 DEF TInv

\* A job step outside of the commit.
LEMMA KeptAside ==
    ASSUME TInv, job.pc # "commit", UNCHANGED <<world, stacks, kept, swap>>, Mended'
    PROVE  TInv'
<1>1. SwapPlace'
  BY DEF TInv, SwapPlace
<1> QED BY <1>1, KeptStays

\* No kept tunnel changes and neither does the job: commands that ask for the
\* lock, the operator and the runtime.
LEMMA KeptBeside ==
    ASSUME TInv, UNCHANGED <<world, stacks, kept, swap, job, intact>>
    PROVE  TInv'
<1>1. SwapPlace'
  BY DEF TInv, SwapPlace
<1>2. Mended'
  BY DEF TInv, Mended, Torn, Untouched
<1> QED BY <1>1, <1>2, KeptStays

\* Stacks leave the manager with their kept tunnels.
LEMMA KeptDropped ==
    ASSUME TInv, NEW out, job.pc # "commit", stacks' = Drop(stacks, out), kept' = Drop(kept, out),
           UNCHANGED <<world, swap>>
    PROVE  /\ KeptTyped' /\ KeptWhole' /\ SwapPlace'
           /\ Torn' = Torn \ out
<1>1. swap.step = "none" /\ kept \in [DOMAIN stacks -> KeptState] /\ swap \in SwapState
  BY DEF TInv, SwapPlace, KeptTyped
<1>2. /\ DOMAIN stacks' = DOMAIN stacks \ out /\ DOMAIN kept' = DOMAIN stacks'
      /\ \A i \in DOMAIN stacks' : stacks'[i] = stacks[i] /\ kept'[i] = kept[i]
  BY <1>1 DEF Drop, Restrict
<1>3. kept' \in [DOMAIN stacks' -> KeptState]
  <2>1. kept' = [i \in DOMAIN kept \ out |-> kept[i]]
    BY DropIs
  <2> QED BY <1>1, <1>2, <2>1
<1>4. KeptWhole'
  <2> SUFFICES ASSUME NEW j \in DOMAIN stacks'
               PROVE  Whole(j, kept[j], stacks[j].rules, Doing(j), swap.todo)'
    BY DEF KeptWhole
  <2>1. j \in DOMAIN stacks /\ stacks'[j] = stacks[j] /\ kept'[j] = kept[j] /\ Doing(j)' = Doing(j)
    BY <1>2 DEF Doing
  <2>2. Whole(j, kept[j], stacks[j].rules, Doing(j), swap.todo)
    BY <2>1 DEF TInv, KeptWhole
  <2> QED BY <2>1, <2>2 DEF Whole, KeepOf
<1>5. Torn' = Torn \ out
  BY <1>2 DEF Torn
<1> QED BY <1>1, <1>3, <1>4, <1>5 DEF KeptTyped, SwapPlace

\* A refusal before anything was changed, or of the rollback.
LEMMA RefuseMended ==
    ASSUME TInv, Refuse, Untouched \/ job.mode = "rollback", UNCHANGED <<stacks, kept>>
    PROVE  Mended'
<1>1. job'.pc = "none" /\ job'.kind = "reload" /\ Torn' = Torn
  BY Placeholders DEF Refuse, End, Torn
<1>2. intact' => Torn = {}
  <2>1. CASE job.mode = "rollback"
    <3>1. intact' = IntactAfter("rollback_failed")
      BY <2>1 DEF Refuse
    <3> QED BY <3>1 DEF IntactAfter
  <2>2. CASE Untouched
    <3>1. intact' = IntactAfter("refused")
      BY <2>2 DEF Refuse, Untouched
    <3> QED BY <2>2, <3>1 DEF IntactAfter, TInv, Mended
  <2> QED BY <2>1, <2>2
<1> QED BY <1>1, <1>2 DEF Mended

\* The way back begins, or has failed.
LEMMA RollBackMended ==
    ASSUME GInv, TInv, job.pc \in {"abort", "traffic"}, RollBack, UNCHANGED <<stacks, kept>>
    PROVE  Mended'
<1>1. CASE job.mode = "forward"
  <2>1. job'.pc = "build" /\ job'.mode = "rollback" /\ job'.kind = job.kind
    BY <1>1 DEF RollBack, Nested, NoJob
  <2>2. job.kind # "remove"
    BY DEF GInv, Removing
  <2> QED BY <2>1, <2>2 DEF Mended, Untouched
<1>2. CASE job.mode = "rollback"
  BY <1>2, RefuseMended DEF RollBack
<1> QED BY <1>1, <1>2, JobIs DEF GInv

\* The steps of reload_inner before the stacks change, which a refusal may end.
LEMMA PreparingTunnels ==
    ASSUME GInv, TInv, Build \/ \E i \in Ids : PrepareStack(i) \/ CreateStack(i)
    PROVE  TInv'
<1>1. /\ job.pc \in {"build", "stacks"} /\ job.kind # "remove" /\ job \in JobState
      /\ UNCHANGED <<world, stacks, kept, swap>>
  BY JobIs DEF GInv, Removing, Build, PrepareStack, CreateStack, runtime, tunnels
<1>2. Torn' = Torn
  BY <1>1 DEF Torn
<1>3. \/ Refuse
      \/ job'.pc = "stacks" /\ job'.kind = job.kind /\ job'.mode = job.mode /\ intact' = intact
  BY <1>1 DEF Build, PrepareStack, CreateStack, history, JobState
<1>4. CASE Refuse
  <2>1. Untouched \/ job.mode = "rollback"
    BY <1>1, JobIs DEF GInv, Untouched
  <2> QED BY <1>1, <1>4, <2>1, RefuseMended, KeptAside
<1>5. CASE job'.pc = "stacks" /\ job'.kind = job.kind /\ job'.mode = job.mode /\ intact' = intact
  <2>1. Mended'
    BY <1>1, <1>2, <1>5 DEF TInv, Mended, Untouched
  <2> QED BY <1>1, <2>1, KeptAside
<1> QED BY <1>3, <1>4, <1>5

\* The steps between the old stacks and the commit.
LEMMA StartingTunnels ==
    ASSUME GInv, TInv,
           \/ ShutdownDone \/ StartDone
           \/ \E i \in Ids : ShutdownStack(i) \/ StartStack(i) \/ AbortStack(i)
    PROVE  TInv'
<1>1. /\ job.pc \in {"shutdown", "start", "abort"} /\ job \in JobState
      /\ UNCHANGED <<world, stacks, kept, swap, intact>>
  BY JobIs DEF GInv, ShutdownDone, StartDone, ShutdownStack, StartStack, AbortStack, runtime,
     tunnels, history
<1>2. Torn' = Torn
  BY <1>1 DEF Torn
<1>3. /\ job'.kind = job.kind /\ job'.changed = job.changed
      /\ job'.pc \in {"shutdown", "start", "abort", "commit"}
      /\ job'.pc # "abort" => job.pc # "abort"
  BY <1>1 DEF ShutdownDone, StartDone, ShutdownStack, StartStack, AbortStack, JobState
<1>4. Mended'
  BY <1>1, <1>2, <1>3 DEF TInv, Mended, Untouched
<1> QED BY <1>1, <1>4, KeptAside

\* The last steps of a command.
LEMMA EndingTunnels ==
    ASSUME GInv, TInv, AbortDone \/ RestartTraffic \/ Finish \/ RemoveDone
    PROVE  TInv'
<1>1. job.pc # "commit" /\ UNCHANGED <<world, stacks, kept, swap>> /\ job \in JobState
  BY JobIs DEF GInv, AbortDone, RestartTraffic, Finish, RemoveDone, runtime, tunnels
<1>2. Torn' = Torn
  BY <1>1 DEF Torn
<1>3. CASE AbortDone
  <2>1. Mended'
    BY <1>1, <1>3, RollBackMended DEF AbortDone
  <2> QED BY <1>1, <2>1, KeptAside
<1>4. CASE RestartTraffic
  <2>1. CASE RollBack
    <3>1. Mended'
      BY <1>1, <1>4, <2>1, RollBackMended DEF RestartTraffic
    <3> QED BY <1>1, <3>1, KeptAside
  <2>2. CASE job' = [job EXCEPT !.pc = "finish"] /\ intact' = intact
    <3>1. job'.pc = "finish" /\ job'.kind = job.kind /\ job.pc = "traffic"
      BY <1>1, <1>4, <2>2 DEF JobState, RestartTraffic
    <3>2. Mended'
      BY <1>2, <3>1 DEF TInv, Mended
    <3> QED BY <1>1, <3>2, KeptAside
  <2> QED BY <1>4, <2>1, <2>2 DEF RestartTraffic, history
<1>5. CASE Finish
  <2>1. Torn = {} /\ job'.pc = "none" /\ job'.kind = "reload"
    BY <1>5, Placeholders DEF Finish, End, TInv, Mended
  <2>2. Mended'
    BY <1>2, <2>1 DEF Mended
  <2> QED BY <1>1, <2>2, KeptAside
<1>6. CASE RemoveDone
  <2>1. (intact => Torn = {}) /\ intact' = intact /\ job'.pc = "none" /\ job'.kind = "reload"
    BY <1>6, Placeholders DEF RemoveDone, End, TInv, Mended
  <2>2. Mended'
    BY <1>2, <2>1 DEF Mended
  <2> QED BY <1>1, <2>2, KeptAside
<1> QED BY <1>3, <1>4, <1>5, <1>6

\* Obsolete stacks leave the manager: what is left will be committed.
LEMMA RetainTunnels ==
    ASSUME GInv, TInv, Retain
    PROVE  TInv'
<1> DEFINE out == DOMAIN stacks \ DOMAIN job.target.binds
<1>1. /\ job.pc = "stacks" /\ job.todo = {} /\ job.kind # "remove" /\ job \in JobState
      /\ stacks' = Drop(stacks, out) /\ kept' = Drop(kept, out) /\ UNCHANGED <<world, swap, intact>>
  BY JobIs DEF GInv, Removing, Retain, history
<1>2. job'.pc = "shutdown" /\ job'.kind = job.kind /\ job'.changed = job.changed
  BY <1>1 DEF Retain, JobState
<1>3. DOMAIN stacks \ out \subseteq job.changed
  <2>1. job.changed \cup job.created = DOMAIN job.target.binds
    BY <1>1 DEF GInv, Reloading
  <2> QED BY <2>1 DEF GInv, Pieces
<1>4. KeptTyped' /\ KeptWhole' /\ SwapPlace' /\ Torn' = Torn \ out
  <2> HIDE DEF out
  <2> QED BY <1>1, KeptDropped
<1>5. Torn' \subseteq job'.changed
  BY <1>2, <1>3, <1>4 DEF Torn
<1>6. Mended'
  BY <1>1, <1>2, <1>5 DEF Mended, Untouched
<1> QED BY <1>4, <1>6 DEF TInv

\* A command takes the lock; remove_dispatch takes its stack out.
LEMMA LockTunnels ==
    ASSUME GInv, TInv, NEW c \in Clients, TakeLock(c)
    PROVE  TInv'
<1>0. job.pc = "none" /\ UNCHANGED <<world, swap, intact>> /\ swap.step = "none"
  BY DEF TakeLock, Acquire, RemoveDispatch, runtime, tunnels, history, TInv, SwapPlace
<1>1. CASE Acquire(c)
  <2>1. UNCHANGED <<stacks, kept>> /\ Torn' = Torn
    BY <1>1 DEF Acquire, runtime, tunnels, Torn
  <2>2. job'.pc = "build" /\ job'.kind = clients[c].kind /\ job'.kind # "remove"
    BY <1>1 DEF Acquire, NoJob
  <2>3. Mended'
    BY <1>0, <2>1, <2>2 DEF TInv, Mended
  <2> QED BY <1>0, <2>1, <2>3, KeptAside
<1>2. CASE RemoveDispatch(c)
  <2> DEFINE i == clients[c].id
  <2>1. CASE UNCHANGED <<job, stacks, prepared, kept>>
    BY <1>0, <2>1, KeptBeside
  <2>2. CASE /\ stacks' = Drop(stacks, {i}) /\ kept' = Drop(kept, {i})
             /\ job'.pc = "shutdown" /\ job'.kind = "remove"
    <3>1. KeptTyped' /\ KeptWhole' /\ SwapPlace' /\ Torn' = Torn \ {i}
      BY <1>0, <2>2, KeptDropped
    <3>2. Mended'
      BY <1>0, <2>2, <3>1 DEF TInv, Mended
    <3> QED BY <3>1, <3>2 DEF TInv
  <2> QED BY <1>2, <2>1, <2>2 DEF RemoveDispatch, NoJob
<1> QED BY <1>1, <1>2 DEF TakeLock

\* A changed stack swaps its handler, and its list is still the old one.
LEMMA CommitTunnels ==
    ASSUME GInv, TInv, NEW i \in Ids, CommitStack(i)
    PROVE  TInv'
<1> DEFINE k == kept[i]
           h == [kept[i] EXCEPT !.torn = FALSE]
           q == prepared[i]
<1>1. /\ job.pc = "commit" /\ job.kind # "remove" /\ job \in JobState /\ swap.step = "none"
      /\ i \in job.changed /\ i \in DOMAIN stacks /\ UNCHANGED <<world, intact>>
  BY JobIs DEF GInv, CommitStack, Removing, Pieces, history
<1>2. /\ job'.pc = "commit" /\ job'.kind = job.kind /\ job'.changed = job.changed \ {i}
  BY <1>1 DEF CommitStack, JobState
<1>3. kept \in [DOMAIN stacks -> KeptState] /\ k \in KeptState
  BY <1>1 DEF TInv, KeptTyped
<1>4. /\ h \in KeptState /\ h.list = k.list /\ h.tasks = k.tasks /\ h.lost = k.lost /\ h.torn = FALSE
  BY <1>3 DEF KeptState
<1>5. kept' = [kept EXCEPT ![i] = h]
  BY DEF CommitStack
<1>6. /\ DOMAIN stacks' = DOMAIN stacks /\ stacks'[i].rules = q
      /\ \A j \in DOMAIN stacks : j # i => stacks'[j] = stacks[j]
  <2>1. stacks' = [stacks EXCEPT ![i] = [stacks[i] EXCEPT !.rules = q]]
    BY DEF CommitStack
  <2>2. stacks[i] \in Stack /\ stacks \in [DOMAIN stacks -> Stack]
    BY <1>1, StacksAre DEF GInv
  <2>3. [stacks[i] EXCEPT !.rules = q].rules = q
    BY <2>2 DEF Stack
  <2> QED BY <1>1, <2>1, <2>2, <2>3
<1>7. Whole(i, k, stacks[i].rules, "none", swap.todo)
  BY <1>1 DEF TInv, KeptWhole, Doing
<1>8. /\ i \in world.awaiting => Whole(i, h, q, "stop", k.list \ KeepOf(i, q))
      /\ i \notin world.awaiting => \A y : Whole(i, h, q, "none", y)
  <2> HIDE DEF k, h, q
  <2> QED BY <1>3, <1>4, <1>7, CommitWhole
<1>9. swap' = IF i \in world.awaiting
                THEN [step |-> "stop", at |-> i, todo |-> k.list \ KeepOf(i, q)] ELSE NoSwap
  BY DEF CommitStack
<1> HIDE DEF k, h, q
<1>10. swap' \in SwapState
  <2>1. k.list \ KeepOf(i, q) \subseteq Tunnels
    BY <1>3 DEF KeptState
  <2>2. NoSwap \in SwapState
    BY ReloadAssumption DEF NoSwap, SwapState
  <2> QED BY <1>9, <2>1, <2>2 DEF SwapState
<1>11. KeptTyped'
  BY <1>3, <1>4, <1>5, <1>6, <1>10 DEF KeptTyped
<1>12. KeptWhole'
  <2> SUFFICES ASSUME NEW j \in DOMAIN stacks
               PROVE  Whole(j, kept[j], stacks[j].rules, Doing(j), swap.todo)'
    BY <1>6 DEF KeptWhole
  <2>1. CASE j = i
    <3>1. kept'[j] = h /\ stacks'[j].rules = q
      BY <1>3, <1>5, <1>6, <2>1
    <3>2. CASE i \in world.awaiting
      <4>1. Doing(j)' = "stop" /\ swap'.todo = k.list \ KeepOf(i, q)
        BY <1>9, <2>1, <3>2 DEF Doing
      <4> QED BY <1>1, <1>8, <2>1, <3>1, <3>2, <4>1 DEF Whole, KeepOf
    <3>3. CASE i \notin world.awaiting
      <4>1. Doing(j)' = "none"
        BY <1>9, <3>3 DEF Doing, NoSwap
      <4> QED BY <1>1, <1>8, <2>1, <3>1, <3>3, <4>1 DEF Whole, KeepOf
    <3> QED BY <3>2, <3>3
  <2>2. CASE j # i
    <3>1. kept'[j] = kept[j] /\ stacks'[j] = stacks[j]
      BY <1>3, <1>5, <1>6, <2>2
    <3>2. Doing(j)' = "none"
      BY <1>9, <2>2 DEF Doing, NoSwap
    <3>3. Whole(j, kept[j], stacks[j].rules, "none", swap.todo)
      BY <1>1 DEF TInv, KeptWhole, Doing
    <3> QED BY <1>1, <3>1, <3>2, <3>3 DEF Whole, KeepOf
  <2> QED BY <2>1, <2>2
<1>13. SwapPlace'
  BY <1>1, <1>2, <1>6, <1>9 DEF SwapPlace, NoSwap
<1>14. Torn' \subseteq job'.changed
  <2>1. Torn \subseteq job.changed
    BY <1>1 DEF TInv, Mended
  <2>2. Torn' \subseteq Torn \ {i}
    BY <1>3, <1>4, <1>5, <1>6 DEF Torn
  <2> QED BY <1>2, <2>1, <2>2
<1>15. Mended'
  BY <1>1, <1>2, <1>14 DEF Mended, Untouched
<1> QED BY <1>11, <1>12, <1>13, <1>15 DEF TInv

\* A step of the swap: only the kept tunnels of its stack change.
LEMMA SwapStepKept ==
    ASSUME TInv, TunnelStep, swap.step # "none", NEW h \in KeptState, swap' \in SwapState,
           kept' = [kept EXCEPT ![swap.at] = h], h.torn = FALSE,
           swap'.step = "none" \/ swap'.at = swap.at,
           Whole(swap.at, h, stacks[swap.at].rules, swap'.step, swap'.todo)
    PROVE  TInv'
<1> DEFINE i == swap.at
<1>1. UNCHANGED <<world, stacks, job, intact>>
  BY DEF TunnelStep, history
<1>2. /\ i \in DOMAIN stacks /\ i \in world.awaiting /\ job.pc = "commit" /\ job.kind # "remove"
      /\ kept \in [DOMAIN stacks -> KeptState]
  BY DEF TInv, SwapPlace, KeptTyped
<1>3. kept'[i] = h /\ \A j \in DOMAIN stacks : j # i => kept'[j] = kept[j]
  BY <1>2
<1>4. KeptTyped'
  BY <1>1, <1>2 DEF KeptTyped
<1>5. KeptWhole'
  <2> SUFFICES ASSUME NEW j \in DOMAIN stacks
               PROVE  Whole(j, kept[j], stacks[j].rules, Doing(j), swap.todo)'
    BY <1>1 DEF KeptWhole
  <2>1. CASE j = i
    <3>1. Doing(j)' = swap'.step
      BY <2>1 DEF Doing
    <3> QED BY <1>1, <1>3, <2>1, <3>1 DEF Whole, KeepOf
  <2>2. CASE j # i
    <3>1. Doing(j)' = "none" /\ Doing(j) = "none"
      BY <2>2 DEF Doing
    <3>2. Whole(j, kept[j], stacks[j].rules, "none", swap.todo)
      BY <3>1 DEF TInv, KeptWhole
    <3> QED BY <1>1, <1>3, <2>2, <3>1, <3>2 DEF Whole, KeepOf
  <2> QED BY <2>1, <2>2
<1>6. SwapPlace'
  BY <1>1, <1>2 DEF SwapPlace
<1>7. Torn' \subseteq Torn
  BY <1>1, <1>2, <1>3 DEF Torn
<1>8. Mended'
  BY <1>1, <1>2, <1>7 DEF TInv, Mended, Untouched
<1> QED BY <1>4, <1>5, <1>6, <1>8 DEF TInv

\* The stack whose commit awaits the swap.
LEMMA SwapIs ==
    ASSUME TInv, swap.step # "none"
    PROVE  /\ swap \in SwapState /\ kept[swap.at] \in KeptState /\ swap.at \in DOMAIN stacks
           /\ swap.at \in world.awaiting /\ kept[swap.at].torn = FALSE
           /\ Whole(swap.at, kept[swap.at], stacks[swap.at].rules, swap.step, swap.todo)
<1>1. swap \in SwapState /\ kept[swap.at] \in KeptState /\ swap.at \in DOMAIN stacks
      /\ swap.at \in world.awaiting
  BY DEF TInv, SwapPlace, KeptTyped
<1>2. Whole(swap.at, kept[swap.at], stacks[swap.at].rules, swap.step, swap.todo)
  BY <1>1 DEF TInv, KeptWhole, Doing
<1>3. ~kept[swap.at].torn
  BY <1>1, <1>2 DEF Whole, SwapState
<1> QED BY <1>1, <1>2, <1>3 DEF KeptState

\* apply_keep_tunnels, step by step.
LEMMA SwapStepsTunnels ==
    ASSUME TInv, SwapTunnels \/ TunnelsDone \/ \E t \in Tunnels : StopTunnel(t) \/ StartTunnel(t)
    PROVE  TInv'
<1> DEFINE i == swap.at
           k == kept[i]
           r == stacks[i].rules
<1>1. swap.step # "none" /\ TunnelStep
  BY DEF SwapTunnels, TunnelsDone, StopTunnel, StartTunnel
<1>2. /\ swap \in SwapState /\ k \in KeptState /\ i \in DOMAIN stacks /\ k.torn = FALSE
      /\ Whole(i, k, r, swap.step, swap.todo)
  BY <1>1, SwapIs
<1>3. ASSUME NEW t \in Tunnels, StopTunnel(t) PROVE TInv'
  <2> DEFINE h == [k EXCEPT !.tasks = k.tasks \ {t}]
  <2>1. h \in KeptState /\ h.list = k.list /\ h.tasks = k.tasks \ {t} /\ h.lost = k.lost
        /\ h.torn = k.torn
    BY <1>2 DEF KeptState
  <2>2. kept' = [kept EXCEPT ![i] = h] /\ swap.step = "stop" /\ t \in swap.todo
    BY <1>3 DEF StopTunnel
  <2>3. swap' \in SwapState /\ swap'.step = "stop" /\ swap'.at = i /\ swap'.todo = swap.todo \ {t}
    BY <1>2, <1>3 DEF StopTunnel, SwapState
  <2>4. Whole(i, h, r, "stop", swap.todo \ {t})
    <3> HIDE DEF h, k, r, i
    <3> QED BY <1>2, <2>1, <2>2, StopWhole
  <2> HIDE DEF h
  <2> QED BY <1>1, <1>2, <2>1, <2>2, <2>3, <2>4, SwapStepKept
<1>4. ASSUME NEW t \in Tunnels, StartTunnel(t) PROVE TInv'
  <2> DEFINE h == [k EXCEPT !.tasks = k.tasks \cup {t}]
  <2>1. h \in KeptState /\ h.list = k.list /\ h.tasks = k.tasks \cup {t} /\ h.lost = k.lost
        /\ h.torn = k.torn
    BY <1>2 DEF KeptState
  <2>2. kept' = [kept EXCEPT ![i] = h] /\ swap.step = "start" /\ t \in swap.todo
    BY <1>4 DEF StartTunnel
  <2>3. swap' \in SwapState /\ swap'.step = "start" /\ swap'.at = i /\ swap'.todo = swap.todo \ {t}
    BY <1>2, <1>4 DEF StartTunnel, SwapState
  <2>4. Whole(i, h, r, "start", swap.todo \ {t})
    <3> HIDE DEF h, k, r, i
    <3> QED BY <1>2, <2>1, <2>2, StartWhole
  <2> HIDE DEF h
  <2> QED BY <1>1, <1>2, <2>1, <2>2, <2>3, <2>4, SwapStepKept
<1>5. CASE SwapTunnels
  <2> DEFINE new == KeepOf(i, r)
             h == [k EXCEPT !.list = new, !.lost = k.lost \cap new]
  <2>0. new \subseteq Tunnels
    BY KeepTyped
  <2>1. h \in KeptState /\ h.list = new /\ h.tasks = k.tasks /\ h.lost = k.lost \cap new
        /\ h.torn = k.torn
    <3> HIDE DEF new, k
    <3> QED BY <1>2, <2>0 DEF KeptState
  <2>2. kept' = [kept EXCEPT ![i] = h] /\ swap.step = "stop" /\ swap.todo = {}
        /\ swap' = [swap EXCEPT !.step = "start", !.todo = new \ k.list]
    BY <1>5 DEF SwapTunnels
  <2>3. swap' \in SwapState /\ swap'.step = "start" /\ swap'.at = i /\ swap'.todo = new \ k.list
    <3> HIDE DEF new, k
    <3> QED BY <1>2, <2>0, <2>2 DEF SwapState
  <2>4. Whole(i, h, r, "start", new \ k.list)
    <3> HIDE DEF h, k, r, i
    <3> QED BY <1>2, <2>1, <2>2, SwapWhole
  <2> HIDE DEF h, new
  <2> QED BY <1>1, <1>2, <2>1, <2>2, <2>3, <2>4, SwapStepKept
<1>6. CASE TunnelsDone
  <2>1. swap' = NoSwap /\ kept' = kept /\ swap.step = "start" /\ swap.todo = {}
    BY <1>6 DEF TunnelsDone
  <2>2. NoSwap \in SwapState /\ NoSwap.step = "none"
    BY ReloadAssumption DEF NoSwap, SwapState
  <2>3. kept' = [kept EXCEPT ![i] = k]
    BY <2>1, <1>1 DEF TInv, KeptTyped
  <2>4. Whole(i, k, r, "none", swap'.todo)
    <3> HIDE DEF k, r, i
    <3> QED BY <1>2, <2>1, DoneWhole
  <2> HIDE DEF k, r
  <2> QED BY <1>1, <1>2, <2>1, <2>2, <2>3, <2>4, SwapStepKept DEF r
<1> QED BY <1>3, <1>4, <1>5, <1>6

\* The new stacks enter the manager with all their tunnels.
LEMMA InstallTunnels ==
    ASSUME GInv, TInv, Install
    PROVE  TInv'
<1> DEFINE t == job.target
<1>1. /\ job.pc = "commit" /\ job.kind # "remove" /\ job \in JobState /\ swap.step = "none"
      /\ job.changed = {} /\ UNCHANGED <<world, intact, swap>>
  BY JobIs DEF GInv, Install, Removing, history
<1>2. job'.pc = "traffic" /\ job'.kind = job.kind
  BY <1>1 DEF Install, JobState
<1>3. /\ DOMAIN stacks' = DOMAIN stacks \cup job.created
      /\ \A j \in DOMAIN stacks' :
           stacks'[j] = IF j \in job.created THEN [bind |-> t.binds[j], rules |-> t.rules] ELSE stacks[j]
  BY DEF Install
<1>4. kept' = [j \in DOMAIN stacks \cup job.created |->
                 IF j \in job.created THEN Started(j, t.rules) ELSE kept[j]]
  BY DEF Install
<1>5. kept \in [DOMAIN stacks -> KeptState] /\ swap \in SwapState
  BY DEF TInv, KeptTyped
<1>6. kept' \in [DOMAIN stacks' -> KeptState]
  <2>1. \A j \in DOMAIN stacks \cup job.created :
          (IF j \in job.created THEN Started(j, t.rules) ELSE kept[j]) \in KeptState
    BY <1>5, StartedWhole
  <2> QED BY <1>3, <1>4, <2>1
<1>7. KeptWhole'
  <2> SUFFICES ASSUME NEW j \in DOMAIN stacks \cup job.created
               PROVE  Whole(j, kept[j], stacks[j].rules, Doing(j), swap.todo)'
    BY <1>3 DEF KeptWhole
  <2>0. Doing(j)' = "none" /\ Doing(j) = "none"
    BY <1>1 DEF Doing
  <2>1. CASE j \in job.created
    <3>0. kept'[j] = Started(j, t.rules)
      BY <1>4, <2>1
    <3>1. kept'[j] = Started(j, t.rules) /\ stacks'[j].rules = t.rules
      <4> HIDE DEF t
      <4>1. stacks'[j] = [bind |-> t.binds[j], rules |-> t.rules]
        BY <1>3, <2>1
      <4> QED BY <3>0, <4>1
    <3>2. Whole(j, Started(j, t.rules), t.rules, "none", swap.todo)
      BY StartedWhole
    <3> QED BY <1>1, <2>0, <3>1, <3>2 DEF Whole, KeepOf
  <2>2. CASE j \notin job.created
    <3>1. kept'[j] = kept[j] /\ stacks'[j] = stacks[j] /\ j \in DOMAIN stacks
      BY <1>3, <1>4, <2>2
    <3>2. Whole(j, kept[j], stacks[j].rules, "none", swap.todo)
      BY <2>0, <3>1 DEF TInv, KeptWhole
    <3> QED BY <1>1, <2>0, <3>1, <3>2 DEF Whole, KeepOf
  <2> QED BY <2>1, <2>2
<1>8. SwapPlace'
  BY <1>1 DEF SwapPlace
<1>9. Torn' = {}
  <2>1. \A j \in DOMAIN stacks : ~kept[j].torn
    BY <1>1 DEF TInv, Mended, Torn
  <2>2. \A j \in DOMAIN stacks' : ~kept'[j].torn
    BY <1>3, <1>4, <2>1, StartedWhole
  <2> QED BY <2>2 DEF Torn
<1>10. Mended'
  BY <1>2, <1>9 DEF Mended
<1> QED BY <1>1, <1>5, <1>6, <1>7, <1>8, <1>10 DEF TInv, KeptTyped

\* A command is cut off.
LEMMA CancelTunnels ==
    ASSUME GInv, TInv, NEW c \in Clients, Cancel(c)
    PROVE  TInv'
<1>1. UNCHANGED <<world, stacks>>
  BY DEF Cancel
<1>2. CASE clients[c].pc # "run"
  <2>1. UNCHANGED <<job, intact, kept, swap>>
    BY <1>2 DEF Cancel, tunnels
  <2> QED BY <1>1, <2>1, KeptBeside
<1>3. CASE clients[c].pc = "run"
  <2>1. /\ job'.pc = "none" /\ job'.kind = "reload" /\ intact' = (intact /\ Untouched)
        /\ swap' = NoSwap
        /\ kept' = IF swap.step = "none" THEN kept ELSE [kept EXCEPT ![swap.at] = CutOff]
    BY <1>3, Placeholders DEF Cancel
  <2>2. NoSwap \in SwapState /\ NoSwap.step = "none" /\ kept \in [DOMAIN stacks -> KeptState]
        /\ swap \in SwapState
    BY ReloadAssumption DEF NoSwap, SwapState, TInv, KeptTyped
  <2>3. \A j : Doing(j)' = "none"
    BY <2>1, <2>2 DEF Doing
  <2>4. SwapPlace'
    BY <2>1, <2>2 DEF SwapPlace
  <2>5. CASE swap.step = "none"
    <3>1. kept' = kept /\ \A j : Doing(j) = "none"
      BY <2>1, <2>5 DEF Doing
    <3>2. KeptTyped'
      BY <1>1, <2>1, <2>2, <3>1 DEF KeptTyped
    <3>3. KeptWhole'
      BY <1>1, <2>3, <3>1 DEF TInv, KeptWhole, Whole, KeepOf
    <3>4. Torn' = Torn
      BY <1>1, <3>1 DEF Torn
    <3>5. Mended'
      BY <2>1, <3>4 DEF TInv, Mended
    <3> QED BY <2>4, <3>2, <3>3, <3>5 DEF TInv
  <2>6. CASE swap.step # "none"
    <3> DEFINE i == swap.at
               k == kept[i]
               r == stacks[i].rules
               cut == IF swap.step = "stop" THEN k.list \ (KeepOf(i, r) \cup swap.todo) ELSE swap.todo
               h == [k EXCEPT !.torn = TRUE, !.lost = k.lost \cup cut]
    <3>1. /\ k \in KeptState /\ i \in DOMAIN stacks /\ i \in world.awaiting
          /\ Whole(i, k, r, swap.step, swap.todo) /\ swap.step \in {"stop", "start"}
      BY <2>2, <2>6, SwapIs DEF SwapState
    <3>2. cut \subseteq Tunnels
      BY <2>2, <3>1 DEF SwapState, KeptState
    <3>3. h \in KeptState /\ h.list = k.list /\ h.tasks = k.tasks /\ h.torn = TRUE
          /\ h.lost = k.lost \cup cut
      <4> HIDE DEF cut, k
      <4> QED BY <3>1, <3>2 DEF KeptState
    <3>4. kept' = [kept EXCEPT ![i] = h]
      BY <2>1, <2>6 DEF CutOff
    <3>5. \A y : Whole(i, h, r, "none", y)
      <4> HIDE DEF h, k, r, i
      <4> QED BY <3>1, <3>3, CutWhole DEF cut
    <3> HIDE DEF h, r
    <3>6. kept'[i] = h /\ \A j \in DOMAIN stacks : j # i => kept'[j] = kept[j]
      BY <2>2, <3>1, <3>4
    <3>7. KeptTyped'
      BY <1>1, <2>1, <2>2, <3>3, <3>4 DEF KeptTyped
    <3>8. KeptWhole'
      <4> SUFFICES ASSUME NEW j \in DOMAIN stacks
                   PROVE  Whole(j, kept[j], stacks[j].rules, Doing(j), swap.todo)'
        BY <1>1 DEF KeptWhole
      <4>1. CASE j = i
        BY <1>1, <2>3, <3>5, <3>6, <4>1 DEF Whole, KeepOf, r
      <4>2. CASE j # i
        <5>1. Whole(j, kept[j], stacks[j].rules, "none", swap.todo)
          BY <4>2 DEF TInv, KeptWhole, Doing
        <5> QED BY <1>1, <2>3, <3>6, <4>2, <5>1 DEF Whole, KeepOf
      <4> QED BY <4>1, <4>2
    <3>9. ~Untouched
      BY <2>6 DEF TInv, SwapPlace, Untouched
    <3>10. Mended'
      BY <2>1, <3>9 DEF Mended
    <3> QED BY <2>4, <3>7, <3>8, <3>10 DEF TInv
  <2> QED BY <2>5, <2>6
<1> QED BY <1>2, <1>3

\* Every step keeps the kept tunnels in order.
LEMMA NextTInv ==
    ASSUME GInv, TInv, [Next]_vars
    PROVE  TInv'
<1>0. world.clients \subseteq Clients
  BY Constants DEF GInv, Typed
<1>1. ASSUME NEW c \in world.clients, Command(c) PROVE TInv'
  <2>1. UNCHANGED <<world, stacks, kept, swap, job, intact>>
    BY <1>1 DEF Command, SubmitReload, SubmitRule, SubmitDispatch, SubmitRemove, Submit, runtime,
       tunnels, history
  <2> QED BY <2>1, KeptBeside
<1>2. ASSUME NEW c \in world.clients, TakeLock(c) \/ Cancel(c) PROVE TInv'
  BY <1>0, <1>2, LockTunnels, CancelTunnels
<1>3. CASE JobStep
  BY <1>3, PreparingTunnels, StartingTunnels, EndingTunnels, RetainTunnels, CommitTunnels,
     SwapStepsTunnels, InstallTunnels DEF JobStep
<1>4. CASE (\E f \in world.files : EditFile(f)) \/ (\E b \in Binds : Release(b)) \/ UNCHANGED vars
  <2>1. UNCHANGED <<world, stacks, kept, swap, job, intact>>
    BY <1>4 DEF EditFile, Release, vars, runtime, tunnels, history
  <2> QED BY <2>1, KeptBeside
<1> QED BY <1>1, <1>2, <1>3, <1>4 DEF Next

\* A gateway that has just started keeps all its tunnels up.
LEMMA InitTInv ==
    ASSUME Init
    PROVE  TInv
<1>1. /\ DOMAIN stacks = DOMAIN file.binds /\ \A i \in DOMAIN stacks : stacks[i].rules = file.rules
      /\ kept = [i \in DOMAIN file.binds |-> Started(i, file.rules)] /\ swap = NoSwap /\ job = NoJob
  BY DEF Init
<1>2. NoSwap \in SwapState /\ NoSwap.step = "none"
  BY ReloadAssumption DEF NoSwap, SwapState
<1>3. KeptTyped
  BY <1>1, <1>2, StartedWhole DEF KeptTyped
<1>4. KeptWhole
  <2>1. \A i : Doing(i) = "none"
    BY <1>1, <1>2 DEF Doing
  <2> QED BY <1>1, <2>1, StartedWhole DEF KeptWhole
<1>5. Torn = {}
  BY <1>1, StartedWhole DEF Torn
<1> QED BY <1>1, <1>2, <1>3, <1>4, <1>5, Placeholders DEF TInv, SwapPlace, Mended

\* What the invariants say about the kept tunnels.
LEMMA KeptFollow ==
    ASSUME GInv, TInv
    PROVE  TunnelsKept
<1>1. ASSUME intact, job.pc = "none" \/ Untouched, NEW i \in DOMAIN stacks
      PROVE  kept[i].list = KeepOf(i, config.rules)
  <2>1. ~kept[i].torn /\ swap.step = "none"
    BY <1>1 DEF TInv, Mended, Torn, SwapPlace, Untouched
  <2>2. stacks[i].rules = config.rules
    BY <1>1 DEF GInv, ConfigApplied, Applied
  <2>3. Whole(i, kept[i], stacks[i].rules, "none", swap.todo)
    BY <2>1 DEF TInv, KeptWhole, Doing
  <2> QED BY <2>1, <2>2, <2>3 DEF Whole
<1>2. ASSUME NEW i \in DOMAIN stacks, swap.step = "none" \/ swap.at # i
      PROVE  kept[i].tasks = kept[i].list \ kept[i].lost
  <2>1. Whole(i, kept[i], stacks[i].rules, "none", swap.todo)
    BY <1>2 DEF TInv, KeptWhole, Doing
  <2> QED BY <2>1 DEF Whole
<1> QED BY <1>1, <1>2 DEF TunnelsKept

\* The kept tunnels of every stack follow its commits.
THEOREM TunnelInvariance == Spec => []TInv
<1>1. Init => TInv
  BY InitTInv
<1>2. GInv /\ TInv /\ [Next]_vars => TInv'
  BY NextTInv
<1> QED BY <1>1, <1>2, ReloadInvariance, PTL DEF Spec

\* reload_inner is a transaction, for any stacks, configurations, commands, faults
\* and cancellations: when it is over and nothing was cut off, the running parts
\* are those of Gateway.config; the device manager always is; commit_update
\* installs what this reload prepared; and the kept tunnels of an RTCP stack run,
\* but for those between whose stop and start its commit was cut off.
THEOREM ReloadIsTransaction == Spec => []ReloadSound
<1>1. ASSUME GInv, TInv PROVE ReloadSound
  <2>1. Typed
    BY <1>1 DEF GInv
  <2>2. ASSUME NEW c \in Configs PROVE IsConfig(c)
    <3>1. c.binds \in Bindings /\ c.rules \in RuleSets /\ c.dm \in BOOLEAN
      BY DEF Configs
    <3>2. DOMAIN c.binds \subseteq Ids /\ c.binds \in [DOMAIN c.binds -> Binds]
      BY <3>1, MapIs DEF Bindings
    <3> QED BY <3>1, <3>2 DEF IsConfig, BindsOf
  <2>3. \A i \in DOMAIN stacks : stacks[i] \in [bind : Binds, rules : RuleSets]
    BY <2>1, StacksAre DEF Stack
  <2>4. \A i \in DOMAIN prepared : prepared[i] \in RuleSets
    BY <2>1, StacksAre
  <2>5. DOMAIN stacks \subseteq Ids /\ IsConfig(config) /\ IsConfig(job.target)
    BY <2>1, <2>2, StacksAre, JobIs DEF Typed
  <2>6. TypeOK
    BY <1>1, <2>1, <2>3, <2>4, <2>5 DEF GInv, TInv, KeptTyped, Typed, Holder, Pieces, TypeOK
  <2>7. TunnelsKept
    BY <1>1, KeptFollow
  <2> QED BY <1>1, <2>6, <2>7 DEF GInv, ReloadSound
<1> QED BY <1>1, ReloadInvariance, TunnelInvariance, PTL

(***************************************************************************)
(* One failure is survived                                                 *)
(***************************************************************************)
\* A configuration that began as one of the files.
Placed(c) == \E f \in world.files : \A i \in DOMAIN c.binds : c.binds[i] \in Addresses(f, i)

\* Waiting commands and the running one carry placed configurations.
AllPlaced ==
    /\ Placed(config)
    /\ \A c \in Clients : clients[c].pc = "wait" /\ clients[c].kind # "remove"
                            => Placed(clients[c].target)
    /\ job.pc # "none" => Placed(job.target)

\* The way back stays open: what a reload has changed can be undone.
WayBack ==
    job.pc # "none" /\ job.kind # "remove" =>
        /\ job.old = config
        /\ \A i \in DOMAIN stacks \cap DOMAIN config.binds : stacks[i].bind = config.binds[i]
        /\ job.mode = "forward" => job.created \cap DOMAIN config.binds = {}

\* Whoever goes back has used up the one fault, and does not fail again.
FaultSpent ==
    /\ job.mode = "rollback" \/ job.pc = "abort" => faults = world.faults
    /\ job.mode = "rollback" => job.pc # "abort" /\ job.target = config

\* The new stacks that have started, and those that have not.
Starting ==
    /\ job.pc \in {"none", "build", "stacks", "shutdown"} => job.started = {}
    /\ job.pc = "start" => job.todo \cap job.started = {}

Surviving ==
    /\ closing = {} /\ intact /\ outcome # "rollback_failed"
    /\ AllPlaced
    /\ WayBack
    /\ FaultSpent
    /\ Starting

SInv == OneFailure => Surviving

\* The environment never changes.
LEMMA WorldStays == [Next]_vars => world' = world
<1>1. ASSUME NEW c, Command(c) \/ TakeLock(c) \/ Cancel(c) PROVE world' = world
  BY <1>1 DEF Command, SubmitReload, SubmitRule, SubmitDispatch, SubmitRemove, Submit, TakeLock,
     Acquire, RemoveDispatch, Cancel
<1>2. ASSUME JobStep PROVE world' = world
  BY <1>2 DEF JobStep, Build, Retain, ShutdownDone, AbortDone, StartDone, Install, RestartTraffic,
     Finish, RemoveDone, PrepareStack, CreateStack, ShutdownStack, StartStack, AbortStack, CommitStack,
     SwapTunnels, TunnelsDone, StopTunnel, StartTunnel, TunnelStep
<1> QED BY <1>1, <1>2 DEF Next, EditFile, Release, vars

\* The facts a proof starts from.
Sound == GInv /\ OneFailure /\ Surviving /\ GInv' /\ world' = world

\* Other addresses for other stacks of a placed configuration.
LEMMA PlacedApart ==
    ASSUME Typed, OneFailure, NEW c \in Configs, Placed(c), NEW i \in DOMAIN c.binds,
           NEW j \in DOMAIN c.binds, i # j
    PROVE  c.binds[i] # c.binds[j]
<1>1. DOMAIN c.binds \subseteq Ids
  BY MapIs DEF Configs, Bindings
<1>2. PICK f \in world.files : \A k \in DOMAIN c.binds : c.binds[k] \in Addresses(f, k)
  BY DEF Placed
<1>3. Addresses(f, i) \cap Addresses(f, j) = {}
  BY <1>1 DEF OneFailure, OwnAddresses
<1> QED BY <1>2, <1>3

\* The last fault has happened once a reload goes back.
LEMMA NoSecondFault ==
    ASSUME GInv, OneFailure, Surviving, job.mode = "rollback", NEW k
    PROVE  ~ Fault(k)
<1>1. world.faults \in Nat
  BY Constants DEF GInv, Typed
<1> QED BY <1>1 DEF Surviving, FaultSpent, Fault

\* A fault is the last one.
LEMMA FaultIsLast ==
    ASSUME GInv, OneFailure, NEW k, Fault(k)
    PROVE  faults' = world.faults
<1>1. world.faults \in Nat /\ faults \in Nat
  BY Constants DEF GInv, Typed
<1> QED BY <1>1 DEF Fault, OneFailure

\* Nobody is cut off.
LEMMA NoCancel ==
    ASSUME OneFailure, NEW c
    PROVE  ~ Cancel(c)
BY DEF OneFailure, Cancel, Fault

\* A new stack finds its address free.
LEMMA CanStart ==
    ASSUME GInv, OneFailure, Surviving, job.pc = "start", NEW i \in job.todo
    PROVE  job.target.binds[i] \notin Bound
<1> DEFINE t == job.target
<1>1. Typed /\ job.kind # "remove" /\ closing = {} /\ Placed(t) /\ t \in Configs
  BY JobIs DEF GInv, Removing, Surviving, AllPlaced
<1>2. /\ i \in job.created /\ i \notin DOMAIN stacks /\ i \notin job.started
      /\ job.started \subseteq DOMAIN t.binds /\ i \in DOMAIN t.binds
  BY DEF GInv, Pieces, Surviving, Starting
<1>3. /\ DOMAIN stacks \subseteq DOMAIN t.binds
      /\ \A k \in DOMAIN stacks : stacks[k].bind = t.binds[k]
  BY <1>1 DEF GInv, Reloading
<1>4. BindsOf(job.removed) = {}
  BY DEF GInv, Pieces, BindsOf
<1>5. \A k \in DOMAIN t.binds : k # i => t.binds[k] # t.binds[i]
  BY <1>1, <1>2, PlacedApart
<1>6. \A k \in DOMAIN stacks : stacks[k].bind # t.binds[i]
  BY <1>2, <1>3, <1>5
<1>7. \A k \in job.started : t.binds[k] # t.binds[i]
  BY <1>2, <1>5
<1> QED BY <1>1, <1>4, <1>6, <1>7 DEF Bound

\* A step beside the job: only a waiting command can be new.
LEMMA BesideSurvives ==
    ASSUME Sound, closing' = {}, outcome' # "rollback_failed",
           UNCHANGED <<config, stacks, job, intact, faults>>,
           \A c \in Clients : clients'[c].pc = "wait" /\ clients'[c].kind # "remove"
                                => Placed(clients'[c].target)
    PROVE  Surviving'
<1>1. AllPlaced'
  BY DEF Sound, Surviving, AllPlaced, Placed, Addresses
<1>2. WayBack' /\ FaultSpent' /\ Starting'
  BY DEF Sound, Surviving, WayBack, FaultSpent, Starting
<1> QED BY <1>1, <1>2 DEF Sound, Surviving

\* The end of a job.
LEMMA EndSurvives ==
    ASSUME Sound, closing' = {}, intact', outcome' # "rollback_failed", Placed(config'),
           job' = NoJob, clients' = [clients EXCEPT ![job.client] = Idle]
    PROVE  Surviving'
<1>1. job'.pc = "none" /\ job'.mode = "forward" /\ job'.started = {}
  BY Placeholders
<1>2. AllPlaced'
  <2>1. \A c \in Clients : clients'[c] = Idle \/ clients'[c] = clients[c]
    BY DEF Sound, GInv, Typed
  <2> QED BY <1>1, <2>1, Placeholders DEF Sound, Surviving, AllPlaced, Placed, Addresses
<1>3. WayBack' /\ FaultSpent' /\ Starting'
  BY <1>1 DEF WayBack, FaultSpent, Starting
<1> QED BY <1>2, <1>3 DEF Surviving

\* A job that goes on with its target.
LEMMA GoesOnSurvives ==
    ASSUME Sound, job.pc # "none", job'.pc # "none", job'.target = job.target,
           UNCHANGED <<config, clients, intact, outcome>>, closing' = {},
           WayBack', FaultSpent', Starting'
    PROVE  Surviving'
<1>1. AllPlaced'
  BY DEF Sound, Surviving, AllPlaced, Placed, Addresses
<1> QED BY <1>1 DEF Sound, Surviving

\* A refusal of a reload that was not yet going back.
LEMMA RefuseSurvives ==
    ASSUME Sound, Refuse, job.mode = "forward", UNCHANGED <<config, closing>>
    PROVE  Surviving'
<1>1. job' = NoJob /\ clients' = [clients EXCEPT ![job.client] = Idle] /\ outcome' = "refused"
  BY DEF Refuse, End
<1>2. intact'
  BY DEF Refuse, IntactAfter, Sound, Surviving
<1>3. Placed(config') /\ closing' = {}
  BY DEF Sound, Surviving, AllPlaced
<1> QED BY <1>1, <1>2, <1>3, EndSurvives

(***************************************************************************)
(* Every step survives                                                     *)
(***************************************************************************)
\* A command carries a placed configuration.
LEMMA SubmitSurvives ==
    ASSUME Sound, NEW c \in Clients, NEW k, NEW t, NEW i, Submit(c, k, t, i),
           k # "remove" => Placed(t)
    PROVE  Surviving'
<1> DEFINE s == [pc |-> "wait", kind |-> k, target |-> t, id |-> i]
<1>1. s.kind = k /\ s.target = t /\ clients' = [clients EXCEPT ![c] = s]
  BY DEF Submit
<1> HIDE DEF s
<1>2. \A d \in Clients : clients'[d] = IF d = c THEN s ELSE clients[d]
  BY <1>1 DEF Sound, GInv, Typed
<1>3. UNCHANGED <<config, job, faults, stacks, closing, outcome, intact>>
  BY DEF Submit, runtime, history
<1>4. \A d \in Clients : clients'[d].pc = "wait" /\ clients'[d].kind # "remove"
                           => Placed(clients'[d].target)
  BY <1>1, <1>2 DEF Sound, Surviving, AllPlaced
<1> QED BY <1>3, <1>4, BesideSurvives DEF Sound, Surviving

\* Commands.
LEMMA CommandSurvives ==
    ASSUME Sound, NEW c \in world.clients, Command(c)
    PROVE  Surviving'
<1>1. c \in Clients /\ Placed(config) /\ file \in world.files
  BY Constants DEF Sound, GInv, Typed, Surviving, AllPlaced
<1>2. CASE SubmitReload(c)
  <2>1. Placed(file)
    BY <1>1 DEF Placed, Addresses
  <2> QED BY <1>1, <1>2, <2>1, SubmitSurvives DEF SubmitReload
<1>3. ASSUME NEW r \in world.rules, SubmitRule(c, r) PROVE Surviving'
  <2> DEFINE t == [config EXCEPT !.rules = @ \cup {r}]
  <2>1. t.binds = config.binds
    BY DEF Sound, GInv, Typed, Configs
  <2>2. Placed(t)
    BY <1>1, <2>1 DEF Placed
  <2>3. Submit(c, "rule", t, Idle.id)
    BY <1>3 DEF SubmitRule
  <2> HIDE DEF t
  <2> QED BY <1>1, <2>2, <2>3, SubmitSurvives
<1>4. ASSUME NEW i \in world.dispatches, SubmitDispatch(c, i) PROVE Surviving'
  <2> DEFINE t == [config EXCEPT !.binds = Put(@, i, Dispatches[i])]
             a == Dispatches[i]
  <2>1. t.binds = Put(config.binds, i, a)
    BY DEF Sound, GInv, Typed, Configs
  <2>2. PICK f \in world.files : \A j \in DOMAIN config.binds : config.binds[j] \in Addresses(f, j)
    BY <1>1 DEF Placed
  <2>3. a \in Addresses(f, i)
    BY DEF Addresses
  <2>4. Submit(c, "dispatch", t, Idle.id)
    BY <1>4 DEF SubmitDispatch
  <2> HIDE DEF t, a
  <2>5. DOMAIN t.binds = DOMAIN config.binds \cup {i}
        /\ \A j \in DOMAIN t.binds : t.binds[j] = IF j = i THEN a ELSE config.binds[j]
    BY <2>1 DEF Put
  <2>6. Placed(t)
    BY <2>2, <2>3, <2>5 DEF Placed
  <2> QED BY <1>1, <2>4, <2>6, SubmitSurvives
<1>5. ASSUME NEW i \in world.dispatches, SubmitRemove(c, i) PROVE Surviving'
  BY <1>1, <1>5, SubmitSurvives DEF SubmitRemove
<1> QED BY <1>2, <1>3, <1>4, <1>5 DEF Command

\* The operator, the runtime, the kept tunnels, and steps that change nothing.
LEMMA OutsideSurvives ==
    ASSUME Sound, \/ \E f \in world.files : EditFile(f)
                  \/ \E b \in Binds : Release(b)
                  \/ UNCHANGED vars
                  \/ TunnelStep
    PROVE  Surviving'
<1>1. UNCHANGED <<config, stacks, job, intact, faults, outcome, clients>> /\ closing' = {}
  BY DEF Sound, Surviving, EditFile, Release, TunnelStep, vars, runtime, history
<1>2. \A c \in Clients : clients'[c].pc = "wait" /\ clients'[c].kind # "remove"
                           => Placed(clients'[c].target)
  BY <1>1 DEF Sound, Surviving, AllPlaced
<1>3. outcome' # "rollback_failed"
  BY <1>1 DEF Sound, Surviving
<1> QED BY <1>1, <1>2, <1>3, BesideSurvives

\* A command takes the lock.
LEMMA TakeLockSurvives ==
    ASSUME Sound, NEW c \in Clients, TakeLock(c)
    PROVE  Surviving'
<1>0. /\ job.pc = "none" /\ clients[c].pc = "wait" /\ Typed
      /\ clients \in [Clients -> ClientState] /\ clients[c] \in ClientState
  BY DEF TakeLock, Acquire, RemoveDispatch, Sound, GInv, Typed
<1>1. closing = {} /\ intact /\ outcome # "rollback_failed" /\ Placed(config) /\ Applied
      /\ (clients[c].kind # "remove" => Placed(clients[c].target))
      /\ \A d \in Clients : clients[d].pc = "wait" /\ clients[d].kind # "remove"
                              => Placed(clients[d].target)
  BY <1>0 DEF Sound, Surviving, AllPlaced, GInv, ConfigApplied
<1>2. ASSUME clients' = [clients EXCEPT ![c].pc = "run"]
      PROVE  \A d \in Clients : clients'[d].pc = "wait" => d # c /\ clients'[d] = clients[d]
  <2>1. clients'[c].pc = "run" /\ \A d \in Clients : d # c => clients'[d] = clients[d]
    BY <1>0, <1>2, TakesLock DEF Sound
  <2> QED BY <2>1
<1>3. CASE Acquire(c)
  <2>1. UNCHANGED <<config, stacks, closing, intact, outcome, faults>>
        /\ clients' = [clients EXCEPT ![c].pc = "run"] /\ clients[c].kind # "remove"
    BY <1>3 DEF Acquire, runtime, history
  <2>2. job'.pc = "build" /\ job'.mode = "forward" /\ job'.target = clients[c].target
        /\ job'.old = config /\ job'.created = {} /\ job'.started = {}
    BY <1>3 DEF Acquire, NoJob
  <2>3. AllPlaced'
    <3>1. Placed(job'.target) /\ Placed(config')
      BY <1>1, <2>1, <2>2
    <3>2. \A d \in Clients : clients'[d].pc = "wait" /\ clients'[d].kind # "remove"
                               => Placed(clients'[d].target)
      BY <1>1, <1>2, <2>1
    <3> QED BY <3>1, <3>2 DEF Sound, AllPlaced, Placed, Addresses
  <2>4. WayBack' /\ FaultSpent' /\ Starting'
    <3>1. \A i \in DOMAIN stacks \cap DOMAIN config.binds : stacks[i].bind = config.binds[i]
      BY <1>1 DEF Applied
    <3> QED BY <2>1, <2>2, <3>1 DEF WayBack, FaultSpent, Starting
  <2> QED BY <1>1, <2>1, <2>3, <2>4 DEF Surviving
<1>4. CASE RemoveDispatch(c)
  <2> DEFINE i == clients[c].id
  <2>0. UNCHANGED <<config, closing, intact, faults>>
    BY <1>4 DEF RemoveDispatch
  <2>1. CASE i \notin DOMAIN config.binds
    <3>1. UNCHANGED <<job, stacks>> /\ outcome' = "refused" /\ clients' = [clients EXCEPT ![c] = Idle]
      BY <1>4, <2>1 DEF RemoveDispatch
    <3>2. \A d \in Clients : clients'[d] = Idle \/ clients'[d] = clients[d]
      BY <1>0, <3>1
    <3>3. \A d \in Clients : clients'[d].pc = "wait" /\ clients'[d].kind # "remove"
                               => Placed(clients'[d].target)
      BY <1>1, <3>2, Placeholders
    <3> QED BY <1>1, <2>0, <3>1, <3>3, BesideSurvives
  <2>2. CASE i \in DOMAIN config.binds
    <3> DEFINE t == [config EXCEPT !.binds = Drop(@, {i})]
    <3>1. clients' = [clients EXCEPT ![c].pc = "run"] /\ outcome' = outcome
      BY <1>4, <2>2 DEF RemoveDispatch
    <3>2. job'.pc = "shutdown" /\ job'.kind = "remove" /\ job'.mode = "forward" /\ job'.target = t
          /\ job'.started = {}
      BY <1>4, <2>2 DEF RemoveDispatch, NoJob
    <3>3. t.binds = Drop(config.binds, {i})
      BY <1>0 DEF Typed, Configs
    <3> HIDE DEF t, i
    <3>4. DOMAIN t.binds \subseteq DOMAIN config.binds
          /\ \A k \in DOMAIN t.binds : t.binds[k] = config.binds[k]
      BY <3>3 DEF Drop, Restrict
    <3>5. Placed(t)
      BY <1>1, <3>4 DEF Placed
    <3>6. AllPlaced'
      <4>1. Placed(job'.target) /\ Placed(config')
        BY <1>1, <2>0, <3>2, <3>5
      <4>2. \A d \in Clients : clients'[d].pc = "wait" /\ clients'[d].kind # "remove"
                                 => Placed(clients'[d].target)
        BY <1>1, <1>2, <3>1
      <4> QED BY <4>1, <4>2 DEF Sound, AllPlaced, Placed, Addresses
    <3>7. WayBack' /\ FaultSpent' /\ Starting'
      BY <3>2 DEF WayBack, FaultSpent, Starting
    <3> QED BY <1>1, <2>0, <3>1, <3>6, <3>7 DEF Surviving
  <2> QED BY <2>1, <2>2
<1> QED BY <1>3, <1>4 DEF TakeLock

\* The job before the manager is touched.
LEMMA BuildSurvives ==
    ASSUME Sound, Build
    PROVE  Surviving'
<1>1. GInv /\ OneFailure /\ Surviving /\ Typed /\ job \in JobState /\ job.pc = "build"
  BY JobIs DEF Sound, GInv, Build
<1>2. UNCHANGED <<config, stacks, closing>>
  BY DEF Build, runtime
<1>3. CASE job' = [job EXCEPT !.pc = "stacks", !.todo = DOMAIN job.target.binds]
           /\ UNCHANGED <<clients, faults, history>>
  <2>1. /\ job'.pc = "stacks" /\ job'.started = job.started /\ job'.created = job.created
        /\ job'.mode = job.mode /\ job'.kind = job.kind /\ job'.old = job.old
        /\ job'.target = job.target
    BY <1>1, <1>3 DEF JobState
  <2>2. WayBack' /\ FaultSpent' /\ Starting'
    BY <1>1, <1>2, <1>3, <2>1 DEF Sound, Surviving, WayBack, FaultSpent, Starting
  <2> QED BY <1>1, <1>2, <1>3, <2>1, <2>2, GoesOnSurvives DEF history, Surviving
<1>4. CASE Fault("build") /\ Refuse
  BY <1>1, <1>2, <1>4, NoSecondFault, RefuseSurvives, JobIs
<1> QED BY <1>3, <1>4 DEF Build

\* A stack that prepares its handler: the rollback finds every bind as it was.
LEMMA PrepareStackSurvives ==
    ASSUME Sound, NEW i \in Ids, PrepareStack(i)
    PROVE  Surviving'
<1>1. GInv /\ OneFailure /\ Surviving /\ Typed /\ job \in JobState /\ job.pc = "stacks"
      /\ i \in job.todo /\ i \in DOMAIN stacks /\ job.kind # "remove"
  BY JobIs DEF Sound, GInv, PrepareStack, Removing
<1>2. UNCHANGED <<config, stacks, closing>>
  BY DEF PrepareStack
<1>3. CASE /\ job' = [job EXCEPT !.todo = @ \ {i}, !.changed = @ \cup {i}]
           /\ UNCHANGED <<clients, faults, history>>
  <2>1. /\ job'.pc = "stacks" /\ job'.started = job.started /\ job'.created = job.created
        /\ job'.mode = job.mode /\ job'.kind = job.kind /\ job'.old = job.old
        /\ job'.target = job.target
    BY <1>1, <1>3 DEF JobState
  <2>2. WayBack' /\ FaultSpent' /\ Starting'
    BY <1>1, <1>2, <1>3, <2>1 DEF Sound, Surviving, WayBack, FaultSpent, Starting
  <2> QED BY <1>1, <1>2, <1>3, <2>1, <2>2, GoesOnSurvives DEF history, Surviving
<1>4. CASE /\ IF stacks[i].bind # job.target.binds[i] THEN UNCHANGED faults ELSE Fault("prepare")
           /\ Refuse
  <2>1. job.mode = "forward"
    <3> SUFFICES ASSUME job.mode = "rollback" PROVE FALSE
      BY <1>1, JobIs
    <3>1. job.target = config
      BY <1>1 DEF Surviving, FaultSpent
    <3>2. i \in DOMAIN config.binds
      BY <1>1, <3>1 DEF GInv, Reloading
    <3>3. stacks[i].bind = config.binds[i]
      BY <1>1, <3>2 DEF Surviving, WayBack
    <3> QED BY <1>1, <1>4, <3>1, <3>3, NoSecondFault
  <2> QED BY <1>2, <1>4, <2>1, RefuseSurvives
<1> QED BY <1>3, <1>4 DEF PrepareStack

\* A stack that is created: a forward reload creates none that the old
\* configuration has.
LEMMA CreateStackSurvives ==
    ASSUME Sound, NEW i \in Ids, CreateStack(i)
    PROVE  Surviving'
<1>1. GInv /\ OneFailure /\ Surviving /\ Typed /\ job \in JobState /\ job.pc = "stacks"
      /\ i \notin DOMAIN stacks
  BY JobIs DEF Sound, GInv, CreateStack
<1>2. UNCHANGED <<config, stacks, closing>>
  BY DEF CreateStack
<1>3. CASE /\ job' = [job EXCEPT !.todo = @ \ {i}, !.created = @ \cup {i}]
           /\ UNCHANGED <<clients, faults, history>>
  <2>1. /\ job'.pc = "stacks" /\ job'.started = job.started /\ job'.created = job.created \cup {i}
        /\ job'.mode = job.mode /\ job'.kind = job.kind /\ job'.old = job.old
        /\ job'.target = job.target
    BY <1>1, <1>3 DEF JobState
  <2>2. ASSUME job.mode = "forward" PROVE i \notin DOMAIN config.binds
    <3>1. Applied
      BY <1>1, <2>2 DEF GInv, ConfigApplied, Untouched, Surviving
    <3>2. DOMAIN stacks = DOMAIN config.binds
      BY <3>1 DEF Applied
    <3> QED BY <1>1, <3>2
  <2>3. WayBack' /\ FaultSpent' /\ Starting'
    BY <1>1, <1>2, <1>3, <2>1, <2>2 DEF Sound, Surviving, WayBack, FaultSpent, Starting
  <2> QED BY <1>1, <1>2, <1>3, <2>1, <2>3, GoesOnSurvives DEF history, Surviving
<1>4. CASE Fault("create") /\ Refuse
  BY <1>1, <1>2, <1>4, NoSecondFault, RefuseSurvives, JobIs
<1> QED BY <1>3, <1>4 DEF CreateStack

\* Obsolete stacks leave the manager and give their addresses back.
LEMMA RetainSurvives ==
    ASSUME Sound, Retain
    PROVE  Surviving'
<1> DEFINE out == DOMAIN stacks \ DOMAIN job.target.binds
<1>1. GInv /\ OneFailure /\ Surviving /\ Typed /\ job \in JobState /\ job.pc = "stacks"
  BY JobIs DEF Sound, GInv, Retain
<1>2. UNCHANGED <<config, closing, clients, faults, outcome, intact>> /\ stacks' = Drop(stacks, out)
  BY DEF Retain, history
<1>3. /\ job'.pc = "shutdown" /\ job'.started = job.started /\ job'.created = job.created
      /\ job'.mode = job.mode /\ job'.kind = job.kind /\ job'.old = job.old
      /\ job'.target = job.target
  BY <1>1 DEF Retain, JobState
<1> HIDE DEF out
<1>4. DOMAIN stacks' \subseteq DOMAIN stacks /\ \A i \in DOMAIN stacks' : stacks'[i] = stacks[i]
  BY <1>2 DEF Drop, Restrict
<1>5. WayBack' /\ FaultSpent' /\ Starting'
  BY <1>1, <1>2, <1>3, <1>4 DEF Sound, Surviving, WayBack, FaultSpent, Starting
<1> QED BY <1>1, <1>2, <1>3, <1>5, GoesOnSurvives DEF Surviving

\* Every stack that is shut down has let go of its address.
LEMMA ShutdownStackSurvives ==
    ASSUME Sound, NEW i \in Ids, ShutdownStack(i) \/ AbortStack(i)
    PROVE  Surviving'
<1>1. GInv /\ OneFailure /\ Surviving /\ Typed /\ job \in JobState
      /\ job.pc \in {"shutdown", "abort"}
  BY JobIs DEF Sound, GInv, ShutdownStack, AbortStack
<1>2. UNCHANGED <<config, stacks, clients, faults, outcome, intact>>
  BY DEF ShutdownStack, AbortStack, history
<1>3. closing' = {}
  BY <1>1 DEF ShutdownStack, AbortStack, AfterShutdown, OneFailure, Surviving
<1>4. /\ job'.pc = job.pc /\ job'.created = job.created /\ job'.started \subseteq job.started
      /\ job'.mode = job.mode /\ job'.kind = job.kind /\ job'.old = job.old
      /\ job'.target = job.target
  BY <1>1 DEF ShutdownStack, AbortStack, JobState
<1>5. WayBack' /\ FaultSpent' /\ Starting'
  BY <1>1, <1>2, <1>4 DEF Sound, Surviving, WayBack, FaultSpent, Starting
<1> QED BY <1>1, <1>2, <1>3, <1>4, <1>5, GoesOnSurvives

\* The new stacks are to start, and have started.
LEMMA StartingSurvives ==
    ASSUME Sound, ShutdownDone \/ StartDone
    PROVE  Surviving'
<1>1. GInv /\ OneFailure /\ Surviving /\ Typed /\ job \in JobState
      /\ job.pc \in {"shutdown", "start"}
  BY JobIs DEF Sound, GInv, ShutdownDone, StartDone
<1>2. UNCHANGED <<config, stacks, closing, clients, faults, outcome, intact>>
  BY DEF ShutdownDone, StartDone, runtime, history
<1>3. /\ job'.pc \in {"start", "commit"} /\ job'.created = job.created /\ job'.started = job.started
      /\ (job'.pc = "start" => job.pc = "shutdown")
      /\ job'.mode = job.mode /\ job'.kind = job.kind /\ job'.old = job.old
      /\ job'.target = job.target
  BY <1>1 DEF ShutdownDone, StartDone, JobState
<1>4. WayBack' /\ FaultSpent' /\ Starting'
  BY <1>1, <1>2, <1>3 DEF Sound, Surviving, WayBack, FaultSpent, Starting
<1> QED BY <1>1, <1>2, <1>3, <1>4, GoesOnSurvives DEF Surviving

\* A new stack fails to start only by the one fault.
LEMMA StartStackSurvives ==
    ASSUME Sound, NEW i \in Ids, StartStack(i)
    PROVE  Surviving'
<1>1. GInv /\ OneFailure /\ Surviving /\ Typed /\ job \in JobState /\ job.pc = "start" /\ i \in job.todo
  BY JobIs DEF Sound, GInv, StartStack
<1>2. UNCHANGED <<config, stacks, closing, clients, outcome, intact>>
  BY DEF StartStack, history
<1>3. CASE job' = [job EXCEPT !.todo = @ \ {i}, !.started = @ \cup {i}] /\ UNCHANGED faults
  <2>1. /\ job'.pc = "start" /\ job'.started = job.started \cup {i} /\ job'.created = job.created
        /\ job'.mode = job.mode /\ job'.kind = job.kind /\ job'.old = job.old
        /\ job'.target = job.target /\ job'.todo = job.todo \ {i}
    BY <1>1, <1>3 DEF JobState
  <2>2. WayBack' /\ FaultSpent' /\ Starting'
    BY <1>1, <1>2, <1>3, <2>1 DEF Sound, Surviving, WayBack, FaultSpent, Starting
  <2> QED BY <1>1, <1>2, <2>1, <2>2, GoesOnSurvives DEF Surviving
<1>4. CASE /\ IF job.target.binds[i] \in Bound THEN UNCHANGED faults ELSE Fault("start")
           /\ job' = [job EXCEPT !.pc = "abort", !.todo = {}]
  <2>1. Fault("start")
    BY <1>1, <1>4, CanStart
  <2>2. faults' = world.faults /\ job.mode = "forward"
    BY <1>1, <2>1, FaultIsLast, NoSecondFault, JobIs
  <2>3. /\ job'.pc = "abort" /\ job'.started = job.started /\ job'.created = job.created
        /\ job'.mode = job.mode /\ job'.kind = job.kind /\ job'.old = job.old
        /\ job'.target = job.target
    BY <1>1, <1>4 DEF JobState
  <2>4. WayBack' /\ FaultSpent' /\ Starting'
    BY <1>1, <1>2, <2>2, <2>3 DEF Sound, Surviving, WayBack, FaultSpent, Starting
  <2> QED BY <1>1, <1>2, <2>3, <2>4, GoesOnSurvives DEF Surviving
<1> QED BY <1>3, <1>4 DEF StartStack

\* A changed stack keeps its bind.
LEMMA CommitStackSurvives ==
    ASSUME Sound, NEW i \in Ids, CommitStack(i)
    PROVE  Surviving'
<1>1. GInv /\ OneFailure /\ Surviving /\ Typed /\ job \in JobState /\ job.pc = "commit"
      /\ i \in job.changed /\ i \in DOMAIN stacks
  BY JobIs DEF Sound, GInv, CommitStack, Pieces
<1>2. UNCHANGED <<config, closing, clients, faults, outcome, intact>>
  BY DEF CommitStack, history
<1>3. DOMAIN stacks' = DOMAIN stacks /\ \A k \in DOMAIN stacks : stacks'[k].bind = stacks[k].bind
  <2> DEFINE s == [stacks[i] EXCEPT !.rules = prepared[i]]
  <2>1. stacks' = [stacks EXCEPT ![i] = s]
    BY DEF CommitStack
  <2>2. stacks[i] \in Stack
    BY <1>1, StacksAre
  <2>3. s.bind = stacks[i].bind
    BY <2>2 DEF Stack
  <2> HIDE DEF s
  <2>4. stacks \in [DOMAIN stacks -> Stack]
    BY <1>1, StacksAre
  <2> QED BY <1>1, <2>1, <2>3, <2>4
<1>4. /\ job'.pc = "commit" /\ job'.created = job.created /\ job'.started = job.started
      /\ job'.mode = job.mode /\ job'.kind = job.kind /\ job'.old = job.old
      /\ job'.target = job.target
  BY <1>1 DEF CommitStack, JobState
<1>5. WayBack' /\ FaultSpent' /\ Starting'
  BY <1>1, <1>2, <1>3, <1>4 DEF Sound, Surviving, WayBack, FaultSpent, Starting
<1> QED BY <1>1, <1>2, <1>4, <1>5, GoesOnSurvives DEF Surviving

\* The new stacks in the manager are no stacks of the old configuration.
LEMMA InstallSurvives ==
    ASSUME Sound, Install
    PROVE  Surviving'
<1>1. GInv /\ OneFailure /\ Surviving /\ Typed /\ job \in JobState /\ job.pc = "commit"
      /\ job.kind # "remove"
  BY JobIs DEF Sound, GInv, Install, Removing
<1>2. UNCHANGED <<config, closing, clients, faults, outcome, intact>>
  BY DEF Install, history
<1>3. /\ job'.pc = "traffic" /\ job'.created = {} /\ job'.started = {}
      /\ job'.mode = job.mode /\ job'.kind = job.kind /\ job'.old = job.old
      /\ job'.target = job.target
  BY <1>1 DEF Install, JobState
<1>4. DOMAIN stacks' = DOMAIN stacks \cup job.created
      /\ \A i \in DOMAIN stacks' : stacks'[i].bind = job.target.binds[i]
  <2>1. stacks' = StacksOf(job.target)
    BY <1>1, <1>3 DEF Sound, GInv, Reloading, StacksOf
  <2>2. DOMAIN stacks \cup job.created = DOMAIN job.target.binds
    BY <1>1 DEF GInv, Reloading
  <2> QED BY <2>1, <2>2 DEF StacksOf
<1>5. \A i \in DOMAIN stacks' \cap DOMAIN config.binds : stacks'[i].bind = config.binds[i]
  <2>1. CASE job.mode = "rollback"
    BY <1>1, <1>4, <2>1 DEF Surviving, FaultSpent
  <2>2. CASE job.mode = "forward"
    <3>1. job.created \cap DOMAIN config.binds = {}
          /\ \A i \in DOMAIN stacks \cap DOMAIN config.binds : stacks[i].bind = config.binds[i]
      BY <1>1, <2>2 DEF Surviving, WayBack
    <3>2. \A i \in DOMAIN stacks : stacks[i].bind = job.target.binds[i]
      BY <1>1 DEF GInv, Reloading
    <3> QED BY <1>4, <3>1, <3>2
  <2> QED BY <1>1, <2>1, <2>2, JobIs
<1>6. WayBack' /\ FaultSpent' /\ Starting'
  BY <1>1, <1>2, <1>3, <1>5 DEF Sound, Surviving, WayBack, FaultSpent, Starting
<1> QED BY <1>1, <1>2, <1>3, <1>6, GoesOnSurvives DEF Surviving

\* A forward reload that fails goes back to the configuration, once.
LEMMA RollBackSurvives ==
    ASSUME Sound, RollBack, job.pc \in {"abort", "traffic"}, job.mode = "forward",
           faults' = world.faults, UNCHANGED <<config, stacks, closing>>
    PROVE  Surviving'
<1>1. GInv /\ OneFailure /\ Surviving /\ Typed /\ job \in JobState /\ job.kind # "remove"
  BY JobIs DEF Sound, GInv, Removing
<1>2. job' = Nested /\ UNCHANGED <<clients, outcome, intact>>
  BY DEF RollBack, history
<1>3. /\ job'.pc = "build" /\ job'.mode = "rollback" /\ job'.created = {} /\ job'.started = {}
      /\ job'.target = job.old /\ job'.old = job.old /\ job'.kind = job.kind
  BY <1>2 DEF Nested, NoJob
<1>4. job.old = config
  BY <1>1 DEF Surviving, WayBack
<1>5. AllPlaced'
  BY <1>1, <1>2, <1>3, <1>4 DEF Sound, Surviving, AllPlaced, Placed, Addresses
<1>6. WayBack' /\ FaultSpent' /\ Starting'
  BY <1>1, <1>3, <1>4 DEF Sound, Surviving, WayBack, FaultSpent, Starting
<1> QED BY <1>1, <1>2, <1>5, <1>6 DEF Surviving

\* The end of the reload, and of the way back.
LEMMA LastStepsSurvive ==
    ASSUME Sound, AbortDone \/ RestartTraffic \/ Finish \/ RemoveDone
    PROVE  Surviving'
<1>1. GInv /\ OneFailure /\ Surviving /\ Typed /\ job \in JobState /\ job.mode \in {"forward", "rollback"}
  BY JobIs DEF Sound, GInv
<1>2. CASE AbortDone
  <2>1. job.pc = "abort" /\ RollBack /\ UNCHANGED <<config, stacks, closing, faults>>
    BY <1>2 DEF AbortDone, runtime
  <2>2. job.mode = "forward" /\ faults' = world.faults
    BY <1>1, <2>1 DEF Surviving, FaultSpent
  <2> QED BY <2>1, <2>2, RollBackSurvives
<1>3. CASE RestartTraffic
  <2>1. job.pc = "traffic" /\ UNCHANGED <<config, stacks, closing>>
    BY <1>3 DEF RestartTraffic
  <2>2. CASE job' = [job EXCEPT !.pc = "finish"] /\ UNCHANGED <<clients, faults, history>>
    <3>1. /\ job'.pc = "finish" /\ job'.started = job.started /\ job'.created = job.created
          /\ job'.mode = job.mode /\ job'.kind = job.kind /\ job'.old = job.old
          /\ job'.target = job.target
      BY <1>1, <2>2 DEF JobState
    <3>2. WayBack' /\ FaultSpent' /\ Starting'
      BY <1>1, <2>1, <2>2, <3>1 DEF Sound, Surviving, WayBack, FaultSpent, Starting
    <3> QED BY <1>1, <2>1, <2>2, <3>1, <3>2, GoesOnSurvives DEF history, Surviving
  <2>3. CASE Fault("traffic") /\ RollBack
    <3>1. job.mode = "forward" /\ faults' = world.faults
      BY <1>1, <2>3, NoSecondFault, FaultIsLast
    <3> QED BY <2>1, <2>3, <3>1, RollBackSurvives
  <2> QED BY <1>3, <2>2, <2>3 DEF RestartTraffic
<1>4. CASE Finish
  <2>1. /\ config' = job.target /\ job' = NoJob /\ closing' = closing
        /\ clients' = [clients EXCEPT ![job.client] = Idle] /\ job.pc = "finish"
        /\ outcome' \in {"ok", "rolled_back"} /\ intact'
    BY <1>1, <1>4 DEF Finish, End, IntactAfter
  <2>2. Placed(config') /\ closing' = {}
    BY <1>1, <2>1 DEF Surviving, AllPlaced
  <2> QED BY <2>1, <2>2, EndSurvives
<1>5. CASE RemoveDone
  <2>1. /\ config' = job.target /\ job' = NoJob /\ closing' = closing
        /\ clients' = [clients EXCEPT ![job.client] = Idle] /\ job.pc = "shutdown"
        /\ outcome' = "removed" /\ intact' = intact
    BY <1>5 DEF RemoveDone, End, runtime
  <2>2. Placed(config') /\ closing' = {} /\ intact'
    BY <1>1, <2>1 DEF Surviving, AllPlaced
  <2> QED BY <2>1, <2>2, EndSurvives
<1> QED BY <1>2, <1>3, <1>4, <1>5

\* Every step of a gateway that one step fails in.
LEMMA NextSurvives ==
    ASSUME Sound, [Next]_vars
    PROVE  Surviving'
<1>1. world.clients \subseteq Clients /\ OneFailure
  BY Constants DEF Sound, GInv, Typed
<1>2. ASSUME NEW c \in world.clients, Command(c) \/ TakeLock(c) \/ Cancel(c) PROVE Surviving'
  BY <1>1, <1>2, CommandSurvives, TakeLockSurvives, NoCancel
<1>3. CASE JobStep
  <2>1. ASSUME NEW i \in Ids,
               \/ PrepareStack(i) \/ CreateStack(i) \/ ShutdownStack(i)
               \/ StartStack(i) \/ AbortStack(i) \/ CommitStack(i)
        PROVE  Surviving'
    BY <2>1, PrepareStackSurvives, CreateStackSurvives, ShutdownStackSurvives, StartStackSurvives,
       CommitStackSurvives
  <2>2. ASSUME SwapTunnels \/ TunnelsDone \/ \E t \in Tunnels : StopTunnel(t) \/ StartTunnel(t)
        PROVE  Surviving'
    BY <2>2, OutsideSurvives DEF SwapTunnels, TunnelsDone, StopTunnel, StartTunnel
  <2> QED BY <1>3, <2>1, <2>2, BuildSurvives, RetainSurvives, StartingSurvives, InstallSurvives,
             LastStepsSurvive DEF JobStep
<1> QED BY <1>2, <1>3, OutsideSurvives DEF Next

\* A gateway that has just started.
LEMMA InitSurvives ==
    ASSUME Init
    PROVE  Surviving
<1>1. file \in world.files /\ config = file /\ job = NoJob /\ clients = [c \in Clients |-> Idle]
      /\ closing = {} /\ intact = TRUE /\ outcome = "none"
  BY DEF Init
<1>2. job.pc = "none" /\ job.mode = "forward" /\ job.started = {}
  BY <1>1, Placeholders
<1>3. Placed(config)
  BY <1>1 DEF Placed, Addresses
<1>4. AllPlaced
  BY <1>1, <1>2, <1>3, Placeholders DEF AllPlaced
<1>5. WayBack /\ FaultSpent /\ Starting
  BY <1>2 DEF WayBack, FaultSpent, Starting
<1> QED BY <1>1, <1>4, <1>5 DEF Surviving

\* One failure is survived, for any stacks, configurations and commands: where
\* every stack has its own address and gives it back at once, and nothing is cut
\* off, the rollback of reload_inner brings the old configuration back.
THEOREM OneFailureSurvived == Spec => []NeverStranded
<1>1. Init => SInv
  BY InitSurvives DEF SInv
<1>2. GInv /\ GInv' /\ SInv /\ [Next]_vars => SInv'
  <2> SUFFICES ASSUME GInv, GInv', SInv, [Next]_vars, OneFailure' PROVE Surviving'
    BY DEF SInv
  <2>1. world' = world
    BY WorldStays
  <2>2. OneFailure
    BY <2>1 DEF OneFailure, OwnAddresses, Addresses
  <2>3. Sound
    BY <2>1, <2>2 DEF SInv, Sound
  <2> QED BY <2>3, NextSurvives
<1>3. SInv => NeverStranded
  BY DEF SInv, Surviving, NeverStranded
<1> QED BY <1>1, <1>2, <1>3, ReloadInvariance, PTL DEF Spec
=============================================================================

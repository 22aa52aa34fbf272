--------------------------- MODULE GatewayReload ---------------------------
(***************************************************************************)
(* How a gateway changes its configuration while it runs: the control      *)
(* commands of gateway.rs that build a new configuration, reload_inner     *)
(* with its prepare, commit and rollback of stacks, the StackManager of    *)
(* stack.rs, and the services that are replaced after the stacks.          *)
(*                                                                         *)
(* A configuration is [binds, rules, dm]: the bind address of every stack, *)
(* the rules (everything that reaches a stack or a service by being built  *)
(* again) and whether the device manager is enabled.  The same value names *)
(* the generation that a running part was built from.  A rule of a file    *)
(* also stands for a tunnel that its RTCP stacks keep up.                  *)
(***************************************************************************)
EXTENDS Naturals, FiniteSets, Functions

CONSTANTS
    Clients,        \* control connections
    Ids, Binds,     \* stack ids and bind addresses
    Dispatches,     \* [stack id -> bind] of the stacks add_dispatch can make
    Files,          \* the configurations the file may hold
    Rules,          \* rules that commands add, each at most once
    Worlds          \* the environments a behaviour may run in

\* One environment: the files it edits in, the clients, rules and dispatches it
\* uses, the stack ids whose type overrides Stack::shutdown (RTCP), the kinds of
\* fault that happen ("build", "prepare", "create", "start", "traffic", "cancel")
\* and the bounds on commands and faults.
WorldFields ==
    {"files", "clients", "rules", "dispatches", "awaiting", "kinds", "commands", "faults"}

\* The bind addresses of the stacks of a configuration.
Bindings == UNION {[S -> Binds] : S \in SUBSET Ids}

ASSUME ReloadAssumption ==
    /\ Dispatches \in Bindings
    /\ Clients # {} /\ Ids # {} /\ Files # {}
    /\ Files \subseteq [binds : Bindings, rules : SUBSET UNION {f.rules : f \in Files},
                       dm : BOOLEAN]
    /\ \A f \in Files : f.rules \cap Rules = {}
    /\ \A w \in Worlds :
         /\ DOMAIN w = WorldFields
         /\ w.files \subseteq Files /\ w.clients \subseteq Clients
         /\ w.rules \subseteq Rules /\ w.dispatches \subseteq DOMAIN Dispatches
         /\ w.awaiting \subseteq Ids /\ {w.commands, w.faults} \subseteq Nat

VARIABLES
    world,      \* the environment of this behaviour; it never changes
    file,       \* the configuration file and its saved overlay
    config,     \* Gateway.config
    stacks,     \* StackManager.stacks: id -> [bind, rules]
    prepared,   \* prepare_handler of each managed stack that has one: id -> rules
    closing,    \* binds of listeners that were aborted and not yet dropped
    kept,       \* keep_tunnel and keep_tunnel_tasks of each managed stack, with
                \* history: the listed tunnels that a commit which was cut off
                \* left without a task, and whether the last commit was cut off
    swap,       \* the apply_keep_tunnels that a commit awaits
    services,   \* credentials, timers, collections and limiters: their rules
    traffic,    \* the rules of the running traffic service
    devices,    \* whether ConnectionManager has a device manager
    clients,    \* what each control connection waits for
    job,        \* the command that holds reload_lock
    used,       \* rules some command has added
    outcome,    \* how the last command ended
    intact,     \* history: nothing was cut off or failed to roll back since
                \* the last reload that succeeded
    gone,       \* history: command rules that a reload from file has dropped
    commands, faults

vars == <<world, file, config, stacks, prepared, closing, kept, swap, services, traffic,
          devices, clients, job, used, outcome, intact, gone, commands, faults>>

tunnels == <<kept, swap>>
runtime == <<stacks, prepared, closing, services, traffic, devices, tunnels>>
history == <<outcome, intact, gone>>

Drop(f, S) == Restrict(f, DOMAIN f \ S)
Put(f, i, v) == [j \in DOMAIN f \cup {i} |-> IF j = i THEN v ELSE f[j]]
BindsOf(f) == {f[i] : i \in DOMAIN f}

NoUpdates == [i \in {} |-> {}]
NoConfig == CHOOSE f \in Files : TRUE
Idle == [pc |-> "idle", kind |-> "reload", target |-> NoConfig, id |-> CHOOSE i \in Ids : TRUE]
NoJob == [pc |-> "none", client |-> CHOOSE c \in Clients : TRUE, kind |-> "reload",
          mode |-> "forward", target |-> NoConfig, old |-> NoConfig, todo |-> {},
          changed |-> {}, created |-> {}, started |-> {}, removed |-> NoUpdates]

\* The tunnels a stack keeps up under the given rules: only RTCP stacks keep any.
Tunnels == UNION {f.rules : f \in Files}
KeepOf(i, rules) == IF i \in world.awaiting THEN rules \cap Tunnels ELSE {}

\* A stack that has started: start_keep_tunnels has gone through the whole list.
Started(i, rules) ==
    [list |-> KeepOf(i, rules), tasks |-> KeepOf(i, rules), lost |-> {}, torn |-> FALSE]

NoSwap == [step |-> "none", at |-> CHOOSE i \in Ids : TRUE, todo |-> {}]

\* The addresses on which somebody listens: managed stacks, stacks taken out of
\* the manager whose shutdown is still to come, stacks this reload has started,
\* and aborted listeners the runtime has not dropped.
Bound == {stacks[i].bind : i \in DOMAIN stacks} \cup BindsOf(job.removed)
            \cup {job.target.binds[i] : i \in job.started} \cup closing

Fault(kind) ==
    /\ kind \in world.kinds
    /\ faults < world.faults
    /\ faults' = faults + 1

-----------------------------------------------------------------------------
(* Commands build their target before they ask for reload_lock.            *)

Submit(c, kind, target, i) ==
    /\ clients[c].pc = "idle"
    /\ commands < world.commands
    /\ commands' = commands + 1
    /\ clients' = [clients EXCEPT ![c] =
            [pc |-> "wait", kind |-> kind, target |-> target, id |-> i]]
    /\ UNCHANGED <<world, file, config, job, faults, runtime, history>>

\* The "reload" command loads and parses the file.
SubmitReload(c) == Submit(c, "reload", file, Idle.id) /\ UNCHANGED used

\* add_rule, append_rule, insert_rule, set_rule, add_router and start_template
\* clone raw_config, change the copy and parse it.
SubmitRule(c, r) ==
    /\ r \notin used
    /\ used' = used \cup {r}
    /\ Submit(c, "rule", [config EXCEPT !.rules = @ \cup {r}], Idle.id)

\* add_dispatch refuses an id that the configuration already has.
SubmitDispatch(c, i) ==
    /\ i \notin DOMAIN config.binds
    /\ Submit(c, "dispatch", [config EXCEPT !.binds = Put(@, i, Dispatches[i])], Idle.id)
    /\ UNCHANGED used

\* remove_dispatch reads the configuration only under the lock.
SubmitRemove(c, i) == Submit(c, "remove", NoConfig, i) /\ UNCHANGED used

\* The operator changes the file.
EditFile(f) ==
    /\ f # file
    /\ file' = f
    /\ UNCHANGED <<world, config, clients, job, used, commands, faults, runtime, history>>

-----------------------------------------------------------------------------
(* The end of a command: the guard is dropped and the answer is sent.      *)

\* A reload that succeeds leaves nothing of what an earlier one broke.
IntactAfter(how) == CASE how \in {"ok", "rolled_back"} -> TRUE
                      [] how = "rollback_failed" -> FALSE
                      [] OTHER -> intact

End(how) ==
    /\ job' = NoJob
    /\ clients' = [clients EXCEPT ![job.client] = Idle]
    /\ outcome' = how

\* The error of reload_inner, before anything was changed.
Refuse ==
    LET how == IF job.mode = "forward" THEN "refused" ELSE "rollback_failed" IN
    End(how) /\ intact' = IntactAfter(how) /\ gone' = gone

Acquire(c) ==
    /\ job.pc = "none"
    /\ clients[c].pc = "wait"
    /\ clients[c].kind # "remove"
    /\ clients' = [clients EXCEPT ![c].pc = "run"]
    /\ job' = [NoJob EXCEPT !.pc = "build", !.client = c, !.kind = clients[c].kind,
                            !.target = clients[c].target, !.old = config]
    /\ UNCHANGED <<world, file, config, used, commands, faults, runtime, history>>

-----------------------------------------------------------------------------
(* reload_inner, step by step.                                             *)

\* Limiters, certificates, collections, chains, servers: built aside, and any of
\* them may fail.
Build ==
    /\ job.pc = "build"
    /\ \/ /\ job' = [job EXCEPT !.pc = "stacks", !.todo = DOMAIN job.target.binds]
          /\ UNCHANGED <<clients, faults, history>>
       \/ Fault("build") /\ Refuse
    /\ UNCHANGED <<world, file, config, used, commands, runtime>>

\* A managed stack prepares its new handler.  A changed bind is refused; so is
\* what the new handler cannot be built from.  The refusal rolls back the stack
\* and all that were prepared before it.
PrepareStack(i) ==
    /\ job.pc = "stacks"
    /\ i \in job.todo \cap DOMAIN stacks
    /\ \/ /\ stacks[i].bind = job.target.binds[i]
          /\ prepared' = Put(prepared, i, job.target.rules)
          /\ job' = [job EXCEPT !.todo = @ \ {i}, !.changed = @ \cup {i}]
          /\ UNCHANGED <<clients, faults, history>>
       \/ /\ IF stacks[i].bind # job.target.binds[i] THEN UNCHANGED faults ELSE Fault("prepare")
          /\ prepared' = Drop(prepared, job.changed \cup {i})
          /\ Refuse
    /\ UNCHANGED <<world, file, config, stacks, closing, services, traffic, devices, used, commands,
                   tunnels>>

\* A stack the manager does not know is created, and not started yet.
CreateStack(i) ==
    /\ job.pc = "stacks"
    /\ i \in job.todo \ DOMAIN stacks
    /\ \/ /\ job' = [job EXCEPT !.todo = @ \ {i}, !.created = @ \cup {i}]
          /\ UNCHANGED <<clients, prepared, faults, history>>
       \/ /\ Fault("create")
          /\ prepared' = Drop(prepared, job.changed)
          /\ Refuse
    /\ UNCHANGED <<world, file, config, stacks, closing, services, traffic, devices, used, commands,
                   tunnels>>

\* StackManager::retain_with_shutdown takes the obsolete stacks out ...
Retain ==
    LET out == DOMAIN stacks \ DOMAIN job.target.binds IN
    /\ job.pc = "stacks"
    /\ job.todo = {}
    /\ stacks' = Drop(stacks, out)
    /\ prepared' = Drop(prepared, out)
    /\ kept' = Drop(kept, out)
    /\ job' = [job EXCEPT !.pc = "shutdown", !.removed = [i \in out |-> stacks[i].bind]]
    /\ UNCHANGED <<world, file, config, closing, services, traffic, devices, clients, used,
                   commands, faults, history, swap>>

\* What is left of a stack's listener once shutdown was awaited: nothing if the
\* stack overrides it; otherwise Drop has aborted the accept task, which lets go
\* of the port when the runtime gets to it.
AfterShutdown(i, b) == IF i \in world.awaiting THEN closing ELSE closing \cup {b}

\* ... and shuts them down one after the other.
ShutdownStack(i) ==
    /\ job.pc = "shutdown"
    /\ i \in DOMAIN job.removed
    /\ closing' = AfterShutdown(i, job.removed[i])
    /\ job' = [job EXCEPT !.removed = Drop(@, {i})]
    /\ UNCHANGED <<world, file, config, stacks, prepared, services, traffic, devices, clients,
                   used, commands, faults, history, tunnels>>

ShutdownDone ==
    /\ job.pc = "shutdown"
    /\ job.kind # "remove"
    /\ DOMAIN job.removed = {}
    /\ job' = [job EXCEPT !.pc = "start", !.todo = job.created]
    /\ UNCHANGED <<world, file, config, clients, used, commands, faults, runtime, history>>

\* A new stack binds and listens, or fails: then the prepared updates are
\* dropped and the new stacks are to be shut down.
StartStack(i) ==
    /\ job.pc = "start"
    /\ i \in job.todo
    /\ \/ /\ job.target.binds[i] \notin Bound
          /\ job' = [job EXCEPT !.todo = @ \ {i}, !.started = @ \cup {i}]
          /\ UNCHANGED <<prepared, faults>>
       \/ /\ IF job.target.binds[i] \in Bound THEN UNCHANGED faults ELSE Fault("start")
          /\ prepared' = Drop(prepared, job.changed)
          /\ job' = [job EXCEPT !.pc = "abort", !.todo = {}]
    /\ UNCHANGED <<world, file, config, stacks, closing, services, traffic, devices, clients,
                   used, commands, history, tunnels>>

\* Mutant: the new stacks are only dropped, not shut down, before the rollback.
AbortStackMutant(i) ==
    /\ job.pc = "abort" /\ i \in job.started
    /\ closing' = closing \cup {job.target.binds[i]}
    /\ job' = [job EXCEPT !.started = @ \ {i}]
    /\ UNCHANGED <<world, file, config, stacks, prepared, services, traffic, devices, clients,
                   used, commands, faults, history, tunnels>>

AbortStack(i) ==
    /\ job.pc = "abort"
    /\ i \in job.started
    /\ closing' = AfterShutdown(i, job.target.binds[i])
    /\ job' = [job EXCEPT !.started = @ \ {i}]
    /\ UNCHANGED <<world, file, config, stacks, prepared, services, traffic, devices, clients,
                   used, commands, faults, history, tunnels>>

\* Mutant: the rollback calls reload, which asks for the lock it already holds.
NestedMutant == [NoJob EXCEPT !.pc = "lock", !.client = job.client, !.kind = job.kind,
                        !.mode = "rollback", !.target = job.old, !.old = job.old]

\* reload_inner(old_config, false), under the lock this command already holds.
Nested == [NoJob EXCEPT !.pc = "build", !.client = job.client, !.kind = job.kind,
                        !.mode = "rollback", !.target = job.old, !.old = job.old]

\* A forward reload goes back to the old configuration; the rollback itself has
\* no second one.
RollBack == IF job.mode = "forward"
                THEN job' = Nested /\ UNCHANGED <<clients, history>>
                ELSE Refuse

AbortDone ==
    /\ job.pc = "abort"
    /\ job.started = {}
    /\ RollBack
    /\ UNCHANGED <<world, file, config, used, commands, faults, runtime>>

StartDone ==
    /\ job.pc = "start"
    /\ job.todo = {}
    /\ job' = [job EXCEPT !.pc = "commit"]
    /\ UNCHANGED <<world, file, config, clients, used, commands, faults, runtime, history>>

\* commit_update of a changed stack swaps its handler; an RTCP stack goes on to
\* apply_keep_tunnels, which is awaited.
CommitStack(i) ==
    /\ job.pc = "commit"
    /\ swap.step = "none"
    /\ i \in job.changed
    /\ stacks' = [stacks EXCEPT ![i].rules = prepared[i]]
    /\ prepared' = Drop(prepared, {i})
    /\ job' = [job EXCEPT !.changed = @ \ {i}]
    /\ kept' = [kept EXCEPT ![i].torn = FALSE]
    /\ swap' = IF i \in world.awaiting
                 THEN [step |-> "stop", at |-> i, todo |-> kept[i].list \ KeepOf(i, prepared[i])]
                 ELSE NoSwap
    /\ UNCHANGED <<world, file, config, closing, services, traffic, devices, clients, used,
                   commands, faults, history>>

\* Steps of apply_keep_tunnels: everything but the kept tunnels stays.
TunnelStep == UNCHANGED <<world, file, config, stacks, prepared, closing, services, traffic,
                          devices, clients, job, used, commands, faults, history>>

\* A tunnel that is no longer listed is stopped, if it has a task.
StopTunnel(t) ==
    /\ swap.step = "stop"
    /\ t \in swap.todo
    /\ kept' = [kept EXCEPT ![swap.at].tasks = @ \ {t}]
    /\ swap' = [swap EXCEPT !.todo = @ \ {t}]
    /\ TunnelStep

\* The new list is installed, and what the old one did not have is to start.
SwapTunnels ==
    LET k == kept[swap.at]
        new == KeepOf(swap.at, stacks[swap.at].rules)
    IN  /\ swap.step = "stop"
        /\ swap.todo = {}
        /\ kept' = [kept EXCEPT ![swap.at] = [k EXCEPT !.list = new, !.lost = k.lost \cap new]]
        /\ swap' = [swap EXCEPT !.step = "start", !.todo = new \ k.list]
        /\ TunnelStep

StartTunnel(t) ==
    /\ swap.step = "start"
    /\ t \in swap.todo
    /\ kept' = [kept EXCEPT ![swap.at].tasks = @ \cup {t}]
    /\ swap' = [swap EXCEPT !.todo = @ \ {t}]
    /\ TunnelStep

TunnelsDone ==
    /\ swap.step = "start"
    /\ swap.todo = {}
    /\ swap' = NoSwap
    /\ UNCHANGED kept
    /\ TunnelStep

\* From here to the traffic service nothing awaits: the new stacks enter the
\* manager; credentials, limits, timers, collections and limiters are replaced.
Install ==
    /\ job.pc = "commit"
    /\ swap.step = "none"
    /\ job.changed = {}
    /\ stacks' = [i \in DOMAIN stacks \cup job.created |->
                    IF i \in job.created
                      THEN [bind |-> job.target.binds[i], rules |-> job.target.rules]
                      ELSE stacks[i]]
    /\ kept' = [i \in DOMAIN stacks \cup job.created |->
                    IF i \in job.created THEN Started(i, job.target.rules) ELSE kept[i]]
    /\ services' = job.target.rules
    /\ job' = [job EXCEPT !.pc = "traffic", !.created = {}, !.started = {}]
    /\ UNCHANGED <<world, file, config, prepared, closing, traffic, devices, clients, used,
                   commands, faults, history, swap>>

\* Mutant: a traffic service that fails to start is reported and nothing else.
RestartTrafficMutant ==
    /\ job.pc = "traffic"
    /\ \/ /\ traffic' = job.target.rules
          /\ job' = [job EXCEPT !.pc = "finish"]
          /\ UNCHANGED <<clients, faults, history>>
       \/ /\ Fault("traffic") /\ Refuse /\ UNCHANGED traffic
    /\ UNCHANGED <<world, file, config, stacks, prepared, closing, services, devices, used, commands,
                   tunnels>>

\* restart_traffic_service
RestartTraffic ==
    /\ job.pc = "traffic"
    /\ \/ /\ traffic' = job.target.rules
          /\ job' = [job EXCEPT !.pc = "finish"]
          /\ UNCHANGED <<clients, faults, history>>
       \/ /\ Fault("traffic")
          /\ RollBack
          /\ UNCHANGED traffic
    /\ UNCHANGED <<world, file, config, stacks, prepared, closing, services, devices, used, commands,
                   tunnels>>

\* The device manager is replaced when its configuration changed, and the
\* configuration becomes the current one.
Finish ==
    /\ job.pc = "finish"
    /\ devices' = IF job.target.dm # config.dm THEN job.target.dm ELSE devices
    /\ config' = job.target
    /\ LET how == IF job.mode = "forward" THEN "ok" ELSE "rolled_back" IN
       /\ End(how)
       /\ intact' = IntactAfter(how)
       /\ gone' = IF how = "ok" /\ job.kind = "reload"
                    THEN gone \cup ((config.rules \cap Rules) \ job.target.rules)
                    ELSE gone
    /\ UNCHANGED <<world, file, stacks, prepared, closing, services, traffic, used, commands, faults,
                   tunnels>>

-----------------------------------------------------------------------------
(* remove_dispatch takes its stack out itself, without a reload.           *)

RemoveDispatch(c) ==
    /\ job.pc = "none"
    /\ clients[c].pc = "wait"
    /\ clients[c].kind = "remove"
    /\ LET i == clients[c].id IN
       \/ /\ i \notin DOMAIN config.binds
          /\ clients' = [clients EXCEPT ![c] = Idle]
          /\ outcome' = "refused"
          /\ UNCHANGED <<job, stacks, prepared, kept>>
       \/ /\ i \in DOMAIN config.binds
          /\ stacks' = Drop(stacks, {i})
          /\ prepared' = Drop(prepared, {i})
          /\ kept' = Drop(kept, {i})
          /\ job' = [NoJob EXCEPT !.pc = "shutdown", !.client = c, !.kind = "remove",
                        !.target = [config EXCEPT !.binds = Drop(@, {i})],
                        !.removed = [k \in {i} \cap DOMAIN stacks |-> stacks[k].bind]]
          /\ clients' = [clients EXCEPT ![c].pc = "run"]
          /\ UNCHANGED outcome
    /\ UNCHANGED <<world, file, config, closing, services, traffic, devices, used, intact, gone,
                   commands, faults, swap>>

RemoveDone ==
    /\ job.pc = "shutdown"
    /\ job.kind = "remove"
    /\ DOMAIN job.removed = {}
    /\ config' = job.target
    /\ End("removed")
    /\ UNCHANGED <<world, file, used, intact, gone, commands, faults, runtime>>

-----------------------------------------------------------------------------
(* A control connection that goes away drops the future of its command:    *)
(* stacks it held are dropped, prepared updates stay where they are, and   *)
(* the kept tunnels of a stack in its commit stay as they are.             *)

Untouched == job.mode = "forward" /\ job.pc \in {"build", "stacks"}

\* A stack whose commit was cut off: the tunnels it has stopped are still listed,
\* or those it has yet to start are already listed.
CutOff ==
    LET k == kept[swap.at]
        cut == IF swap.step = "stop"
                 THEN k.list \ (KeepOf(swap.at, stacks[swap.at].rules) \cup swap.todo)
                 ELSE swap.todo
    IN  [k EXCEPT !.torn = TRUE, !.lost = k.lost \cup cut]

Cancel(c) ==
    /\ clients[c].pc # "idle"
    /\ Fault("cancel")
    /\ clients' = [clients EXCEPT ![c] = Idle]
    /\ IF clients[c].pc = "run"
         THEN /\ job' = NoJob
              /\ closing' = closing \cup BindsOf(job.removed)
                                    \cup {job.target.binds[i] : i \in job.started}
              /\ outcome' = "cancelled"
              /\ intact' = (intact /\ Untouched)
              /\ swap' = NoSwap
              /\ kept' = IF swap.step = "none"
                           THEN kept
                           ELSE [kept EXCEPT ![swap.at] = CutOff]
         ELSE UNCHANGED <<job, closing, outcome, intact, tunnels>>
    /\ UNCHANGED <<world, file, config, stacks, prepared, services, traffic, devices, used, gone,
                   commands>>

\* The runtime drops an aborted accept task and with it the socket.
Release(b) ==
    /\ b \in closing
    /\ closing' = closing \ {b}
    /\ UNCHANGED <<world, file, config, stacks, prepared, services, traffic, devices, clients, job,
                   used, commands, faults, history, tunnels>>

-----------------------------------------------------------------------------
\* Gateway::start has run: every stack of the boot configuration listens.
Init ==
    /\ world \in Worlds
    /\ file \in world.files
    /\ Cardinality(BindsOf(file.binds)) = Cardinality(DOMAIN file.binds)
    /\ config = file
    /\ stacks = [i \in DOMAIN file.binds |-> [bind |-> file.binds[i], rules |-> file.rules]]
    /\ prepared = NoUpdates /\ closing = {}
    /\ kept = [i \in DOMAIN file.binds |-> Started(i, file.rules)] /\ swap = NoSwap
    /\ services = file.rules /\ traffic = file.rules /\ devices = file.dm
    /\ clients = [c \in Clients |-> Idle] /\ job = NoJob
    /\ used = {} /\ outcome = "none" /\ intact = TRUE /\ gone = {}
    /\ commands = 0 /\ faults = 0

Command(c) ==
    \/ SubmitReload(c)
    \/ \E r \in world.rules : SubmitRule(c, r)
    \/ \E i \in world.dispatches : SubmitDispatch(c, i)
    \/ \E i \in world.dispatches : SubmitRemove(c, i)

TakeLock(c) == Acquire(c) \/ RemoveDispatch(c)

JobStep ==
    \/ Build \/ Retain \/ ShutdownDone \/ AbortDone \/ StartDone
    \/ Install \/ RestartTraffic \/ Finish \/ RemoveDone
    \/ \E i \in Ids : \/ PrepareStack(i) \/ CreateStack(i) \/ ShutdownStack(i)
                      \/ StartStack(i) \/ AbortStack(i) \/ CommitStack(i)
    \/ SwapTunnels \/ TunnelsDone
    \/ \E t \in Tunnels : StopTunnel(t) \/ StartTunnel(t)

Next ==
    \/ \E c \in world.clients : Command(c) \/ TakeLock(c) \/ Cancel(c)
    \/ \E f \in world.files : EditFile(f)
    \/ JobStep
    \/ \E b \in Binds : Release(b)

Spec == Init /\ [][Next]_vars

\* The reload future is polled until it ends, and reload_lock is handed out in
\* the order in which it was asked for.
FairSpec ==
    /\ Spec
    /\ WF_vars(JobStep)
    /\ \A c \in Clients : SF_vars(TakeLock(c))

-----------------------------------------------------------------------------
RuleSets == SUBSET (Rules \cup Tunnels)
KeptState == [list : SUBSET Tunnels, tasks : SUBSET Tunnels, lost : SUBSET Tunnels, torn : BOOLEAN]
SwapState == [step : {"none", "stop", "start"}, at : Ids, todo : SUBSET Tunnels]
IsConfig(c) == /\ DOMAIN c.binds \subseteq Ids /\ BindsOf(c.binds) \subseteq Binds
               /\ c.rules \in RuleSets /\ c.dm \in BOOLEAN

\* Types, and what the lock keeps together: a client runs exactly when the job
\* is its own, and what a job holds is disjoint from the manager.
TypeOK ==
    /\ world \in Worlds /\ file \in world.files /\ IsConfig(config) /\ IsConfig(job.target)
    /\ DOMAIN stacks \subseteq Ids
    /\ \A i \in DOMAIN stacks : stacks[i] \in [bind : Binds, rules : RuleSets]
    /\ DOMAIN prepared \subseteq DOMAIN stacks
    /\ \A i \in DOMAIN prepared : prepared[i] \in RuleSets
    /\ closing \subseteq Binds
    /\ kept \in [DOMAIN stacks -> KeptState] /\ swap \in SwapState
    /\ services \in RuleSets /\ traffic \in RuleSets /\ devices \in BOOLEAN
    /\ \A c \in Clients : clients[c].pc = "run" <=> (job.pc # "none" /\ job.client = c)
    /\ job.started \subseteq job.created /\ job.created \cap DOMAIN stacks = {}
    /\ DOMAIN job.removed \cap DOMAIN stacks = {}
    /\ job.changed \subseteq DOMAIN stacks
    /\ used \subseteq Rules /\ gone \subseteq Rules /\ intact \in BOOLEAN
    /\ commands \in 0..world.commands /\ faults \in 0..world.faults

\* The running parts are those of the configuration.
Applied ==
    /\ stacks = [i \in DOMAIN config.binds |-> [bind |-> config.binds[i],
                                                rules |-> config.rules]]
    /\ services = config.rules /\ traffic = config.rules /\ devices = config.dm

\* The transaction of reload_inner: after a reload that succeeded, was refused or
\* was rolled back, and while the next one is still building, the running stacks
\* and services are those of Gateway.config.  A success repairs whatever an
\* earlier cancelled or stranded reload left, but for the tasks that TunnelsKept
\* speaks of.
ConfigApplied ==
    (intact /\ (job.pc = "none" \/ Untouched)) => Applied

\* The kept tunnels of an RTCP stack follow its configuration: whenever a reload
\* promises it the installed list is the configured one, and a listed tunnel has a
\* running task unless a commit was cut off between stopping and starting it.
\* Such a tunnel stays without a task, since apply_keep_tunnels starts only what
\* the old list did not have: also a later reload that succeeds leaves it so.
TunnelsKept ==
    /\ (intact /\ (job.pc = "none" \/ Untouched)) =>
         \A i \in DOMAIN stacks : kept[i].list = KeepOf(i, config.rules)
    /\ \A i \in DOMAIN stacks :
         (swap.step = "none" \/ swap.at # i) => kept[i].tasks = kept[i].list \ kept[i].lost

\* The device manager is switched at the commit point and nowhere else: it follows
\* Gateway.config through every failure and every cancellation of reload_inner.
DevicesFollowConfig == devices = config.dm

\* A prepared handler that a cancelled reload left behind is never swapped in by
\* a later one: what commit_update installs is what this reload prepared.
CommitsOwnUpdate ==
    \A i \in job.changed : job.pc \in {"stacks", "shutdown", "start", "commit"}
        => (i \in DOMAIN prepared /\ prepared[i] = job.target.rules)

\* The addresses a stack can have in a configuration that began as the file f.
Addresses(f, i) == {f.binds[k] : k \in DOMAIN f.binds \cap {i}}
                     \cup {Dispatches[k] : k \in world.dispatches \cap {i}}

\* No configuration of this environment puts two stacks on one address.
OwnAddresses == \A f \in world.files : \A i, j \in Ids :
                    i # j => Addresses(f, i) \cap Addresses(f, j) = {}

\* One step may fail, nothing is cut off, and every stack has its own address and
\* gives it back at once.
OneFailure == /\ world.faults <= 1 /\ "cancel" \notin world.kinds
              /\ world.awaiting = Ids /\ OwnAddresses

\* One failure is survived: no single fault of a step makes the rollback of
\* reload_inner fail.
NeverStranded == OneFailure => outcome # "rollback_failed"

\* reload_inner is a transaction and its pieces belong to one reload: the running
\* parts follow Gateway.config over failures, rollbacks, cancellations and the
\* reloads after them, no handler prepared by another reload is swapped in, and a
\* kept tunnel is missing only where a commit was cut off.
ReloadSound == TypeOK /\ ConfigApplied /\ DevicesFollowConfig /\ CommitsOwnUpdate /\ TunnelsKept

\* retain_with_shutdown makes way for a replacement stack: when the new stacks of
\* a reload start, none finds its address held by a stack that was taken out.
ReplacementCanBind ==
    job.pc = "start" => \A i \in job.todo : job.target.binds[i] \notin closing

\* A rule that a reload from file has dropped stays dropped: no command that was
\* already on its way brings it back.
UnsavedStaysGone == config.rules \cap gone = {}

\* Every command is answered, although a failed start runs a second reload under
\* the same lock.
CommandsAnswered == \A c \in Clients : clients[c].pc # "idle" ~> clients[c].pc = "idle"

=============================================================================

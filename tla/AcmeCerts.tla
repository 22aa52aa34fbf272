----------------------------- MODULE AcmeCerts -----------------------------
(***************************************************************************)
(* The certificates of one domain: the certificate managers of cert_mgr.rs *)
(* with the order sessions of acme_client.rs.                              *)
(*                                                                         *)
(* A reload of the gateway builds a new manager before the old one is      *)
(* dropped, so several managers work on one domain.  They share the files  *)
(* of the identity and the order lock of the domain; each has a stub with  *)
(* the pair it serves, one task that refreshes or orders, and the          *)
(* responses to the challenges of its sessions.  A certificate is a        *)
(* number; the key with the same number belongs to it.                     *)
(***************************************************************************)
EXTENDS Naturals, FiniteSets

CONSTANTS
    Mgrs, NoMgr,
    MaxCert, MaxOrders,
    Worlds      \* the environments a behaviour may run in

Certs == 1..MaxCert

\* One environment: the managers there may be, the challenge_type of the item
\* ("tls", "http" or "dns"), where faults happen (parts of {"ca", "account", "dns",
\* "files", "process"}), how many certificates somebody else installs, and the
\* bounds on time, faults and new managers.
WorldFields == {"mgrs", "challenge", "faultsAt", "external", "ticks", "faults", "creates"}

ASSUME AcmeAssumption ==
    /\ NoMgr \notin Mgrs /\ {MaxCert, MaxOrders} \subseteq Nat
    /\ \A w \in Worlds :
         /\ DOMAIN w = WorldFields /\ w.mgrs \subseteq Mgrs
         /\ w.challenge \in {"tls", "http", "dns"}
         /\ w.faultsAt \subseteq {"ca", "account", "dns", "files", "process"}
         /\ {w.external, w.ticks, w.faults, w.creates} \subseteq Nat

VARIABLES
    world,  \* the environment of this behaviour; it never changes
    age,    \* of each certificate: "unissued", "fresh", "due" for renewal, "expired"
    files,  \* server.fullchain.pem and server.private.pem; 0 is no file
    lock,   \* the order lock of the domain
    mgrs,   \* the managers, each with its stub and its task
    dns,    \* TXT records at the provider
    dels,   \* deletions of TXT records under way
    lost,   \* history: certificates that were not fetched, or whose task was cut off
    strays, \* history: TXT records that no session and no deletion stands for any more
    orders, ticks, faults, creates, installs

vars == <<world, age, files, lock, mgrs, dns, dels, lost, strays, orders, ticks, faults,
          creates, installs>>
bounds == <<orders, ticks, creates, installs>>

Gone == [alive |-> FALSE, pc |-> "idle", site |-> "first", got |-> 0, chain |-> 0, key |-> 0,
         dir |-> FALSE, kid |-> FALSE, issued |-> 0, tok |-> 0, table |-> {}]

Valid(c) == c \in Certs /\ age[c] \in {"fresh", "due"}

\* CertStub::get_cert
Serving(m) == mgrs[m].alive /\ Valid(mgrs[m].chain)

\* What a manager becomes; its task is at pc.
Goto(m, pc) == mgrs' = [mgrs EXCEPT ![m].pc = pc]

\* A fault of kind k.
Fault(k) == k \in world.faultsAt /\ faults < world.faults /\ faults' = faults + 1

\* The task ends: its guard of the order lock is dropped.
Ended(r) == [r EXCEPT !.pc = "idle", !.issued = 0, !.tok = 0, !.got = 0]
Unlock(m) == lock' = IF lock = m THEN NoMgr ELSE lock

-----------------------------------------------------------------------------
(* Managers.                                                               *)

\* AcmeCertManager::create and add_acme_item, which loads at once.
Create(m) ==
    /\ m \in world.mgrs /\ mgrs[m] = Gone
    /\ creates < world.creates
    /\ creates' = creates + 1
    /\ mgrs' = [mgrs EXCEPT ![m] = [Gone EXCEPT !.alive = TRUE, !.pc = "read_chain"]]
    /\ UNCHANGED <<world, age, files, lock, dns, dels, lost, strays, orders, ticks, faults,
                   installs>>

\* load_cert by the periodic check: a task that still runs is left alone.
LoadCert(m) ==
    /\ mgrs[m].alive /\ mgrs[m].pc = "idle"
    /\ mgrs' = [mgrs EXCEPT ![m].pc = "read_chain", ![m].site = "first"]
    /\ UNCHANGED <<world, age, files, lock, dns, dels, lost, strays, bounds, faults>>

\* Where a task waits and an abort takes effect; elsewhere it runs on.
Awaiting == {"lock", "directory", "register", "create", "respond", "verify", "finalize",
             "download", "wait"}

\* Drop of the manager: the stub serves nobody any more.
DropManager(m) ==
    /\ mgrs[m].alive
    /\ mgrs' = [mgrs EXCEPT ![m].alive = FALSE]
    /\ UNCHANGED <<world, age, files, lock, dns, dels, lost, strays, bounds, faults>>

\* cancel_load: the task is dropped at its next await.  Its session finds no
\* manager to revert its responses with; the tables are gone, a TXT record is not.
Cancelled(m) ==
    /\ ~mgrs[m].alive
    /\ mgrs[m] # Gone
    /\ mgrs[m].pc \in Awaiting \cup {"idle"}
    /\ mgrs' = [mgrs EXCEPT ![m] = Gone]
    /\ Unlock(m)
    /\ lost' = lost \cup ({mgrs[m].issued} \ {0})
    /\ strays' = strays \cup (dns \cap {mgrs[m].tok})
    /\ UNCHANGED <<world, age, files, dns, dels, bounds, faults>>

\* The process ends anywhere, between two renames too.
Crash ==
    /\ Fault("process")
    /\ lost' = lost \cup ({mgrs[m].issued : m \in Mgrs} \ {0})
    /\ mgrs' = [m \in Mgrs |-> Gone]
    /\ lock' = NoMgr /\ dels' = {} /\ strays' = dns
    /\ UNCHANGED <<world, age, files, dns, bounds>>

-----------------------------------------------------------------------------
(* refresh_cert: the two files are read one after the other.               *)

ReadChain(m) ==
    /\ mgrs[m].pc = "read_chain"
    /\ mgrs' = [mgrs EXCEPT ![m].pc = "read_key", ![m].got = files.chain]
    /\ UNCHANGED <<world, age, files, lock, dns, dels, lost, strays, bounds, faults>>

\* Mutant: the key is not compared with the certificate.
ValidPairMutant(c, k) == Valid(c) /\ k # 0

\* validate_identity_certificate: the certificate is valid and the key is its own.
ValidPair(c, k) == Valid(c) /\ c = k

\* The stub serves the pair, or nothing; and whether an order is needed.
Needed(c, k) == ~ValidPair(c, k) \/ age[c] = "due"

\* Mutant: the wait only looks at the files.
FollowingMutant(r) ==
    CASE r.site = "first" -> {"lock"}
      [] r.site = "loop" -> {IF r.issued = 0 THEN "directory" ELSE "stage"}
      [] r.site = "wait" -> {"wait"}

\* start_order and wait_for_retry: what follows when an order is needed.
Following(r) ==
    CASE r.site = "first" -> {"lock"}
      [] r.site = "loop" -> {IF r.issued = 0 THEN "directory" ELSE "stage"}
      [] r.site = "wait" -> {"wait", "read_chain"}

\* Mutant: a certificate that is due for renewal is not served any more.
ReadKeyMutant(m) ==
    LET r == mgrs[m]  k == files.key
        s == [r EXCEPT !.chain = IF Needed(r.got, k) THEN 0 ELSE k,
                       !.key = IF Needed(r.got, k) THEN 0 ELSE k] IN
    /\ r.pc = "read_key"
    /\ IF Needed(r.got, k)
         THEN /\ \E pc \in Following(r) :
                    mgrs' = [mgrs EXCEPT ![m] = [s EXCEPT !.pc = pc, !.site =
                        IF pc = "read_chain" THEN "loop" ELSE @]]
              /\ UNCHANGED <<lock, lost>>
         ELSE /\ mgrs' = [mgrs EXCEPT ![m] = Ended(s)]
              /\ Unlock(m)
              /\ lost' = lost \cup ({r.issued} \ {0})
    /\ UNCHANGED <<world, age, files, dns, dels, strays, bounds, faults>>

ReadKey(m) ==
    LET r == mgrs[m]  k == files.key
        s == [r EXCEPT !.chain = IF ValidPair(r.got, k) THEN r.got ELSE 0,
                       !.key = IF ValidPair(r.got, k) THEN k ELSE 0] IN
    /\ r.pc = "read_key"
    /\ IF Needed(r.got, k)
         THEN /\ \E pc \in Following(r) :
                    mgrs' = [mgrs EXCEPT ![m] = [s EXCEPT !.pc = pc, !.site =
                        IF pc = "read_chain" THEN "loop" ELSE @]]
              /\ UNCHANGED <<lock, lost>>
         ELSE /\ mgrs' = [mgrs EXCEPT ![m] = Ended(s)]
              /\ Unlock(m)
              /\ lost' = lost \cup ({r.issued} \ {0})
    /\ UNCHANGED <<world, age, files, dns, dels, strays, bounds, faults>>

\* The guard, then the files once more: another manager may have installed.
Lock(m) ==
    /\ mgrs[m].alive /\ mgrs[m].pc = "lock" /\ lock = NoMgr
    /\ lock' = m
    /\ mgrs' = [mgrs EXCEPT ![m].pc = "read_chain", ![m].site = "loop"]
    /\ UNCHANGED <<world, age, files, dns, dels, lost, strays, bounds, faults>>

\* wait_for_retry looks at the files every minute until its time has come.
Wake(m) ==
    /\ mgrs[m].alive /\ mgrs[m].pc = "wait"
    /\ mgrs' = [mgrs EXCEPT ![m].pc = "read_chain", ![m].site = "wait"]
    /\ UNCHANGED <<world, age, files, lock, dns, dels, lost, strays, bounds, faults>>

-----------------------------------------------------------------------------
(* AcmeOrderSession::start.                                                *)

At(m, pc) == mgrs[m].alive /\ mgrs[m].pc = pc

\* get_directory keeps the directory before the account is registered: after a
\* failed registration it is not tried again.
GetDirectory(m) ==
    /\ At(m, "directory")
    /\ \/ /\ mgrs[m].dir /\ Goto(m, "create") /\ UNCHANGED faults
       \/ /\ ~mgrs[m].dir /\ UNCHANGED faults
          /\ mgrs' = [mgrs EXCEPT ![m].dir = TRUE, ![m].pc = "register"]
       \/ /\ ~mgrs[m].dir /\ Fault("ca") /\ Goto(m, "wait")
    /\ UNCHANGED <<world, age, files, lock, dns, dels, lost, strays, bounds>>

RegisterAccount(m) ==
    /\ At(m, "register")
    /\ \/ /\ mgrs' = [mgrs EXCEPT ![m].kid = TRUE, ![m].pc = "create"] /\ UNCHANGED faults
       \/ /\ Fault("account") /\ Goto(m, "wait")
    /\ UNCHANGED <<world, age, files, lock, dns, dels, lost, strays, bounds>>

\* The authority answers an order only to a registered account.
CreateOrder(m) ==
    /\ At(m, "create")
    /\ \/ /\ mgrs[m].kid /\ orders < MaxOrders
          /\ orders' = orders + 1
          /\ mgrs' = [mgrs EXCEPT ![m].pc = "respond", ![m].tok = orders + 1]
          /\ UNCHANGED faults
       \/ /\ ~mgrs[m].kid /\ Goto(m, "wait") /\ UNCHANGED <<orders, faults>>
       \/ /\ mgrs[m].kid /\ Fault("ca") /\ Goto(m, "wait") /\ UNCHANGED orders
    /\ UNCHANGED <<world, age, files, lock, dns, dels, lost, strays, ticks, creates, installs>>

\* get_challenge and respond_challenge: a certificate under the domain's name, an
\* answer under its token, or a record at the provider.  A call of the provider may
\* fail after the record was added; the session has no entry of it then.
RespondChallenge(m) ==
    LET t == mgrs[m].tok
        Failed == mgrs' = [mgrs EXCEPT ![m].pc = "wait", ![m].tok = 0] IN
    /\ At(m, "respond")
    /\ \/ /\ mgrs' = [mgrs EXCEPT ![m].pc = "verify", ![m].table =
                CASE world.challenge = "tls" -> {t} [] world.challenge = "http" -> @ \cup {t} [] OTHER -> @]
          /\ dns' = IF world.challenge = "dns" THEN dns \cup {t} ELSE dns
          /\ UNCHANGED <<strays, faults>>
       \/ Fault("ca") /\ Failed /\ UNCHANGED <<dns, strays>>
       \/ /\ world.challenge = "dns" /\ Fault("dns") /\ Failed
          /\ \E added \in {{}, {t}} : dns' = dns \cup added /\ strays' = strays \cup added
    /\ UNCHANGED <<world, age, files, lock, dels, lost, bounds>>

\* revert_challenge: an http answer is looked up under the domain, where none is.
Reverted(r) == [r EXCEPT !.tok = 0, !.table = IF world.challenge = "tls" THEN {} ELSE @]
Deletions(m) == IF world.challenge = "dns" THEN {mgrs[m].tok} ELSE {}

\* The session ends, its responses are reverted, and the task goes on at pc with
\* the certificate c or none.
EndSession(m, pc, c) ==
    /\ dels' = dels \cup Deletions(m)
    /\ mgrs' = [mgrs EXCEPT ![m] = [Reverted(@) EXCEPT !.pc = pc, !.issued = c]]

\* propagation_delay, verify_challenge and poll_authorization.
Verify(m) ==
    /\ At(m, "verify")
    /\ \/ Goto(m, "finalize") /\ UNCHANGED <<dels, faults>>
       \/ Fault("ca") /\ EndSession(m, "wait", 0)
    /\ UNCHANGED <<world, age, files, lock, dns, lost, strays, bounds>>

\* finalize_order: the authority issues.  When its answer is lost, or is that the
\* certificate is not ready yet, the certificate is given up as in Download.
Finalize(m) ==
    /\ At(m, "finalize")
    /\ \/ \E c \in Certs :
            /\ age[c] = "unissued" /\ \A d \in Certs : d < c => age[d] # "unissued"
            /\ age' = [age EXCEPT ![c] = "fresh"]
            /\ mgrs' = [mgrs EXCEPT ![m].pc = "download", ![m].issued = c]
            /\ UNCHANGED <<dels, faults>>
       \/ Fault("ca") /\ EndSession(m, "wait", 0) /\ UNCHANGED age
    /\ UNCHANGED <<world, files, lock, dns, lost, strays, bounds>>

\* download_certificate: one that cannot be fetched is given up, and the retry
\* orders another.
Download(m) ==
    /\ At(m, "download")
    /\ \/ EndSession(m, "stage", mgrs[m].issued) /\ UNCHANGED <<lost, faults>>
       \/ /\ Fault("ca") /\ EndSession(m, "wait", 0)
          /\ lost' = lost \cup {mgrs[m].issued}
    /\ UNCHANGED <<world, age, files, lock, dns, strays, bounds>>

\* The spawned call of the provider; a failure of it is only logged.
DeleteRecord(t) ==
    /\ t \in dels
    /\ dels' = dels \ {t}
    /\ \/ dns' = dns \ {t} /\ UNCHANGED <<strays, faults>>
       \/ Fault("dns") /\ strays' = strays \cup {t} /\ UNCHANGED dns
    /\ UNCHANGED <<world, age, files, lock, mgrs, lost, bounds>>

-----------------------------------------------------------------------------
(* install_identity_certificate: everything is staged, then renamed file   *)
(* by file, the chain before the key.  Nothing in it awaits.               *)

\* prepare_identity_certificate validates; a certificate that expired while it
\* could not be installed is tried again all the same.
Stage(m) ==
    /\ mgrs[m].pc = "stage"
    /\ \/ Valid(mgrs[m].issued) /\ Goto(m, "rename_chain") /\ UNCHANGED faults
       \/ ~Valid(mgrs[m].issued) /\ Goto(m, "wait") /\ UNCHANGED faults
       \/ Valid(mgrs[m].issued) /\ Fault("files") /\ Goto(m, "wait")
    /\ UNCHANGED <<world, age, files, lock, dns, dels, lost, strays, bounds>>

RenameChain(m) ==
    /\ mgrs[m].pc = "rename_chain"
    /\ \/ /\ files' = [files EXCEPT !.chain = mgrs[m].issued]
          /\ Goto(m, "rename_key") /\ UNCHANGED faults
       \/ Fault("files") /\ Goto(m, "wait") /\ UNCHANGED files
    /\ UNCHANGED <<world, age, lock, dns, dels, lost, strays, bounds>>

RenameKey(m) ==
    /\ mgrs[m].pc = "rename_key"
    /\ \/ /\ files' = [files EXCEPT !.key = mgrs[m].issued]
          /\ Goto(m, "installed") /\ UNCHANGED faults
       \/ Fault("files") /\ Goto(m, "wait") /\ UNCHANGED files
    /\ UNCHANGED <<world, age, lock, dns, dels, lost, strays, bounds>>

\* The directories are synchronised, and the stub serves what was issued.
Installed(m) ==
    /\ mgrs[m].pc = "installed"
    /\ \/ /\ mgrs' = [mgrs EXCEPT ![m] =
                Ended([@ EXCEPT !.chain = mgrs[m].issued, !.key = mgrs[m].issued])]
          /\ Unlock(m) /\ UNCHANGED faults
       \/ Fault("files") /\ Goto(m, "wait") /\ UNCHANGED lock
    /\ UNCHANGED <<world, age, files, dns, dels, lost, strays, bounds>>

-----------------------------------------------------------------------------
(* The world.                                                              *)

\* Time passes for a certificate; one that was issued earlier expires earlier.
Tick(c) ==
    /\ ticks < world.ticks
    /\ \A d \in 1..(c - 1) : age[d] # age[c]
    /\ ticks' = ticks + 1
    /\ \/ age[c] = "fresh" /\ age' = [age EXCEPT ![c] = "due"]
       \/ age[c] = "due" /\ age' = [age EXCEPT ![c] = "expired"]
    /\ UNCHANGED <<world, files, lock, mgrs, dns, dels, lost, strays, orders, faults,
                   creates, installs>>

\* Somebody else installs a pair.
InstallExternal(c) ==
    /\ installs < world.external
    /\ installs' = installs + 1
    /\ age[c] = "unissued" /\ \A d \in Certs : d < c => age[d] # "unissued"
    /\ age' = [age EXCEPT ![c] = "fresh"]
    /\ files' = [chain |-> c, key |-> c]
    /\ UNCHANGED <<world, lock, mgrs, dns, dels, lost, strays, orders, ticks, faults, creates>>

Init ==
    /\ world \in Worlds
    /\ age = [c \in Certs |-> "unissued"]
    /\ files = [chain |-> 0, key |-> 0]
    /\ lock = NoMgr /\ mgrs = [m \in Mgrs |-> Gone]
    /\ dns = {} /\ dels = {} /\ lost = {} /\ strays = {}
    /\ orders = 0 /\ ticks = 0 /\ faults = 0 /\ creates = 0 /\ installs = 0

Task(m) ==
    \/ ReadChain(m) \/ ReadKey(m) \/ Lock(m) \/ Wake(m) \/ GetDirectory(m) \/ RegisterAccount(m)
    \/ CreateOrder(m) \/ RespondChallenge(m) \/ Verify(m) \/ Finalize(m) \/ Download(m)
    \/ Stage(m) \/ RenameChain(m) \/ RenameKey(m) \/ Installed(m) \/ Cancelled(m)

Next ==
    \/ \E m \in Mgrs : Create(m) \/ LoadCert(m) \/ DropManager(m) \/ Task(m)
    \/ Crash
    \/ \E t \in 1..MaxOrders : DeleteRecord(t)
    \/ \E c \in Certs : Tick(c) \/ InstallExternal(c)

Spec == Init /\ [][Next]_vars

\* The retry time comes: a look at the files while waiting is followed by the loop.
RetryDue(m) == ReadKey(m) /\ mgrs'[m].pc # "wait"

\* Tasks are polled, the order lock is fair, the periodic check comes again, and
\* requests do not fail for ever (faults are bounded).
FairSpec ==
    /\ Spec
    /\ \A m \in Mgrs : /\ WF_vars(Task(m)) /\ SF_vars(Lock(m))
                       /\ SF_vars(RetryDue(m)) /\ SF_vars(LoadCert(m))
    /\ \A t \in 1..MaxOrders : WF_vars(DeleteRecord(t))

-----------------------------------------------------------------------------
\* Types, and the order lock: its holder is the one task that orders or installs.
Ordering == {"directory", "register", "create", "respond", "verify", "finalize", "download",
             "stage", "rename_chain", "rename_key", "installed", "wait"}
TypeOK ==
    /\ world \in Worlds
    /\ age \in [Certs -> {"unissued", "fresh", "due", "expired"}]
    /\ files \in [chain : 0..MaxCert, key : 0..MaxCert]
    /\ \A m \in Mgrs :
        /\ mgrs[m].pc \in Ordering \cup {"idle", "lock", "read_chain", "read_key"}
        /\ {mgrs[m].chain, mgrs[m].key, mgrs[m].issued, mgrs[m].got} \subseteq 0..MaxCert
        /\ mgrs[m].table \cup {mgrs[m].tok} \subseteq 0..MaxOrders
        /\ mgrs[m].pc \in Ordering => lock = m
    /\ lock \in Mgrs \cup {NoMgr} /\ dns \cup dels \cup strays \subseteq 1..MaxOrders

\* A manager serves a certificate with its own key only, however its reads fall
\* between the renames of another manager or after a cut-off installation.
PairServed == \A m \in Mgrs : mgrs[m].chain = mgrs[m].key

\* Concurrent managers issue once: while a certificate is new, no second one is
\* ordered, unless the first could not be fetched or its task was cut off, or
\* somebody else installs certificates too.
IssuedOnce ==
    world.external = 0 => Cardinality({c \in Certs \ lost : age[c] = "fresh"}) <= 1

\* The chain and the key on disk belong together, except between the two renames of
\* an installation and after one that failed or was cut off there.  Another program
\* that installs at the same time may mix its pair with theirs.
Broken == files.chain # files.key /\ \A m \in Mgrs : mgrs[m].pc # "rename_key"
WholeFiles ==
    world.external = 0 /\ Broken => faults > 0 /\ world.faultsAt \cap {"files", "process"} # {}

\* A manager stops serving a certificate that is valid, or takes an older one, only
\* when it looks at files that a failed installation left broken, or when it looks
\* without the order lock while another manager installs (refresh_cert at the start
\* of start_order).  Nobody else writes the files.
Overlapped(m) ==
    /\ mgrs[m].pc = "read_key" /\ mgrs[m].site = "first"
    /\ mgrs[m].got # files.key /\ world.mgrs # {m}
KeepsServing == [][\A m \in Mgrs :
    world.external = 0 /\ Serving(m) /\ mgrs'[m].alive /\ age' = age
            /\ ~Broken /\ ~Overlapped(m)
        => Valid(mgrs'[m].chain) /\ mgrs'[m].chain >= mgrs[m].chain]_vars

\* What the comment on the first look of start_order promises, and the code does not
\* keep: a certificate that is valid is served whoever else renews it.
ServesThroughout == [][\A m \in Mgrs :
    Serving(m) /\ mgrs'[m].alive /\ age' = age => Valid(mgrs'[m].chain)]_vars

\* What the comment on respond_logs promises of every answer in a table; an http
\* answer does not keep it.
SessionOf(m, t) == mgrs[m].alive /\ mgrs[m].tok = t
AnswersReverted == \A m \in Mgrs : \A t \in mgrs[m].table : SessionOf(m, t) \/ ~mgrs[m].alive

\* A response to a challenge is gone when its session is, or its deletion is under
\* way (revert_challenge), unless it is an http answer.  A TXT record stays behind
\* in three cases only: a call of the provider failed, the session was cut off after
\* its manager was dropped, or the process ended.
ResponsesReverted ==
    /\ world.challenge # "http" => AnswersReverted
    /\ \A t \in dns : t \in dels \/ t \in strays \/ \E m \in Mgrs : mgrs[m].tok = t

\* Managers, order sessions and the crashes of the process leave each served pair,
\* the number of certificates, the files and the responses to challenges as they
\* should be.
CertsSound == TypeOK /\ PairServed /\ IssuedOnce /\ WholeFiles /\ ResponsesReverted

\* A manager comes to serve, whatever was cut off before, or it is dropped, as
\* long as the registration of its account does not fail.  One case is left out:
\* order_inner installs again what it was issued, for ever, when that expires
\* before it could be installed.
Stuck(m) == mgrs[m].issued # 0 /\ age[mgrs[m].issued] = "expired"
EventuallyServing ==
    \A m \in Mgrs : (mgrs[m].alive /\ "account" \notin world.faultsAt)
                        ~> (Serving(m) \/ ~mgrs[m].alive \/ Stuck(m))
=============================================================================

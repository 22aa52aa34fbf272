-------------------------- MODULE AcmeCertsProofs --------------------------
(***************************************************************************)
(* Proofs about AcmeCerts: for any number of managers, certificates and    *)
(* orders CertsSound holds in every state, and a manager stops serving a   *)
(* valid certificate only where KeepsServing says.                         *)
(*                                                                         *)
(* The inductive invariant AInv says which tasks hold the order lock       *)
(* (HoldInv), what a session has with the lock (SessionInv), who answers   *)
(* for a TXT record (RecordInv), where every new certificate is (OnceInv), *)
(* that certificates age in the order of their issue (AgeInv), and that    *)
(* the files hold what any manager serves or something newer (NewestInv).  *)
(***************************************************************************)
EXTENDS AcmeCerts, FiniteSetTheorems, TLAPS

Pcs == Ordering \cup {"idle", "lock", "read_chain", "read_key"}
Ages == {"unissued", "fresh", "due", "expired"}
Manager ==
    [alive : BOOLEAN, pc : Pcs, site : {"first", "loop", "wait"}, got : 0..MaxCert,
     chain : 0..MaxCert, key : 0..MaxCert, dir : BOOLEAN, kid : BOOLEAN,
     issued : 0..MaxCert, tok : 0..MaxOrders, table : SUBSET (0..MaxOrders)]

(***************************************************************************)
(* The inductive invariant                                                 *)
(***************************************************************************)
Typed ==
    /\ world \in Worlds
    /\ age \in [Certs -> Ages]
    /\ files \in [chain : 0..MaxCert, key : 0..MaxCert]
    /\ lock \in Mgrs \cup {NoMgr}
    /\ mgrs \in [Mgrs -> Manager]
    /\ dns \subseteq 1..orders /\ dels \subseteq 1..MaxOrders /\ strays \subseteq 1..MaxOrders
    /\ orders \in 0..MaxOrders /\ installs \in Nat /\ faults \in Nat

\* The tasks that hold the order lock: the ones that read again under it too.
Holds(m) ==
    \/ mgrs[m].pc \in Ordering
    \/ mgrs[m].pc \in {"read_chain", "read_key"} /\ mgrs[m].site # "first"

HoldInv == \A m \in Mgrs : lock = m <=> Holds(m)

Requesting == {"directory", "register", "create", "respond", "verify", "finalize"}
HasCert == {"download", "stage", "rename_chain", "rename_key", "installed"}
Answered == {"verify", "finalize", "download"}

\* What an order session has: a certificate only with the lock, and a token only
\* between its order and the download of its certificate.
SessionInv ==
    \A m \in Mgrs :
        /\ mgrs[m].issued # 0 => Holds(m)
        /\ mgrs[m].pc \in Requesting => mgrs[m].issued = 0
        /\ mgrs[m].pc \in HasCert => mgrs[m].issued # 0
        /\ mgrs[m].tok # 0 <=> mgrs[m].pc \in {"respond"} \cup Answered
        /\ mgrs[m].tok <= orders
        /\ mgrs[m].pc = "respond" => mgrs[m].tok \notin dns
        /\ world.challenge # "http" =>
             \/ mgrs[m].table = {}
             \/ /\ world.challenge = "tls" /\ mgrs[m].pc \in Answered
                /\ mgrs[m].table = {mgrs[m].tok}

\* The TXT records, and the managers there may be.
RecordInv ==
    /\ world.challenge # "dns" => dns = {}
    /\ \A m \in Mgrs : m \notin world.mgrs => mgrs[m] = Gone
    /\ \A t \in dns : t \in dels \/ t \in strays \/ \E m \in Mgrs : mgrs[m].tok = t

\* New certificates that nobody lost.
Fresh == {c \in Certs \ lost : age[c] = "fresh"}

\* A new certificate is with the session that ordered it or in both files, and
\* whoever requests one has seen, under the lock, that there is none.
OnceInv ==
    world.external = 0 =>
        /\ \A c \in Fresh :
             \/ lock # NoMgr /\ mgrs[lock].issued = c
             \/ /\ files.chain = c /\ files.key = c
                /\ \A m \in Mgrs : mgrs[m].issued = 0
        /\ \A m \in Mgrs :
             /\ mgrs[m].pc \in Requesting => Fresh = {}
             /\ mgrs[m].pc = "read_key" /\ mgrs[m].site # "first" => mgrs[m].got = files.chain
             /\ mgrs[m].pc \in {"rename_key", "installed"} => files.chain = mgrs[m].issued
             /\ mgrs[m].pc = "installed" => files.key = mgrs[m].issued

Rank(a) == CASE a = "unissued" -> 0 [] a = "fresh" -> 1 [] a = "due" -> 2 [] OTHER -> 3

\* Certificates are issued and expire in their order, and what is on disk or in a
\* session was issued.
AgeInv ==
    /\ \A c, d \in Certs : c < d => Rank(age[d]) <= Rank(age[c])
    /\ files.chain # 0 => age[files.chain] # "unissued"
    /\ files.key # 0 => age[files.key] # "unissued"
    /\ \A m \in Mgrs : mgrs[m].issued # 0 => age[mgrs[m].issued] # "unissued"

\* What m serves is at most as new as the chain on disk and as the one it looks at,
\* and what it was issued is at least as new.
Newest(m) ==
    /\ mgrs[m].chain <= files.chain
    /\ mgrs[m].pc = "read_key" => mgrs[m].chain <= mgrs[m].got
    /\ mgrs[m].issued # 0 => files.chain <= mgrs[m].issued
    /\ mgrs[m].pc = "read_key" /\ world.mgrs = {m} => mgrs[m].got = files.chain

\* An installation may have been cut off.
Harmed == faults > 0 /\ world.faultsAt \cap {"files", "process"} # {}

NewestInv ==
    world.external = 0 =>
        /\ files.key <= files.chain
        /\ \A m \in Mgrs : Newest(m)
        /\ Broken => Harmed

AInv ==
    /\ Typed
    /\ HoldInv
    /\ SessionInv
    /\ PairServed
    /\ RecordInv
    /\ OnceInv
    /\ AgeInv
    /\ NewestInv

(***************************************************************************)
(* What a step changes                                                     *)
(***************************************************************************)
\* Only the manager m changes, to these local variables.
Now(m, alive, pc, site, got, chain, key, issued, tok, table) ==
    /\ mgrs' \in [Mgrs -> Manager]
    /\ \A n \in Mgrs : n # m => mgrs'[n] = mgrs[n]
    /\ mgrs'[m].alive = alive /\ mgrs'[m].pc = pc /\ mgrs'[m].site = site
    /\ mgrs'[m].got = got /\ mgrs'[m].chain = chain /\ mgrs'[m].key = key
    /\ mgrs'[m].issued = issued /\ mgrs'[m].tok = tok /\ mgrs'[m].table = table

\* The task of m is at another step.
Moved(m, pc, site) ==
    Now(m, mgrs[m].alive, pc, site, mgrs[m].got, mgrs[m].chain, mgrs[m].key, mgrs[m].issued,
        mgrs[m].tok, mgrs[m].table)

\* A step of m inside the process: files, certificates and records stay.
Quiet == UNCHANGED <<age, files, dns, dels, strays, orders>>

\* The lock is dropped if m has it, and what m was issued is lost.
Dropped(m) ==
    /\ lock' = IF lock = m THEN NoMgr ELSE lock
    /\ lost' = lost \cup ({mgrs[m].issued} \ {0})

\* The steps of a task that only move it, from one step to another.
Walk(m) ==
    /\ Quiet /\ UNCHANGED lost /\ mgrs[m] # Gone
    /\ \/ /\ mgrs[m].pc = "idle" /\ Moved(m, "read_chain", "first") /\ UNCHANGED lock
       \/ /\ mgrs[m].pc = "lock" /\ lock = NoMgr /\ lock' = m /\ Moved(m, "read_chain", "loop")
       \/ /\ mgrs[m].pc = "wait" /\ Moved(m, "read_chain", "wait") /\ UNCHANGED lock
       \/ /\ \/ mgrs[m].pc = "directory" /\ mgrs'[m].pc \in {"create", "register", "wait"}
             \/ mgrs[m].pc = "register" /\ mgrs'[m].pc \in {"create", "wait"}
             \/ mgrs[m].pc = "create" /\ mgrs'[m].pc = "wait"
             \/ mgrs[m].pc = "verify" /\ mgrs'[m].pc = "finalize"
             \/ mgrs[m].pc = "stage" /\ mgrs'[m].pc \in {"rename_chain", "wait"}
             \/ mgrs[m].pc \in {"rename_chain", "installed"} /\ mgrs'[m].pc = "wait"
             \/ /\ mgrs[m].pc = "rename_key" /\ mgrs'[m].pc = "wait"
                /\ "files" \in world.faultsAt /\ faults' > 0
          /\ Moved(m, mgrs'[m].pc, mgrs[m].site) /\ UNCHANGED lock

\* The manager m comes or goes.
Born(m) ==
    /\ Quiet /\ UNCHANGED <<lock, lost>> /\ mgrs[m] = Gone /\ m \in world.mgrs
    /\ Now(m, TRUE, "read_chain", "first", 0, 0, 0, 0, 0, {})

Orphaned(m) ==
    /\ Quiet /\ UNCHANGED <<lock, lost>> /\ mgrs[m] # Gone
    /\ Now(m, FALSE, mgrs[m].pc, mgrs[m].site, mgrs[m].got, mgrs[m].chain, mgrs[m].key,
           mgrs[m].issued, mgrs[m].tok, mgrs[m].table)

Ceased(m) ==
    /\ UNCHANGED <<age, files, dns, dels, orders>> /\ Dropped(m)
    /\ strays' = strays \cup (dns \cap {mgrs[m].tok})
    /\ mgrs' \in [Mgrs -> Manager] /\ mgrs[m] # Gone /\ mgrs[m].pc # "rename_key"
    /\ \A n \in Mgrs : n # m => mgrs'[n] = mgrs[n]
    /\ mgrs'[m] = Gone

Crashed ==
    /\ "process" \in world.faultsAt /\ faults' > 0
    /\ UNCHANGED <<age, files, dns, orders>> /\ strays' = dns
    /\ lost' = lost \cup ({mgrs[m].issued : m \in Mgrs} \ {0})
    /\ mgrs' = [m \in Mgrs |-> Gone] /\ lock' = NoMgr /\ dels' = {}

\* refresh_cert.
SawChain(m) ==
    /\ Quiet /\ UNCHANGED <<lock, lost>> /\ mgrs[m].pc = "read_chain"
    /\ Now(m, mgrs[m].alive, "read_key", mgrs[m].site, files.chain, mgrs[m].chain, mgrs[m].key,
           mgrs[m].issued, mgrs[m].tok, mgrs[m].table)

Served(m) == IF ValidPair(mgrs[m].got, files.key) THEN files.key ELSE 0

SawKey(m) ==
    /\ Quiet /\ mgrs[m].pc = "read_key"
    /\ \/ /\ Needed(mgrs[m].got, files.key) /\ UNCHANGED <<lock, lost>>
          /\ Now(m, mgrs[m].alive, mgrs'[m].pc, mgrs'[m].site, mgrs[m].got, Served(m), Served(m),
                 mgrs[m].issued, mgrs[m].tok, mgrs[m].table)
          /\ \/ mgrs[m].site = "first" /\ mgrs'[m].pc = "lock"
             \/ /\ mgrs[m].site = "loop" /\ mgrs'[m].site = "loop"
                /\ mgrs'[m].pc = IF mgrs[m].issued = 0 THEN "directory" ELSE "stage"
             \/ mgrs[m].site = "wait" /\ mgrs'[m].pc = "wait"
             \/ mgrs[m].site = "wait" /\ mgrs'[m].pc = "read_chain" /\ mgrs'[m].site = "loop"
       \/ /\ ~Needed(mgrs[m].got, files.key) /\ Dropped(m)
          /\ Now(m, mgrs[m].alive, "idle", mgrs[m].site, 0, Served(m), Served(m), 0, 0,
                 mgrs[m].table)

\* AcmeOrderSession::start.
Ordered(m) ==
    /\ UNCHANGED <<age, files, dns, dels, strays, lock, lost>> /\ mgrs[m].pc = "create"
    /\ orders < MaxOrders /\ orders' = orders + 1
    /\ Now(m, mgrs[m].alive, "respond", mgrs[m].site, mgrs[m].got, mgrs[m].chain, mgrs[m].key,
           mgrs[m].issued, orders + 1, mgrs[m].table)

Responded(m) ==
    /\ UNCHANGED <<age, files, dels, orders, lock, lost>> /\ mgrs[m].pc = "respond"
    /\ \/ /\ Now(m, mgrs[m].alive, "verify", mgrs[m].site, mgrs[m].got, mgrs[m].chain,
                 mgrs[m].key, mgrs[m].issued, mgrs[m].tok, mgrs'[m].table)
          /\ world.challenge = "tls" => mgrs'[m].table = {mgrs[m].tok}
          /\ world.challenge = "dns" => mgrs'[m].table = mgrs[m].table
          /\ dns' = IF world.challenge = "dns" THEN dns \cup {mgrs[m].tok} ELSE dns
          /\ UNCHANGED strays
       \/ /\ Now(m, mgrs[m].alive, "wait", mgrs[m].site, mgrs[m].got, mgrs[m].chain,
                 mgrs[m].key, mgrs[m].issued, 0, mgrs[m].table)
          /\ \/ UNCHANGED <<dns, strays>>
             \/ /\ world.challenge = "dns" /\ dns' = dns \cup {mgrs[m].tok}
                /\ strays' = strays \cup {mgrs[m].tok}

\* The session ends with its responses; the task goes on with the certificate c.
Closed(m, pc, c) ==
    /\ UNCHANGED <<age, files, dns, strays, orders, lock>>
    /\ dels' = dels \cup Deletions(m)
    /\ Now(m, mgrs[m].alive, pc, mgrs[m].site, mgrs[m].got, mgrs[m].chain, mgrs[m].key, c, 0,
           IF world.challenge = "tls" THEN {} ELSE mgrs[m].table)

Refused(m) ==
    /\ mgrs[m].pc \in {"verify", "finalize"} /\ UNCHANGED lost /\ Closed(m, "wait", 0)

Fetched(m) == mgrs[m].pc = "download" /\ UNCHANGED lost /\ Closed(m, "stage", mgrs[m].issued)

Unfetched(m) ==
    /\ mgrs[m].pc = "download" /\ lost' = lost \cup {mgrs[m].issued} /\ Closed(m, "wait", 0)

NewCert(c) ==
    /\ age[c] = "unissued" /\ \A d \in Certs : d < c => age[d] # "unissued"
    /\ age' = [age EXCEPT ![c] = "fresh"]

\* finalize_order.
Granted(m, c) ==
    /\ UNCHANGED <<files, dns, dels, strays, orders, lock, lost>> /\ mgrs[m].pc = "finalize"
    /\ NewCert(c)
    /\ Now(m, mgrs[m].alive, "download", mgrs[m].site, mgrs[m].got, mgrs[m].chain, mgrs[m].key, c,
           mgrs[m].tok, mgrs[m].table)

\* install_identity_certificate.
ChainRenamed(m) ==
    /\ UNCHANGED <<age, dns, dels, strays, orders, lock, lost>> /\ mgrs[m].pc = "rename_chain"
    /\ files' = [files EXCEPT !.chain = mgrs[m].issued]
    /\ Moved(m, "rename_key", mgrs[m].site)

KeyRenamed(m) ==
    /\ UNCHANGED <<age, dns, dels, strays, orders, lock, lost>> /\ mgrs[m].pc = "rename_key"
    /\ files' = [files EXCEPT !.key = mgrs[m].issued]
    /\ Moved(m, "installed", mgrs[m].site)

Finished(m) ==
    /\ Quiet /\ UNCHANGED lost /\ mgrs[m].pc = "installed"
    /\ lock' = IF lock = m THEN NoMgr ELSE lock
    /\ Now(m, mgrs[m].alive, "idle", mgrs[m].site, 0, mgrs[m].issued, mgrs[m].issued, 0, 0,
           mgrs[m].table)

\* Time, deletions and other programs.
Aged(c) ==
    /\ UNCHANGED <<files, lock, mgrs, dns, dels, strays, lost, orders>>
    /\ \A d \in 1..(c - 1) : age[d] # age[c]
    /\ \/ age[c] = "fresh" /\ age' = [age EXCEPT ![c] = "due"]
       \/ age[c] = "due" /\ age' = [age EXCEPT ![c] = "expired"]

Deleted(t) ==
    /\ dels' = dels \ {t}
    /\ \/ dns' = dns \ {t} /\ UNCHANGED strays
       \/ strays' = strays \cup {t} /\ UNCHANGED dns
    /\ UNCHANGED <<age, files, lock, mgrs, lost, orders>>

Foreign(c) ==
    /\ world.external # 0 /\ NewCert(c) /\ files' = [chain |-> c, key |-> c]
    /\ UNCHANGED <<lock, mgrs, dns, dels, strays, lost, orders>>

\* Every step is one of these.
MgrStep(m) ==
    \/ Walk(m) \/ Born(m) \/ Orphaned(m) \/ Ceased(m) \/ SawChain(m) \/ SawKey(m)
    \/ Ordered(m) \/ Responded(m) \/ Refused(m) \/ Fetched(m) \/ Unfetched(m)
    \/ (\E c \in Certs : Granted(m, c))
    \/ ChainRenamed(m) \/ KeyRenamed(m) \/ Finished(m)

Step ==
    /\ world' = world /\ installs' \in Nat /\ faults' \in Nat /\ faults' >= faults
    /\ \/ \E m \in Mgrs : MgrStep(m)
       \/ Crashed
       \/ \E t \in 1..MaxOrders : Deleted(t)
       \/ \E c \in Certs : Aged(c) \/ Foreign(c)

\* The assumptions on the constants, in the form the proofs use.
LEMMA Constants ==
    /\ NoMgr \notin Mgrs /\ MaxCert \in Nat /\ MaxOrders \in Nat
    /\ \A w \in Worlds : /\ w.mgrs \subseteq Mgrs /\ w.challenge \in {"tls", "http", "dns"}
                         /\ w.external \in Nat
BY AcmeAssumption

\* The fields of a manager that is not there.
LEMMA GoneIs ==
    /\ Gone \in Manager
    /\ ~Gone.alive /\ Gone.pc = "idle" /\ Gone.site = "first" /\ Gone.got = 0 /\ Gone.chain = 0
    /\ Gone.key = 0 /\ Gone.issued = 0 /\ Gone.tok = 0 /\ Gone.table = {}
BY Constants DEF Gone, Manager, Pcs, Ordering

\* Steps that only move a task.
LEMMA WalkStep ==
    ASSUME Typed, NEW m \in Mgrs, NEW pc \in Pcs, NEW site \in {"first", "loop", "wait"},
           mgrs' = [mgrs EXCEPT ![m].pc = pc, ![m].site = site]
    PROVE  Moved(m, pc, site)
BY DEF Typed, Manager, Moved, Now

\* Goto moves the task and nothing else.
LEMMA GotoStep ==
    ASSUME Typed, NEW m \in Mgrs, NEW pc \in Pcs, Goto(m, pc)
    PROVE  Moved(m, pc, mgrs[m].site) /\ mgrs'[m].pc = pc
BY DEF Typed, Manager, Moved, Now, Goto

\* Every manager has its type.
LEMMA MgrTyped ==
    ASSUME Typed, NEW m \in Mgrs
    PROVE  mgrs[m] \in Manager
BY DEF Typed

\* A manager that is alive or has a task is there.
LEMMA NotGone ==
    ASSUME NEW m, mgrs[m].alive \/ mgrs[m].pc # "idle"
    PROVE  mgrs[m] # Gone
BY GoneIs

\* Each action is one of the steps above.
LEMMA TaskIsStep ==
    ASSUME Typed, NEW m \in Mgrs, Task(m)
    PROVE  MgrStep(m)
<1>t. mgrs[m] \in Manager
  BY MgrTyped
<1>z. 0 \in 0..MaxCert /\ 0 \in 0..MaxOrders /\ {} \subseteq 0..MaxOrders
  BY Constants
<1>1. CASE ReadChain(m)
  <2>1. SawChain(m)
    BY <1>1, <1>t DEF ReadChain, SawChain, Typed, Manager, Now, Quiet, bounds, Pcs, Ordering
  <2> QED BY <2>1 DEF MgrStep
<1>2. CASE ReadKey(m)
  <2> DEFINE r == mgrs[m]
             s == [r EXCEPT !.chain = IF ValidPair(r.got, files.key) THEN r.got ELSE 0,
                            !.key = IF ValidPair(r.got, files.key) THEN files.key ELSE 0]
  <2>1. files.key \in 0..MaxCert
    BY DEF Typed
  <2>2. /\ s \in Manager /\ s.alive = r.alive /\ s.pc = r.pc /\ s.site = r.site /\ s.got = r.got
        /\ s.chain = Served(m) /\ s.key = Served(m) /\ s.issued = r.issued /\ s.tok = r.tok
        /\ s.table = r.table
    BY <1>t, <1>z, <2>1 DEF Manager, ValidPair, Served
  <2> HIDE DEF s
  <2>3. /\ r.pc = "read_key" /\ Quiet
    BY <1>2 DEF ReadKey, Quiet, bounds
  <2>4. CASE Needed(r.got, files.key)
    <3>1. PICK pc \in Following(r) :
            /\ mgrs' = [mgrs EXCEPT ![m] = [s EXCEPT !.pc = pc, !.site =
                            IF pc = "read_chain" THEN "loop" ELSE @]]
            /\ UNCHANGED <<lock, lost>>
      BY <1>2, <2>4 DEF ReadKey, s
    <3>2. \/ r.site = "first" /\ pc = "lock"
          \/ r.site = "loop" /\ pc = IF r.issued = 0 THEN "directory" ELSE "stage"
          \/ r.site = "wait" /\ pc \in {"wait", "read_chain"}
      BY <3>1, <1>t DEF Following, Manager
    <3>3. pc \in Pcs
      BY <3>2 DEF Pcs, Ordering
    <3>4. /\ Now(m, r.alive, mgrs'[m].pc, mgrs'[m].site, r.got, Served(m), Served(m), r.issued,
                 r.tok, r.table)
          /\ mgrs'[m].pc = pc /\ mgrs'[m].site = IF pc = "read_chain" THEN "loop" ELSE r.site
      BY <3>1, <3>3, <2>2 DEF Typed, Manager, Now
    <3>5. SawKey(m)
      BY <2>3, <2>4, <3>1, <3>2, <3>4 DEF SawKey
    <3> QED BY <3>5 DEF MgrStep
  <2>5. CASE ~Needed(r.got, files.key)
    <3>1. mgrs' = [mgrs EXCEPT ![m] = Ended(s)] /\ Dropped(m)
      BY <1>2, <2>5 DEF ReadKey, s, Unlock, Dropped
    <3>2. Now(m, r.alive, "idle", r.site, 0, Served(m), Served(m), 0, 0, r.table)
      BY <3>1, <2>2, <1>z DEF Typed, Manager, Now, Ended, Pcs
    <3>3. SawKey(m)
      BY <2>3, <2>5, <3>1, <3>2 DEF SawKey
    <3> QED BY <3>3 DEF MgrStep
  <2> QED BY <2>4, <2>5
<1>3. CASE Lock(m)
  <2>1. Moved(m, "read_chain", "loop")
    BY <1>3, WalkStep DEF Lock, Pcs
  <2>2. Walk(m)
    BY <1>3, <2>1, NotGone DEF Lock, Walk, Quiet, bounds
  <2> QED BY <2>2 DEF MgrStep
<1>4. CASE Wake(m)
  <2>1. Moved(m, "read_chain", "wait")
    BY <1>4, WalkStep DEF Wake, Pcs
  <2>2. Walk(m)
    BY <1>4, <2>1, NotGone DEF Wake, Walk, Quiet, bounds
  <2> QED BY <2>2 DEF MgrStep
<1>5. CASE GetDirectory(m)
  <2>1. \E pc \in {"create", "register", "wait"} : Moved(m, pc, mgrs[m].site) /\ mgrs'[m].pc = pc
    <3>1. CASE mgrs[m].dir /\ Goto(m, "create")
      BY <3>1, GotoStep DEF Pcs, Ordering
    <3>2. CASE mgrs' = [mgrs EXCEPT ![m].dir = TRUE, ![m].pc = "register"]
      BY <3>2, <1>t DEF Typed, Manager, Now, Moved, Pcs, Ordering
    <3>3. CASE Goto(m, "wait")
      BY <3>3, GotoStep DEF Pcs, Ordering
    <3> QED BY <1>5, <3>1, <3>2, <3>3 DEF GetDirectory
  <2>2. Walk(m)
    BY <1>5, <2>1, NotGone DEF GetDirectory, At, Walk, Quiet, bounds
  <2> QED BY <2>2 DEF MgrStep
<1>6. CASE RegisterAccount(m)
  <2>1. \E pc \in {"create", "wait"} : Moved(m, pc, mgrs[m].site) /\ mgrs'[m].pc = pc
    <3>1. CASE mgrs' = [mgrs EXCEPT ![m].kid = TRUE, ![m].pc = "create"]
      BY <3>1, <1>t DEF Typed, Manager, Now, Moved, Pcs, Ordering
    <3>2. CASE Goto(m, "wait")
      BY <3>2, GotoStep DEF Pcs, Ordering
    <3> QED BY <1>6, <3>1, <3>2 DEF RegisterAccount
  <2>2. Walk(m)
    BY <1>6, <2>1, NotGone DEF RegisterAccount, At, Walk, Quiet, bounds
  <2> QED BY <2>2 DEF MgrStep
<1>7. CASE CreateOrder(m)
  <2>1. CASE Goto(m, "wait") /\ UNCHANGED orders
    <3>1. Moved(m, "wait", mgrs[m].site) /\ mgrs'[m].pc = "wait"
      BY <2>1, GotoStep DEF Pcs, Ordering
    <3>2. Walk(m)
      BY <1>7, <2>1, <3>1, NotGone DEF CreateOrder, At, Walk, Quiet
    <3> QED BY <3>2 DEF MgrStep
  <2>2. CASE /\ orders < MaxOrders /\ orders' = orders + 1
             /\ mgrs' = [mgrs EXCEPT ![m].pc = "respond", ![m].tok = orders + 1]
    <3>1. orders + 1 \in 0..MaxOrders
      BY <2>2, Constants DEF Typed
    <3>2. Now(m, mgrs[m].alive, "respond", mgrs[m].site, mgrs[m].got, mgrs[m].chain, mgrs[m].key,
              mgrs[m].issued, orders + 1, mgrs[m].table)
      BY <2>2, <3>1, <1>t DEF Typed, Manager, Now, Pcs, Ordering
    <3>3. Ordered(m)
      BY <1>7, <2>2, <3>2 DEF CreateOrder, At, Ordered
    <3> QED BY <3>3 DEF MgrStep
  <2> QED BY <1>7, <2>1, <2>2 DEF CreateOrder
<1>8. CASE RespondChallenge(m)
  <2> DEFINE t == mgrs[m].tok
             tab == CASE world.challenge = "tls" -> {t}
                      [] world.challenge = "http" -> mgrs[m].table \cup {t}
                      [] OTHER -> mgrs[m].table
  <2>1. tab \in SUBSET (0..MaxOrders)
    BY <1>t DEF Manager
  <2>2. CASE /\ mgrs' = [mgrs EXCEPT ![m].pc = "verify", ![m].table = tab]
             /\ dns' = IF world.challenge = "dns" THEN dns \cup {t} ELSE dns
             /\ UNCHANGED strays
    <3>1. /\ world.challenge = "tls" => tab = {t}
          /\ world.challenge = "dns" => tab = mgrs[m].table
      OBVIOUS
    <3> HIDE DEF tab
    <3>2. /\ Now(m, mgrs[m].alive, "verify", mgrs[m].site, mgrs[m].got, mgrs[m].chain,
                 mgrs[m].key, mgrs[m].issued, mgrs[m].tok, mgrs'[m].table)
          /\ mgrs'[m].table = tab
      BY <2>1, <2>2, <1>t DEF Typed, Manager, Now, Pcs, Ordering
    <3>3. Responded(m)
      BY <1>8, <2>2, <3>1, <3>2 DEF RespondChallenge, At, Responded, bounds
    <3> QED BY <3>3 DEF MgrStep
  <2>3. CASE /\ mgrs' = [mgrs EXCEPT ![m].pc = "wait", ![m].tok = 0]
             /\ \/ UNCHANGED <<dns, strays>>
                \/ /\ world.challenge = "dns" /\ dns' = dns \cup {t}
                   /\ strays' = strays \cup {t}
    <3>1. Now(m, mgrs[m].alive, "wait", mgrs[m].site, mgrs[m].got, mgrs[m].chain,
              mgrs[m].key, mgrs[m].issued, 0, mgrs[m].table)
      BY <2>3, <1>t, <1>z DEF Typed, Manager, Now, Pcs, Ordering
    <3>2. Responded(m)
      BY <1>8, <2>3, <3>1 DEF RespondChallenge, At, Responded, bounds
    <3> QED BY <3>2 DEF MgrStep
  <2>4. ASSUME NEW added \in {{}, {t}}, dns' = dns \cup added, strays' = strays \cup added
        PROVE  UNCHANGED <<dns, strays>> \/ (dns' = dns \cup {t} /\ strays' = strays \cup {t})
    BY <2>4
  <2> QED BY <1>8, <2>2, <2>3, <2>4 DEF RespondChallenge
<1>9. CASE Verify(m) \/ Finalize(m) \/ Download(m)
  <2> DEFINE r == mgrs[m]
             tab == IF world.challenge = "tls" THEN {} ELSE r.table
  <2>1. /\ Reverted(r) \in Manager /\ Reverted(r).alive = r.alive /\ Reverted(r).site = r.site
        /\ Reverted(r).got = r.got /\ Reverted(r).chain = r.chain /\ Reverted(r).key = r.key
        /\ Reverted(r).issued = r.issued /\ Reverted(r).tok = 0 /\ Reverted(r).table = tab
    BY <1>t, <1>z DEF Manager, Reverted
  <2>2. ASSUME NEW pc \in Pcs, NEW c \in 0..MaxCert, EndSession(m, pc, c),
               UNCHANGED <<age, files, dns, strays, orders, lock>>
        PROVE  Closed(m, pc, c)
    <3>1. Now(m, r.alive, pc, r.site, r.got, r.chain, r.key, c, 0, tab)
      BY <2>1, <2>2 DEF EndSession, Typed, Manager, Now
    <3> QED BY <2>2, <3>1 DEF Closed, EndSession
  <2>3. "wait" \in Pcs /\ "stage" \in Pcs /\ "finalize" \in Pcs /\ "download" \in Pcs
    BY DEF Pcs, Ordering
  <2>4. CASE Verify(m)
    <3>1. CASE Goto(m, "finalize") /\ UNCHANGED dels
      <4>1. Moved(m, "finalize", r.site) /\ mgrs'[m].pc = "finalize"
        BY <3>1, <2>3, GotoStep
      <4>2. Walk(m)
        BY <2>4, <3>1, <4>1, NotGone DEF Verify, At, Walk, Quiet, bounds
      <4> QED BY <4>2 DEF MgrStep
    <3>2. CASE EndSession(m, "wait", 0)
      <4>1. Closed(m, "wait", 0)
        BY <2>2, <2>3, <2>4, <3>2, <1>z DEF Verify, bounds
      <4>2. Refused(m)
        BY <2>4, <4>1 DEF Verify, At, Refused
      <4> QED BY <4>2 DEF MgrStep
    <3> QED BY <2>4, <3>1, <3>2 DEF Verify
  <2>5. CASE Finalize(m)
    <3>1. ASSUME NEW c \in Certs,
                 age[c] = "unissued" /\ \A d \in Certs : d < c => age[d] # "unissued",
                 age' = [age EXCEPT ![c] = "fresh"],
                 mgrs' = [mgrs EXCEPT ![m].pc = "download", ![m].issued = c], UNCHANGED dels
          PROVE  MgrStep(m)
      <4>1. c \in 0..MaxCert
        BY DEF Certs
      <4>2. Now(m, r.alive, "download", r.site, r.got, r.chain, r.key, c, r.tok, r.table)
        BY <1>t, <2>3, <3>1, <4>1 DEF Typed, Manager, Now
      <4>3. NewCert(c)
        BY <3>1 DEF NewCert
      <4>4. Granted(m, c)
        BY <2>5, <3>1, <4>2, <4>3 DEF Finalize, At, Granted, bounds
      <4> QED BY <4>4 DEF MgrStep
    <3>2. CASE EndSession(m, "wait", 0) /\ UNCHANGED age
      <4>1. Closed(m, "wait", 0)
        BY <2>2, <2>3, <2>5, <3>2, <1>z DEF Finalize, bounds
      <4>2. Refused(m)
        BY <2>5, <4>1 DEF Finalize, At, Refused
      <4> QED BY <4>2 DEF MgrStep
    <3> QED BY <2>5, <3>1, <3>2 DEF Finalize
  <2>6. CASE Download(m)
    <3>1. r.issued \in 0..MaxCert
      BY <1>t DEF Manager
    <3>2. CASE EndSession(m, "stage", r.issued) /\ UNCHANGED lost
      <4>1. Closed(m, "stage", r.issued)
        BY <2>2, <2>3, <2>6, <3>1, <3>2 DEF Download, bounds
      <4>2. Fetched(m)
        BY <2>6, <3>2, <4>1 DEF Download, At, Fetched
      <4> QED BY <4>2 DEF MgrStep
    <3>3. CASE EndSession(m, "wait", 0) /\ lost' = lost \cup {r.issued}
      <4>1. Closed(m, "wait", 0)
        BY <2>2, <2>3, <2>6, <3>3, <1>z DEF Download, bounds
      <4>2. Unfetched(m)
        BY <2>6, <3>3, <4>1 DEF Download, At, Unfetched
      <4> QED BY <4>2 DEF MgrStep
    <3> QED BY <2>6, <3>2, <3>3 DEF Download
  <2> QED BY <1>9, <2>4, <2>5, <2>6
<1>10. CASE Stage(m)
  <2>1. \E pc \in {"rename_chain", "wait"} : Moved(m, pc, mgrs[m].site) /\ mgrs'[m].pc = pc
    BY <1>10, GotoStep DEF Stage, Pcs, Ordering
  <2>2. Walk(m)
    BY <1>10, <2>1, NotGone DEF Stage, Walk, Quiet, bounds
  <2> QED BY <2>2 DEF MgrStep
<1>11. CASE RenameChain(m)
  <2>1. CASE Fault("files") /\ Goto(m, "wait") /\ UNCHANGED files
    <3>1. Moved(m, "wait", mgrs[m].site) /\ mgrs'[m].pc = "wait"
      BY <2>1, GotoStep DEF Pcs, Ordering
    <3>2. Walk(m)
      BY <1>11, <2>1, <3>1, NotGone DEF RenameChain, Walk, Quiet, bounds, Fault
    <3> QED BY <3>2 DEF MgrStep
  <2>2. CASE files' = [files EXCEPT !.chain = mgrs[m].issued] /\ Goto(m, "rename_key")
    <3>1. Moved(m, "rename_key", mgrs[m].site)
      BY <2>2, GotoStep DEF Pcs, Ordering
    <3>2. ChainRenamed(m)
      BY <1>11, <2>2, <3>1 DEF RenameChain, ChainRenamed, bounds
    <3> QED BY <3>2 DEF MgrStep
  <2> QED BY <1>11, <2>1, <2>2 DEF RenameChain
<1>12. CASE RenameKey(m)
  <2>1. CASE Fault("files") /\ Goto(m, "wait") /\ UNCHANGED files
    <3>1. Moved(m, "wait", mgrs[m].site) /\ mgrs'[m].pc = "wait"
      BY <2>1, GotoStep DEF Pcs, Ordering
    <3>2. Walk(m)
      BY <1>12, <2>1, <3>1, NotGone DEF RenameKey, Walk, Quiet, bounds, Fault, Typed
    <3> QED BY <3>2 DEF MgrStep
  <2>2. CASE files' = [files EXCEPT !.key = mgrs[m].issued] /\ Goto(m, "installed")
    <3>1. Moved(m, "installed", mgrs[m].site)
      BY <2>2, GotoStep DEF Pcs, Ordering
    <3>2. KeyRenamed(m)
      BY <1>12, <2>2, <3>1 DEF RenameKey, KeyRenamed, bounds
    <3> QED BY <3>2 DEF MgrStep
  <2> QED BY <1>12, <2>1, <2>2 DEF RenameKey
<1>13. CASE Installed(m)
  <2>1. CASE Fault("files") /\ Goto(m, "wait") /\ UNCHANGED lock
    <3>1. Moved(m, "wait", mgrs[m].site) /\ mgrs'[m].pc = "wait"
      BY <2>1, GotoStep DEF Pcs, Ordering
    <3>2. Walk(m)
      BY <1>13, <2>1, <3>1, NotGone DEF Installed, Walk, Quiet, bounds, Fault
    <3> QED BY <3>2 DEF MgrStep
  <2>2. CASE /\ mgrs' = [mgrs EXCEPT ![m] =
                  Ended([@ EXCEPT !.chain = mgrs[m].issued, !.key = mgrs[m].issued])]
             /\ Unlock(m)
    <3>1. Now(m, mgrs[m].alive, "idle", mgrs[m].site, 0, mgrs[m].issued, mgrs[m].issued, 0, 0,
              mgrs[m].table)
      BY <2>2, <1>t, <1>z DEF Typed, Manager, Now, Ended, Pcs
    <3>2. Finished(m)
      BY <1>13, <2>2, <3>1 DEF Installed, Finished, Quiet, bounds, Unlock
    <3> QED BY <3>2 DEF MgrStep
  <2> QED BY <1>13, <2>1, <2>2 DEF Installed
<1>14. CASE Cancelled(m)
  <2>1. mgrs[m].pc # "rename_key"
    BY <1>14 DEF Cancelled, Awaiting
  <2>2. Ceased(m)
    BY <1>14, <2>1, GoneIs DEF Cancelled, Typed, Ceased, Dropped, Unlock, Quiet, bounds
  <2> QED BY <2>2 DEF MgrStep
<1> QED BY <1>1, <1>2, <1>3, <1>4, <1>5, <1>6, <1>7, <1>8, <1>9, <1>10, <1>11, <1>12, <1>13,
           <1>14 DEF Task

\* Every step of the specification is one of the steps above.
LEMMA NextIsStep ==
    ASSUME Typed, Next
    PROVE  Step
<1>w. world' = world
  BY DEF Next, Task, Create, LoadCert, DropManager, ReadChain, ReadKey, Lock, Wake, GetDirectory,
         RegisterAccount, CreateOrder, RespondChallenge, Verify, Finalize, Download, Stage,
         RenameChain, RenameKey, Installed, Cancelled, Crash, DeleteRecord, Tick, InstallExternal
<1>i. installs' \in Nat
  <2>1. installs' = installs \/ installs' = installs + 1
    BY DEF Next, Task, Create, LoadCert, DropManager, ReadChain, ReadKey, Lock, Wake,
           GetDirectory, RegisterAccount, CreateOrder, RespondChallenge, Verify, Finalize,
           Download, Stage, RenameChain, RenameKey, Installed, Cancelled, Crash, DeleteRecord,
           Tick, InstallExternal, bounds
  <2> QED BY <2>1 DEF Typed
<1>f. faults' \in Nat /\ faults' >= faults
  <2>1. faults' = faults \/ faults' = faults + 1
    BY DEF Next, Task, Create, LoadCert, DropManager, ReadChain, ReadKey, Lock, Wake,
           GetDirectory, RegisterAccount, CreateOrder, RespondChallenge, Verify, Finalize,
           Download, Stage, RenameChain, RenameKey, Installed, Cancelled, Crash, DeleteRecord,
           Tick, InstallExternal, Fault
  <2> QED BY <2>1 DEF Typed
<1>1. ASSUME NEW m \in Mgrs, Create(m) PROVE MgrStep(m)
  <2>1. Now(m, TRUE, "read_chain", "first", 0, 0, 0, 0, 0, {})
    BY <1>1, GoneIs DEF Create, Typed, Manager, Now, Gone, Pcs
  <2>2. Born(m)
    BY <1>1, <2>1 DEF Create, Born, Quiet
  <2> QED BY <2>2 DEF MgrStep
<1>2. ASSUME NEW m \in Mgrs, LoadCert(m) PROVE MgrStep(m)
  <2>1. Moved(m, "read_chain", "first")
    BY <1>2, WalkStep DEF LoadCert, Pcs
  <2>2. Walk(m)
    BY <1>2, <2>1, NotGone DEF LoadCert, Walk, Quiet, bounds
  <2> QED BY <2>2 DEF MgrStep
<1>3. ASSUME NEW m \in Mgrs, DropManager(m) PROVE MgrStep(m)
  <2>1. Now(m, FALSE, mgrs[m].pc, mgrs[m].site, mgrs[m].got, mgrs[m].chain, mgrs[m].key,
           mgrs[m].issued, mgrs[m].tok, mgrs[m].table)
    BY <1>3 DEF DropManager, Typed, Manager, Now
  <2>2. Orphaned(m)
    BY <1>3, <2>1, NotGone DEF DropManager, Orphaned, Quiet, bounds
  <2> QED BY <2>2 DEF MgrStep
<1>4. CASE Crash
  <2>1. Crashed
    BY <1>4 DEF Crash, Crashed, Fault, bounds, Typed
  <2> QED BY <1>w, <1>i, <1>f, <2>1 DEF Step
<1>5. ASSUME NEW t \in 1..MaxOrders, DeleteRecord(t) PROVE Step
  <2>1. Deleted(t)
    BY <1>5 DEF DeleteRecord, Deleted, bounds
  <2> QED BY <1>w, <1>i, <1>f, <2>1 DEF Step
<1>6. ASSUME NEW c \in Certs, Tick(c) PROVE Step
  <2>1. Aged(c)
    BY <1>6 DEF Tick, Aged
  <2> QED BY <1>w, <1>i, <1>f, <2>1 DEF Step
<1>7. ASSUME NEW c \in Certs, InstallExternal(c) PROVE Step
  <2>1. world.external # 0
    BY <1>7 DEF InstallExternal, Typed
  <2>2. Foreign(c)
    BY <1>7, <2>1 DEF InstallExternal, Foreign, NewCert
  <2> QED BY <1>w, <1>i, <1>f, <2>2 DEF Step
<1>8. ASSUME NEW m \in Mgrs, MgrStep(m) PROVE Step
  BY <1>8, <1>w, <1>i, <1>f DEF Step
<1> QED BY <1>1, <1>2, <1>3, <1>4, <1>5, <1>6, <1>7, <1>8, TaskIsStep DEF Next

(***************************************************************************)
(* Each part of the invariant is kept by every step                        *)
(***************************************************************************)
\* The types.
LEMMA TypedKept ==
    ASSUME AInv, Step
    PROVE  Typed'
<1> USE DEF AInv, Typed
<1>w. world' = world /\ installs' \in Nat /\ faults' \in Nat
  BY DEF Step
<1>c. MaxCert \in Nat /\ MaxOrders \in Nat /\ \A c \in Certs : c \in 0..MaxCert
  BY Constants DEF Certs
<1>m. \A m \in Mgrs : /\ mgrs[m].issued \in 0..MaxCert /\ mgrs[m].tok \in 0..MaxOrders
                      /\ mgrs[m].pc \in {"respond"} \cup Answered => mgrs[m].tok \in 1..orders
  BY DEF Manager, SessionInv
<1>1. ASSUME NEW m \in Mgrs, Walk(m) \/ Born(m) \/ Orphaned(m) \/ SawChain(m)
      PROVE  Typed'
  BY <1>1, <1>w DEF Walk, Born, Orphaned, SawChain, Quiet, Moved, Now
<1>o. dns \subseteq 1..MaxOrders
  BY <1>c
<1>2. ASSUME NEW m \in Mgrs, Ceased(m) \/ SawKey(m) \/ Finished(m) PROVE Typed'
  BY <1>2, <1>w, <1>o DEF Ceased, SawKey, Finished, Quiet, Dropped, Now
<1>3. ASSUME NEW m \in Mgrs, Ordered(m) PROVE Typed'
  BY <1>3, <1>w, <1>c DEF Ordered, Now
<1>4. ASSUME NEW m \in Mgrs, Responded(m) PROVE Typed'
  BY <1>4, <1>w, <1>m DEF Responded, Now
<1>5. ASSUME NEW m \in Mgrs, NEW pc, NEW c, Closed(m, pc, c), mgrs[m].pc \in Answered
      PROVE  Typed'
  <2>1. mgrs[m].tok \in 1..MaxOrders
    BY <1>5, <1>m, <1>c
  <2>2. dels' \subseteq 1..MaxOrders
    BY <1>5, <2>1 DEF Closed, Deletions
  <2> QED BY <1>5, <1>w, <2>2 DEF Closed, Now
<1>6. ASSUME NEW c \in Certs, NewCert(c) PROVE age' \in [Certs -> Ages]
  BY <1>6 DEF NewCert, Ages
<1>g. ASSUME NEW m \in Mgrs, NEW c \in Certs, Granted(m, c) PROVE Typed'
  BY <1>g, <1>w, <1>6 DEF Granted, Now
<1>e. ASSUME NEW m \in Mgrs, Refused(m) \/ Fetched(m) \/ Unfetched(m) PROVE Typed'
  BY <1>e, <1>5 DEF Refused, Fetched, Unfetched, Answered
<1>7. ASSUME NEW m \in Mgrs, ChainRenamed(m) \/ KeyRenamed(m) PROVE Typed'
  BY <1>7, <1>w, <1>m DEF ChainRenamed, KeyRenamed, Moved, Now
<1>8. CASE Crashed
  BY <1>8, <1>w, <1>o, GoneIs DEF Crashed
<1>9. ASSUME NEW t \in 1..MaxOrders, Deleted(t) PROVE Typed'
  BY <1>9, <1>w DEF Deleted
<1>10. ASSUME NEW c \in Certs, Aged(c) PROVE Typed'
  BY <1>10, <1>w DEF Aged, Ages
<1>11. ASSUME NEW c \in Certs, Foreign(c) PROVE Typed'
  BY <1>11, <1>w, <1>c, <1>6 DEF Foreign
<1>12. ASSUME NEW m \in Mgrs, MgrStep(m) PROVE Typed'
  BY <1>12, <1>1, <1>2, <1>3, <1>4, <1>e, <1>g, <1>7 DEF MgrStep
<1> QED BY <1>8, <1>9, <1>10, <1>11, <1>12 DEF Step

\* The holder of the order lock; this lemma and the ones below go through the
\* same steps.
LEMMA HoldKept ==
    ASSUME AInv, Step
    PROVE  HoldInv'
<1> USE DEF AInv, HoldInv, Holds, Ordering
<1>c. NoMgr \notin Mgrs /\ mgrs \in [Mgrs -> Manager]
  BY Constants DEF Typed
<1>1. ASSUME NEW m \in Mgrs, Walk(m) PROVE HoldInv'
  BY <1>1, <1>c DEF Walk, Moved, Now
<1>2. ASSUME NEW m \in Mgrs, Born(m) \/ Orphaned(m) \/ SawChain(m) PROVE HoldInv'
  BY <1>2, <1>c, GoneIs DEF Born, Orphaned, SawChain, Now
<1>3. ASSUME NEW m \in Mgrs, Ceased(m) PROVE HoldInv'
  BY <1>3, <1>c, GoneIs DEF Ceased, Dropped
<1>4. ASSUME NEW m \in Mgrs, SawKey(m) PROVE HoldInv'
  BY <1>4, <1>c DEF SawKey, Now, Dropped
<1>5. ASSUME NEW m \in Mgrs, Ordered(m) \/ Responded(m) PROVE HoldInv'
  BY <1>5, <1>c DEF Ordered, Responded, Now
<1>6. ASSUME NEW m \in Mgrs, NEW c, Granted(m, c) PROVE HoldInv'
  BY <1>6, <1>c DEF Granted, Now
<1>e. ASSUME NEW m \in Mgrs, Refused(m) \/ Fetched(m) \/ Unfetched(m) PROVE HoldInv'
  BY <1>e, <1>c DEF Refused, Fetched, Unfetched, Closed, Now
<1>7. ASSUME NEW m \in Mgrs, ChainRenamed(m) \/ KeyRenamed(m) PROVE HoldInv'
  BY <1>7, <1>c DEF ChainRenamed, KeyRenamed, Moved, Now
<1>8. ASSUME NEW m \in Mgrs, Finished(m) PROVE HoldInv'
  BY <1>8, <1>c DEF Finished, Now
<1>9. CASE Crashed
  BY <1>9, <1>c, GoneIs DEF Crashed
<1>10. ASSUME lock' = lock, mgrs' = mgrs PROVE HoldInv'
  BY <1>10
<1>11. ASSUME NEW m \in Mgrs, MgrStep(m) PROVE HoldInv'
  BY <1>11, <1>1, <1>2, <1>3, <1>4, <1>5, <1>6, <1>e, <1>7, <1>8 DEF MgrStep
<1> QED BY <1>9, <1>10, <1>11 DEF Step, Deleted, Aged, Foreign

\* What a session has.
LEMMA SessionKept ==
    ASSUME AInv, Step
    PROVE  SessionInv'
<1> USE DEF AInv, HoldInv, Holds, Ordering, Requesting, HasCert, Answered, SessionInv
<1>c. NoMgr \notin Mgrs /\ mgrs \in [Mgrs -> Manager] /\ orders \in Nat /\ dns \subseteq 1..orders
      /\ world' = world /\ (\A m \in Mgrs : mgrs[m].tok \in Nat)
      /\ world.challenge \in {"tls", "http", "dns"}
  BY Constants DEF Typed, Step, Manager
<1>1. ASSUME NEW m \in Mgrs, Walk(m) PROVE SessionInv'
  BY <1>1, <1>c DEF Walk, Moved, Now, Quiet
<1>2. ASSUME NEW m \in Mgrs, Born(m) \/ Orphaned(m) \/ SawChain(m) PROVE SessionInv'
  BY <1>2, <1>c, GoneIs DEF Born, Orphaned, SawChain, Now, Quiet
<1>3. ASSUME NEW m \in Mgrs, Ceased(m) PROVE SessionInv'
  BY <1>3, <1>c, GoneIs DEF Ceased, Quiet
<1>4. ASSUME NEW m \in Mgrs, SawKey(m) PROVE SessionInv'
  BY <1>4, <1>c DEF SawKey, Now, Quiet
<1>5. ASSUME NEW m \in Mgrs, Ordered(m) PROVE SessionInv'
  BY <1>5, <1>c DEF Ordered, Now
<1>6. ASSUME NEW m \in Mgrs, Responded(m) PROVE SessionInv'
  <2>1. ASSUME NEW n \in Mgrs, n # m PROVE mgrs[n].pc # "respond"
    BY <2>1, <1>6 DEF Responded
  <2> QED BY <1>6, <1>c, <2>1 DEF Responded, Now
<1>7. ASSUME NEW m \in Mgrs, NEW c \in Certs, Granted(m, c) PROVE SessionInv'
  <2>1. c # 0
    BY Constants DEF Certs
  <2> QED BY <1>7, <1>c, <2>1 DEF Granted, Now
<1>8. ASSUME NEW m \in Mgrs, Refused(m) \/ Fetched(m) \/ Unfetched(m) PROVE SessionInv'
  BY <1>8, <1>c DEF Refused, Fetched, Unfetched, Closed, Now
<1>9. ASSUME NEW m \in Mgrs, ChainRenamed(m) \/ KeyRenamed(m) PROVE SessionInv'
  BY <1>9, <1>c DEF ChainRenamed, KeyRenamed, Moved, Now
<1>10. ASSUME NEW m \in Mgrs, Finished(m) PROVE SessionInv'
  BY <1>10, <1>c DEF Finished, Now, Quiet
<1>11. CASE Crashed
  BY <1>11, <1>c, GoneIs DEF Crashed
<1>12. ASSUME mgrs' = mgrs, orders' = orders, dns' \subseteq dns PROVE SessionInv'
  BY <1>12, <1>c
<1>13. ASSUME NEW m \in Mgrs, MgrStep(m) PROVE SessionInv'
  BY <1>13, <1>1, <1>2, <1>3, <1>4, <1>5, <1>6, <1>7, <1>8, <1>9, <1>10 DEF MgrStep
<1> QED BY <1>11, <1>12, <1>13 DEF Step, Deleted, Aged, Foreign

\* A stub serves a pair.
LEMMA PairKept ==
    ASSUME AInv, Step
    PROVE  PairServed'
<1> USE DEF AInv, PairServed
<1>1. ASSUME NEW m \in Mgrs, MgrStep(m) PROVE PairServed'
  BY <1>1, GoneIs DEF MgrStep, Walk, Born, Orphaned, Ceased, SawChain, SawKey, Ordered, Responded,
     Refused, Fetched, Unfetched, Closed, Granted, ChainRenamed, KeyRenamed, Finished, Moved, Now
<1>2. CASE Crashed
  BY <1>2, GoneIs DEF Crashed
<1> QED BY <1>1, <1>2 DEF Step, Deleted, Aged, Foreign

\* The TXT records.
LEMMA RecordKept ==
    ASSUME AInv, Step
    PROVE  RecordInv'
<1> USE DEF AInv
<1>c. /\ mgrs \in [Mgrs -> Manager] /\ orders \in Nat /\ dns \subseteq 1..orders /\ world' = world
  BY DEF Typed, Step
<1>t. \A m \in Mgrs : /\ mgrs[m].tok # 0 <=> mgrs[m].pc \in {"respond"} \cup Answered
                      /\ mgrs[m].pc = "respond" => mgrs[m].tok \notin dns
  BY DEF SessionInv
<1>z. 0 \notin dns
  BY <1>c
\* A step of a manager of this world that answers for its record, if it has one.
<1>1. ASSUME NEW m \in Mgrs, m \in world.mgrs, dns' = dns, dels \subseteq dels', strays \subseteq strays',
             \A n \in Mgrs : n # m => mgrs'[n] = mgrs[n],
             mgrs[m].tok \in dns =>
                mgrs[m].tok \in dels' \cup strays' \/ mgrs'[m].tok = mgrs[m].tok
      PROVE  RecordInv'
  BY <1>1, <1>c DEF RecordInv
<1>h. ASSUME NEW m \in Mgrs, mgrs[m] # Gone PROVE m \in world.mgrs
  BY <1>h DEF RecordInv
<1>2. ASSUME NEW m \in Mgrs, Walk(m) \/ Orphaned(m) \/ SawChain(m) PROVE RecordInv'
  BY <1>2, <1>1, <1>h, NotGone DEF Walk, Orphaned, SawChain, Moved, Now, Quiet
<1>3. ASSUME NEW m \in Mgrs, SawKey(m) \/ Finished(m) PROVE RecordInv'
  <2>1. mgrs[m].tok = 0
    BY <1>3, <1>t DEF SawKey, Finished, Answered
  <2> QED BY <1>3, <1>1, <1>h, <1>z, <2>1, NotGone DEF SawKey, Finished, Now, Quiet
<1>4. ASSUME NEW m \in Mgrs, ChainRenamed(m) \/ KeyRenamed(m) PROVE RecordInv'
  BY <1>4, <1>1, <1>h, NotGone DEF ChainRenamed, KeyRenamed, Moved, Now
<1>5. ASSUME NEW m \in Mgrs, Ordered(m) PROVE RecordInv'
  <2>1. mgrs[m].tok = 0
    BY <1>5, <1>t DEF Ordered, Answered
  <2> QED BY <1>5, <1>1, <1>h, <1>z, <2>1, NotGone DEF Ordered, Now
<1>6. ASSUME NEW m \in Mgrs, Refused(m) \/ Fetched(m) \/ Unfetched(m) PROVE RecordInv'
  <2>1. mgrs[m].tok \in dns => mgrs[m].tok \in dels'
    BY <1>6 DEF Refused, Fetched, Unfetched, Closed, Deletions, RecordInv
  <2> QED BY <1>6, <1>1, <1>h, <2>1, NotGone DEF Refused, Fetched, Unfetched, Closed, Now
<1>g. ASSUME NEW m \in Mgrs, NEW c, Granted(m, c) PROVE RecordInv'
  BY <1>g, <1>1, <1>h, NotGone DEF Granted, Now
<1>7. ASSUME NEW m \in Mgrs, Responded(m) PROVE RecordInv'
  <2>1. m \in world.mgrs /\ mgrs[m].tok \notin dns
    BY <1>7, <1>t, <1>h, NotGone DEF Responded
  <2>2. /\ dels' = dels /\ strays \subseteq strays'
        /\ \A n \in Mgrs : n # m => mgrs'[n] = mgrs[n]
    BY <1>7 DEF Responded, Now
  <2>3. CASE dns' = dns
    BY <1>1, <2>1, <2>2, <2>3
  <2>4. CASE /\ dns' = dns \cup {mgrs[m].tok} /\ world.challenge = "dns"
             /\ mgrs'[m].tok = mgrs[m].tok \/ mgrs[m].tok \in strays'
    <3>1. ASSUME NEW t \in dns' PROVE t \in dels' \/ t \in strays' \/ \E n \in Mgrs : mgrs'[n].tok = t
      <4>1. CASE t = mgrs[m].tok
        BY <2>4, <4>1
      <4>2. CASE t \in dns
        BY <2>1, <2>2, <4>2 DEF RecordInv
      <4> QED BY <2>4, <4>1, <4>2
    <3> QED BY <1>c, <2>1, <2>2, <2>4, <3>1 DEF RecordInv
  <2> QED BY <1>7, <2>3, <2>4 DEF Responded, Now
<1>8. ASSUME NEW m \in Mgrs, Born(m) PROVE RecordInv'
  <2>1. mgrs[m].tok = 0
    BY <1>8, GoneIs DEF Born
  <2> QED BY <1>8, <1>1, <1>z, <2>1 DEF Born, Now, Quiet
<1>9. ASSUME NEW m \in Mgrs, Ceased(m) PROVE RecordInv'
  BY <1>9, <1>1, <1>h DEF Ceased
<1>10. CASE Crashed
  BY <1>10, <1>c DEF Crashed, RecordInv
<1>11. ASSUME NEW t, Deleted(t) PROVE RecordInv'
  BY <1>11, <1>c DEF Deleted, RecordInv
<1>12. ASSUME NEW c, Aged(c) \/ Foreign(c) PROVE RecordInv'
  BY <1>12, <1>c DEF Aged, Foreign, RecordInv
<1>13. ASSUME NEW m \in Mgrs, MgrStep(m) PROVE RecordInv'
  BY <1>13, <1>2, <1>3, <1>4, <1>5, <1>6, <1>g, <1>7, <1>8, <1>9 DEF MgrStep
<1> QED BY <1>10, <1>11, <1>12, <1>13 DEF Step

\* The order of ages, and that nothing on disk or in a session is unissued.
LEMMA AgeKept ==
    ASSUME AInv, Step
    PROVE  AgeInv'
<1> USE DEF AInv
<1>c. /\ age \in [Certs -> Ages] /\ files \in [chain : 0..MaxCert, key : 0..MaxCert]
      /\ \A m \in Mgrs : mgrs[m].issued \in 0..MaxCert
  BY DEF Typed, Manager
<1>d. MaxCert \in Nat /\ Certs \subseteq Nat /\ 0 \notin Certs
      /\ \A x \in 0..MaxCert : x # 0 => x \in Certs
  BY Constants DEF Certs
\* The order of ages.
<1>1. ASSUME age' = age PROVE \A c, d \in Certs : c < d => Rank(age'[d]) <= Rank(age'[c])
  BY <1>1 DEF AgeInv
<1>2. ASSUME NEW c \in Certs, NewCert(c)
      PROVE  /\ \A a, b \in Certs : a < b => Rank(age'[b]) <= Rank(age'[a])
             /\ \A x \in Certs : age[x] # "unissued" => age'[x] # "unissued"
             /\ age'[c] # "unissued"
  <2>1. ASSUME NEW b \in Certs, c < b PROVE age[b] = "unissued"
    BY <1>2, <2>1, <1>c DEF AgeInv, NewCert, Rank, Ages
  <2>2. ASSUME NEW a \in Certs, NEW b \in Certs, a < b PROVE Rank(age'[b]) <= Rank(age'[a])
    <3>1. CASE a = c
      BY <1>2, <2>1, <2>2, <3>1, <1>c, <1>d DEF NewCert, Rank
    <3>2. CASE b = c
      BY <1>2, <2>2, <3>2, <1>c, <1>d DEF NewCert, Rank, Ages
    <3>3. CASE a # c /\ b # c
      BY <1>2, <2>2, <3>3, <1>c DEF NewCert, AgeInv
    <3> QED BY <3>1, <3>2, <3>3
  <2> QED BY <1>2, <2>2, <1>c DEF NewCert
<1>3. ASSUME NEW c \in Certs, Aged(c)
      PROVE  /\ \A a, b \in Certs : a < b => Rank(age'[b]) <= Rank(age'[a])
             /\ \A x \in Certs : age[x] # "unissued" => age'[x] # "unissued"
  <2>1. ASSUME NEW a \in Certs, a < c PROVE Rank(age'[c]) <= Rank(age[a])
    <3>1. a \in 1..(c - 1)
      BY <2>1 DEF Certs
    <3>2. Rank(age[c]) <= Rank(age[a]) /\ age[a] # age[c]
      BY <1>3, <2>1, <3>1 DEF AgeInv, Aged
    <3> QED BY <1>3, <3>2, <1>c DEF Aged, Rank, Ages
  <2>2. ASSUME NEW b \in Certs, c < b PROVE Rank(age[b]) <= Rank(age'[c])
    <3>1. Rank(age[b]) <= Rank(age[c])
      BY <2>2 DEF AgeInv
    <3> QED BY <1>3, <3>1, <1>c DEF Aged, Rank, Ages
  <2>3. \A x \in Certs : x # c => age'[x] = age[x]
    BY <1>3, <1>c DEF Aged
  <2>4. ASSUME NEW a \in Certs, NEW b \in Certs, a < b PROVE Rank(age'[b]) <= Rank(age'[a])
    <3>1. ~(a = c /\ b = c)
      BY <2>4, <1>d
    <3> QED BY <2>1, <2>2, <2>3, <2>4, <3>1 DEF AgeInv
  <2>5. \A x \in Certs : age[x] # "unissued" => age'[x] # "unissued"
    BY <1>3, <1>c DEF Aged
  <2> QED BY <2>4, <2>5
\* What is on disk or in a session.
<1>4. ASSUME NEW m \in Mgrs, MgrStep(m) PROVE AgeInv'
  <2>1. CASE \E c \in Certs : Granted(m, c)
    <3>1. PICK c \in Certs : Granted(m, c) /\ NewCert(c)
      BY <2>1 DEF Granted
    <3> QED BY <3>1, <1>2, <1>c, <1>d DEF Granted, Now, AgeInv
  <2>2. CASE age' = age
    <3>1. CASE files' = files
      <4>1. \A n \in Mgrs : mgrs'[n].issued \in {0, mgrs[n].issued}
        <5>1. CASE \E c \in Certs : Granted(m, c)
          <6>1. PICK c \in Certs : NewCert(c)
            BY <5>1 DEF Granted
          <6> QED BY <6>1, <2>2, <1>c DEF NewCert
        <5> QED BY <1>4, <5>1, GoneIs DEF MgrStep, Walk, Born, Orphaned, Ceased, SawChain, SawKey,
                   Ordered, Responded, Refused, Fetched, Unfetched, Closed, ChainRenamed,
                   KeyRenamed, Finished, Moved, Now
      <4> QED BY <2>2, <3>1, <4>1, <1>1 DEF AgeInv
    <3>2. CASE ChainRenamed(m) \/ KeyRenamed(m)
      BY <3>2, <1>1, <1>c, <2>2 DEF ChainRenamed, KeyRenamed, Moved, Now, AgeInv
    <3> QED BY <1>4, <3>1, <3>2 DEF MgrStep, Walk, Born, Orphaned, Ceased, SawChain, SawKey,
               Ordered, Responded, Refused, Fetched, Unfetched, Closed, Granted, Finished, Quiet
  <2> QED BY <1>4, <2>1, <2>2 DEF MgrStep, Walk, Born, Orphaned, Ceased, SawChain, SawKey,
             Ordered, Responded, Refused, Fetched, Unfetched, Closed, ChainRenamed, KeyRenamed,
             Finished, Quiet
<1>5. CASE Crashed
  BY <1>5, <1>1, GoneIs DEF Crashed, AgeInv
<1>6. ASSUME NEW t, Deleted(t) PROVE AgeInv'
  BY <1>6, <1>1 DEF Deleted, AgeInv
<1>7. ASSUME NEW c \in Certs, Aged(c) PROVE AgeInv'
  <2>1. files' = files /\ mgrs' = mgrs
    BY <1>7 DEF Aged
  <2> QED BY <1>7, <1>3, <1>c, <1>d, <2>1 DEF AgeInv
<1>8. ASSUME NEW c \in Certs, Foreign(c) PROVE AgeInv'
  <2>1. files' = [chain |-> c, key |-> c] /\ mgrs' = mgrs /\ NewCert(c)
    BY <1>8 DEF Foreign
  <2> QED BY <1>2, <1>c, <1>d, <2>1 DEF AgeInv
<1> QED BY <1>4, <1>5, <1>6, <1>7, <1>8 DEF Step

\* Where a new certificate is.
LEMMA OnceKept ==
    ASSUME AInv, Step
    PROVE  OnceInv'
<1> DEFINE Placed == \A c \in Fresh :
                        \/ lock # NoMgr /\ mgrs[lock].issued = c
                        \/ /\ files.chain = c /\ files.key = c
                           /\ \A m \in Mgrs : mgrs[m].issued = 0
           Sees(m) == /\ mgrs[m].pc \in Requesting => Fresh = {}
                      /\ mgrs[m].pc = "read_key" /\ mgrs[m].site # "first"
                           => mgrs[m].got = files.chain
                      /\ mgrs[m].pc \in {"rename_key", "installed"}
                           => files.chain = mgrs[m].issued
                      /\ mgrs[m].pc = "installed" => files.key = mgrs[m].issued
<1> SUFFICES ASSUME world.external = 0 PROVE Placed' /\ \A m \in Mgrs : Sees(m)'
  BY DEF OnceInv, Step
<1>p. Placed
  BY DEF AInv, OnceInv
<1>s. \A m \in Mgrs : Sees(m)
  BY DEF AInv, OnceInv
<1>h. \A m \in Mgrs : /\ lock = m <=> Holds(m)
                      /\ mgrs[m].issued # 0 => lock = m
                      /\ mgrs[m].pc \in Requesting => mgrs[m].issued = 0 /\ lock = m
                      /\ mgrs[m].pc \in HasCert => mgrs[m].issued # 0 /\ lock = m
                      /\ mgrs[m].pc = "read_key" /\ mgrs[m].site # "first" => lock = m
  BY DEF AInv, HoldInv, SessionInv, Holds, Requesting, HasCert, Ordering
<1>c. /\ NoMgr \notin Mgrs /\ mgrs \in [Mgrs -> Manager] /\ lock \in Mgrs \cup {NoMgr}
      /\ 0 \notin Certs /\ files \in [chain : 0..MaxCert, key : 0..MaxCert]
      /\ age \in [Certs -> Ages]
  BY Constants DEF AInv, Typed, Certs
\* A manager at a step where it has seen nothing has nothing to keep.
<1>b. ASSUME NEW m \in Mgrs, mgrs'[m].pc \in {"idle", "lock", "read_chain", "wait", "download",
                                               "stage", "rename_chain"}
      PROVE  Sees(m)'
  BY <1>b DEF Requesting
<1>1. ASSUME age' = age, lost \subseteq lost' PROVE Fresh' \subseteq Fresh
  BY <1>1 DEF Fresh
\* Steps that leave the certificates of the sessions alone.
<1>2. ASSUME age' = age, files' = files, lost \subseteq lost', lock # NoMgr => lock' = lock,
             \A n \in Mgrs : mgrs'[n].issued = mgrs[n].issued
      PROVE  Placed'
  BY <1>2, <1>1, <1>p, <1>c
\* The managers that take no part.
<1>3. ASSUME age' = age, files' = files, lost \subseteq lost', NEW n \in Mgrs, mgrs'[n] = mgrs[n]
      PROVE  Sees(n)'
  BY <1>3, <1>1, <1>s
\* The end of a task.
<1>4. ASSUME NEW m \in Mgrs, age' = age, files' = files, Dropped(m), mgrs'[m].issued = 0,
             \A n \in Mgrs : n # m => mgrs'[n] = mgrs[n]
      PROVE  Placed'
  <2> SUFFICES ASSUME NEW c \in Fresh'
               PROVE  \/ lock' # NoMgr /\ mgrs'[lock'].issued = c
                      \/ /\ files'.chain = c /\ files'.key = c
                         /\ \A n \in Mgrs : mgrs'[n].issued = 0
    OBVIOUS
  <2>1. c \in Fresh /\ c \in Certs /\ c \notin lost'
    BY <1>1, <1>4 DEF Dropped, Fresh
  <2>2. mgrs[m].issued # c
    BY <1>4, <1>c, <2>1 DEF Dropped
  <2>3. CASE lock # NoMgr /\ mgrs[lock].issued = c
    BY <1>4, <1>c, <2>2, <2>3 DEF Dropped
  <2>4. CASE files.chain = c /\ files.key = c /\ \A n \in Mgrs : mgrs[n].issued = 0
    BY <1>4, <2>4
  <2> QED BY <1>p, <2>1, <2>3, <2>4
<1>5. ASSUME NEW m \in Mgrs, Walk(m) \/ Born(m) \/ Orphaned(m) \/ SawChain(m)
      PROVE  Placed' /\ \A n \in Mgrs : Sees(n)'
  <2>1. /\ age' = age /\ files' = files /\ lost' = lost
        /\ lock # NoMgr => lock' = lock
        /\ \A n \in Mgrs : n # m => mgrs'[n] = mgrs[n]
        /\ mgrs'[m].issued = mgrs[m].issued
    BY <1>5, GoneIs DEF Walk, Born, Orphaned, SawChain, Moved, Now, Quiet
  <2>2. Placed'
    BY <1>2, <2>1
  <2>3. Sees(m)'
    <3>1. CASE Walk(m) /\ mgrs[m].pc \notin {"directory", "register", "verify"}
      BY <3>1, <1>b DEF Walk, Moved, Now
    <3>2. CASE Walk(m) /\ mgrs[m].pc \in {"directory", "register", "verify"}
      <4>1. Fresh' = {} /\ mgrs'[m].pc \in {"create", "register", "finalize", "wait"}
        BY <3>2, <1>s, <1>1, <2>1 DEF Walk, Requesting
      <4> QED BY <4>1
    <3>3. CASE Born(m)
      BY <3>3, <1>b DEF Born, Now
    <3>4. CASE Orphaned(m)
      <4>1. Fresh' = Fresh
        BY <2>1 DEF Fresh
      <4> QED BY <3>4, <4>1, <1>s, <2>1 DEF Orphaned, Now
    <3>5. CASE SawChain(m)
      BY <3>5, <2>1 DEF SawChain, Now, Requesting
    <3> QED BY <1>5, <3>1, <3>2, <3>3, <3>4, <3>5
  <2> QED BY <1>3, <2>1, <2>2, <2>3
<1>6. ASSUME NEW m \in Mgrs, Ceased(m) PROVE Placed' /\ \A n \in Mgrs : Sees(n)'
  <2>1. /\ age' = age /\ files' = files /\ Dropped(m) /\ lost \subseteq lost'
        /\ \A n \in Mgrs : n # m => mgrs'[n] = mgrs[n]
        /\ mgrs'[m].issued = 0 /\ mgrs'[m].pc = "idle"
    BY <1>6, GoneIs DEF Ceased, Quiet, Dropped
  <2> QED BY <1>3, <1>4, <1>b, <2>1
<1>7. ASSUME NEW m \in Mgrs, SawKey(m) PROVE Placed' /\ \A n \in Mgrs : Sees(n)'
  <2>1. /\ age' = age /\ files' = files /\ lost \subseteq lost' /\ mgrs[m].pc = "read_key"
        /\ \A n \in Mgrs : n # m => mgrs'[n] = mgrs[n]
    BY <1>7 DEF SawKey, Quiet, Dropped, Now
  <2>2. CASE ~Needed(mgrs[m].got, files.key)
    <3>1. Dropped(m) /\ mgrs'[m].issued = 0 /\ mgrs'[m].pc = "idle"
      BY <1>7, <2>2 DEF SawKey, Now
    <3> QED BY <1>3, <1>4, <1>b, <2>1, <3>1
  <2>3. CASE Needed(mgrs[m].got, files.key)
    <3>1. /\ lock' = lock /\ mgrs'[m].issued = mgrs[m].issued
          /\ \/ mgrs'[m].pc \in {"lock", "stage", "wait", "read_chain"}
             \/ mgrs'[m].pc = "directory" /\ mgrs[m].site = "loop" /\ mgrs[m].issued = 0
      BY <1>7, <2>3 DEF SawKey, Now
    <3>2. Placed'
      BY <1>2, <2>1, <3>1
    <3>3. ASSUME mgrs'[m].pc = "directory", mgrs[m].site = "loop", mgrs[m].issued = 0
          PROVE  Sees(m)'
      <4>1. mgrs[m].got = files.chain /\ lock = m
        BY <1>s, <1>h, <2>1, <3>3
      <4>2. ASSUME NEW c \in Fresh PROVE FALSE
        <5>1. c \in Certs /\ age[c] = "fresh" /\ c # 0
          BY <1>c DEF Fresh
        <5>2. files.chain = c /\ files.key = c
          BY <1>p, <3>3, <4>1, <5>1
        <5> QED BY <2>3, <4>1, <5>1, <5>2 DEF Needed, ValidPair, Valid
      <4> QED BY <1>1, <2>1, <3>3, <4>2
    <3> QED BY <1>3, <1>b, <2>1, <3>1, <3>2, <3>3
  <2> QED BY <2>2, <2>3
<1>8. ASSUME NEW m \in Mgrs,
             Ordered(m) \/ Responded(m) \/ Refused(m)
      PROVE  Placed' /\ \A n \in Mgrs : Sees(n)'
  <2>1. /\ age' = age /\ files' = files /\ lost' = lost /\ lock' = lock
        /\ \A n \in Mgrs : n # m => mgrs'[n] = mgrs[n]
        /\ mgrs'[m].issued = mgrs[m].issued /\ mgrs[m].pc \in Requesting
        /\ mgrs'[m].pc \in {"respond", "verify", "wait"}
    BY <1>8, <1>h DEF Ordered, Responded, Refused, Closed, Now, Requesting
  <2>2. Fresh' = {}
    BY <1>1, <1>s, <2>1
  <2>3. Sees(m)'
    BY <2>1, <2>2
  <2> QED BY <1>2, <1>3, <2>1, <2>3
<1>e. ASSUME NEW m \in Mgrs, Fetched(m) PROVE Placed' /\ \A n \in Mgrs : Sees(n)'
  <2>1. /\ age' = age /\ files' = files /\ lost' = lost /\ lock' = lock
        /\ \A n \in Mgrs : n # m => mgrs'[n] = mgrs[n]
        /\ mgrs'[m].issued = mgrs[m].issued /\ mgrs'[m].pc = "stage"
    BY <1>e DEF Fetched, Closed, Now
  <2> QED BY <1>2, <1>3, <1>b, <2>1
<1>f. ASSUME NEW m \in Mgrs, Unfetched(m) PROVE Placed' /\ \A n \in Mgrs : Sees(n)'
  <2>1. /\ age' = age /\ files' = files /\ lost' = lost \cup {mgrs[m].issued} /\ lock' = lock
        /\ \A n \in Mgrs : n # m => mgrs'[n] = mgrs[n]
        /\ mgrs'[m].pc = "wait" /\ lock = m /\ mgrs[m].issued # 0
    BY <1>f, <1>h DEF Unfetched, Closed, Now, HasCert
  <2>2. ASSUME NEW c \in Fresh' PROVE FALSE
    <3>1. c \in Fresh /\ c # mgrs[m].issued
      BY <1>1, <2>1 DEF Fresh
    <3> QED BY <3>1, <1>p, <2>1
  <2> QED BY <1>3, <1>b, <2>1, <2>2
<1>9. ASSUME NEW m \in Mgrs, NEW c \in Certs, Granted(m, c)
      PROVE  Placed' /\ \A n \in Mgrs : Sees(n)'
  <2>1. Fresh = {} /\ lock = m
    BY <1>9, <1>s, <1>h DEF Granted, Requesting
  <2>2. /\ lost' = lost /\ lock' = lock /\ files' = files
        /\ \A n \in Mgrs : n # m => mgrs'[n] = mgrs[n]
        /\ mgrs'[m].issued = c /\ mgrs'[m].pc = "download"
    BY <1>9 DEF Granted, Now
  <2>3. Fresh' \subseteq {c}
    BY <1>9, <1>c, <2>1, <2>2 DEF Granted, NewCert, Fresh
  <2>4. Placed'
    BY <2>1, <2>2, <2>3, <1>c
  <2>5. ASSUME NEW n \in Mgrs, n # m PROVE Sees(n)'
    <3>1. mgrs'[n] = mgrs[n] /\ mgrs[n].pc \notin Requesting
      BY <1>h, <2>1, <2>2, <2>5
    <3> QED BY <3>1, <1>s, <2>2
  <2> QED BY <1>b, <2>2, <2>4, <2>5
<1>10. ASSUME NEW m \in Mgrs, ChainRenamed(m) \/ KeyRenamed(m)
       PROVE  Placed' /\ \A n \in Mgrs : Sees(n)'
  <2>1. lock = m /\ mgrs[m].issued # 0
    BY <1>10, <1>h DEF ChainRenamed, KeyRenamed, HasCert
  <2>2. /\ age' = age /\ lost' = lost /\ lock' = lock
        /\ \A n \in Mgrs : n # m => mgrs'[n] = mgrs[n]
        /\ mgrs'[m].issued = mgrs[m].issued
    BY <1>10 DEF ChainRenamed, KeyRenamed, Moved, Now
  <2>3. Placed'
    <3>1. \A c \in Fresh : mgrs[m].issued = c
      BY <1>p, <2>1
    <3> QED BY <3>1, <1>1, <2>1, <2>2, <1>c
  <2>4. Sees(m)'
    BY <1>10, <1>s, <1>c, <2>2 DEF ChainRenamed, KeyRenamed, Moved, Now, Requesting
  <2>5. ASSUME NEW n \in Mgrs, n # m PROVE Sees(n)'
    <3>1. /\ mgrs'[n] = mgrs[n] /\ mgrs[n].pc \notin Requesting \cup HasCert
          /\ ~(mgrs[n].pc = "read_key" /\ mgrs[n].site # "first")
      BY <1>h, <2>1, <2>2, <2>5
    <3> QED BY <3>1 DEF HasCert
  <2> QED BY <2>3, <2>4, <2>5
<1>11. ASSUME NEW m \in Mgrs, Finished(m) PROVE Placed' /\ \A n \in Mgrs : Sees(n)'
  <2>1. /\ lock = m /\ mgrs[m].issued # 0
        /\ files.chain = mgrs[m].issued /\ files.key = mgrs[m].issued
    BY <1>11, <1>h, <1>s DEF Finished, HasCert
  <2>2. /\ age' = age /\ lost' = lost /\ files' = files
        /\ \A n \in Mgrs : n # m => mgrs'[n] = mgrs[n]
        /\ mgrs'[m].issued = 0 /\ mgrs'[m].pc = "idle"
    BY <1>11 DEF Finished, Now, Quiet
  <2>3. \A n \in Mgrs : mgrs'[n].issued = 0
    BY <1>h, <2>1, <2>2
  <2>4. \A c \in Fresh : mgrs[m].issued = c
    BY <1>p, <2>1
  <2>5. Placed'
    BY <1>1, <2>1, <2>2, <2>3, <2>4
  <2> QED BY <1>3, <1>b, <2>2, <2>5
<1>12. CASE Crashed
  <2>1. \A n \in Mgrs : mgrs'[n].issued = 0 /\ mgrs'[n].pc = "idle"
    BY <1>12, GoneIs DEF Crashed
  <2>2. ASSUME NEW c \in Fresh' PROVE c \in Fresh /\ \A n \in Mgrs : mgrs[n].issued # c
    <3>1. c \in Certs /\ c \notin lost' /\ lost \subseteq lost'
      BY <1>12 DEF Crashed, Fresh
    <3>2. c \in Fresh
      BY <1>1, <1>12, <3>1 DEF Crashed
    <3>3. \A n \in Mgrs : mgrs[n].issued # c
      BY <1>12, <1>c, <3>1 DEF Crashed
    <3> QED BY <3>2, <3>3
  <2>3. Placed'
    BY <1>12, <1>p, <1>c, <2>1, <2>2 DEF Crashed
  <2> QED BY <1>b, <2>1, <2>3
<1>13. ASSUME files' = files, lock' = lock, mgrs' = mgrs, lost' = lost, Fresh' \subseteq Fresh
       PROVE  Placed' /\ \A n \in Mgrs : Sees(n)'
  BY <1>13, <1>p, <1>s
<1>14. ASSUME NEW t, Deleted(t) PROVE Placed' /\ \A n \in Mgrs : Sees(n)'
  BY <1>14, <1>1, <1>13 DEF Deleted
<1>15. ASSUME NEW c \in Certs, Aged(c) PROVE Placed' /\ \A n \in Mgrs : Sees(n)'
  <2>1. Fresh' \subseteq Fresh
    BY <1>15, <1>c DEF Aged, Fresh
  <2> QED BY <1>15, <1>13, <2>1 DEF Aged
<1>16. ASSUME NEW c \in Certs, Foreign(c) PROVE FALSE
  BY <1>16 DEF Foreign
<1>17. ASSUME NEW m \in Mgrs, MgrStep(m) PROVE Placed' /\ \A n \in Mgrs : Sees(n)'
  BY <1>17, <1>5, <1>6, <1>7, <1>8, <1>e, <1>f, <1>9, <1>10, <1>11 DEF MgrStep
<1> QED BY <1>12, <1>14, <1>15, <1>16, <1>17 DEF Step

\* The files are as new as anything that is served.
LEMMA NewestKept ==
    ASSUME AInv, Step
    PROVE  NewestInv'
<1> SUFFICES ASSUME world.external = 0 PROVE NewestInv'
  BY DEF NewestInv, Step
<1>w. world' = world /\ faults \in Nat /\ faults' \in Nat /\ faults' >= faults
  BY DEF Step, AInv, Typed
<1>c. /\ files \in [chain : 0..MaxCert, key : 0..MaxCert] /\ MaxCert \in Nat
      /\ mgrs \in [Mgrs -> Manager] /\ files.key \in Nat /\ files.chain \in Nat
      /\ \A n \in Mgrs : /\ mgrs[n].issued \in Nat /\ mgrs[n].chain \in Nat
                         /\ mgrs[n].got \in Nat
  BY Constants DEF AInv, Typed, Manager
<1>i. files.key <= files.chain /\ (\A n \in Mgrs : Newest(n)) /\ (Broken => Harmed)
  BY DEF AInv, NewestInv
<1>a. Harmed => Harmed'
  BY <1>w DEF Harmed
\* A manager that takes no part keeps what it has, as long as the chain stays.
<1>1. ASSUME NEW n \in Mgrs, mgrs'[n] = mgrs[n], files'.chain = files.chain PROVE Newest(n)'
  BY <1>1, <1>i, <1>w DEF Newest
\* Steps that leave the files alone and end no installation.
<1>2. ASSUME NEW m \in Mgrs, files' = files, \A n \in Mgrs : n # m => mgrs'[n] = mgrs[n],
             mgrs[m].pc = "rename_key" => mgrs'[m].pc = "rename_key" \/ Harmed', Newest(m)'
      PROVE  NewestInv'
  <2>1. \A n \in Mgrs : Newest(n)'
    BY <1>1, <1>2
  <2>2. Broken' => Harmed'
    BY <1>2, <1>i, <1>a DEF Broken
  <2> QED BY <1>2, <1>i, <2>1, <2>2 DEF NewestInv
<1>3. ASSUME NEW m \in Mgrs, Walk(m) PROVE NewestInv'
  <2>1. Newest(m)'
    BY <1>3, <1>i, <1>c, <1>w DEF Walk, Moved, Now, Quiet, Newest
  <2>2. /\ files' = files /\ \A n \in Mgrs : n # m => mgrs'[n] = mgrs[n]
        /\ mgrs[m].pc = "rename_key" => Harmed'
    BY <1>3, <1>w DEF Walk, Moved, Now, Quiet, Harmed
  <2> QED BY <1>2, <2>1, <2>2
<1>4. ASSUME NEW m \in Mgrs, Born(m) PROVE NewestInv'
  <2>1. Newest(m)'
    BY <1>4, <1>c DEF Born, Now, Quiet, Newest
  <2>2. mgrs[m].pc # "rename_key"
    BY <1>4, GoneIs DEF Born
  <2> QED BY <1>2, <1>4, <2>1, <2>2 DEF Born, Now, Quiet
<1>5. ASSUME NEW m \in Mgrs, Ceased(m) PROVE NewestInv'
  <2>1. Newest(m)'
    BY <1>5, <1>c, GoneIs DEF Ceased, Newest
  <2> QED BY <1>2, <1>5, <2>1 DEF Ceased
<1>6. ASSUME NEW m \in Mgrs, Orphaned(m) \/ SawChain(m) PROVE NewestInv'
  <2>1. Newest(m)'
    BY <1>6, <1>i, <1>c, <1>w DEF Orphaned, SawChain, Now, Quiet, Newest
  <2> QED BY <1>2, <1>6, <2>1 DEF Orphaned, SawChain, Now, Quiet
<1>7. ASSUME NEW m \in Mgrs, SawKey(m) PROVE NewestInv'
  <2>1. Served(m) <= files.chain
    BY <1>c, <1>i DEF Served
  <2>2. Newest(m)'
    BY <1>7, <2>1, <1>i, <1>c DEF SawKey, Now, Quiet, Newest
  <2> QED BY <1>2, <1>7, <2>2 DEF SawKey, Now, Quiet
<1>8. ASSUME NEW m \in Mgrs, Ordered(m) \/ Responded(m) \/ Refused(m) \/ Fetched(m) \/ Unfetched(m)
      PROVE  NewestInv'
  <2>1. Newest(m)'
    BY <1>8, <1>i, <1>c DEF Ordered, Responded, Refused, Fetched, Unfetched, Closed, Now, Newest
  <2> QED BY <1>2, <1>8, <2>1 DEF Ordered, Responded, Refused, Fetched, Unfetched, Closed, Now
<1>9. ASSUME NEW m \in Mgrs, NEW c \in Certs, Granted(m, c) PROVE NewestInv'
  <2>1. c \in Nat
    BY DEF Certs
  <2>2. files.chain <= c
    <3> SUFFICES ASSUME c < files.chain PROVE FALSE
      BY <1>c, <2>1
    <3>1. files.chain \in Certs /\ files.chain # 0
      BY <1>c, <2>1 DEF Certs
    <3>2. Rank(age[files.chain]) <= Rank(age[c]) /\ age[files.chain] # "unissued"
      BY <3>1 DEF AInv, AgeInv
    <3>3. age[files.chain] \in Ages
      BY <3>1 DEF AInv, Typed
    <3> QED BY <1>9, <3>2, <3>3 DEF Granted, NewCert, Rank, Ages
  <2>3. Newest(m)'
    BY <1>9, <2>1, <2>2, <1>i, <1>c DEF Granted, Now, Newest
  <2> QED BY <1>2, <1>9, <2>3 DEF Granted, Now
<1>10. ASSUME NEW m \in Mgrs, ChainRenamed(m) PROVE NewestInv'
  <2>1. /\ files'.chain = mgrs[m].issued /\ files'.key = files.key /\ mgrs'[m].pc = "rename_key"
        /\ mgrs'[m].chain = mgrs[m].chain /\ mgrs'[m].issued = mgrs[m].issued
        /\ \A n \in Mgrs : n # m => mgrs'[n] = mgrs[n]
    BY <1>10, <1>c DEF ChainRenamed, Moved, Now
  <2>2. files.chain <= mgrs[m].issued
    BY <1>10, <1>i DEF ChainRenamed, Newest, AInv, SessionInv, HasCert
  <2>3. ASSUME NEW n \in Mgrs, n # m PROVE mgrs[n].issued = 0 /\ world.mgrs # {n}
    <3>1. lock = m
      BY <1>10 DEF ChainRenamed, AInv, HoldInv, Holds, Ordering
    <3>2. mgrs[m] # Gone
      BY <1>10, NotGone DEF ChainRenamed
    <3> QED BY <2>3, <3>1, <3>2 DEF AInv, HoldInv, SessionInv, RecordInv
  <2>4. ASSUME NEW n \in Mgrs PROVE Newest(n)'
    <3>1. CASE n = m
      BY <2>1, <2>2, <3>1, <1>i, <1>c DEF Newest
    <3>2. CASE n # m
      <4>1. mgrs'[n] = mgrs[n] /\ mgrs[n].chain <= files.chain
        BY <2>1, <3>2, <1>i DEF Newest
      <4>2. mgrs[n].chain <= files'.chain
        BY <2>1, <2>2, <4>1, <1>c
      <4> QED BY <2>3, <3>2, <4>1, <4>2, <1>i, <1>w DEF Newest
    <3> QED BY <3>1, <3>2
  <2>5. ~Broken'
    BY <2>1 DEF Broken
  <2>6. files'.key <= files'.chain
    BY <2>1, <2>2, <1>i, <1>c
  <2> QED BY <2>4, <2>5, <2>6 DEF NewestInv
<1>11. ASSUME NEW m \in Mgrs, KeyRenamed(m) PROVE NewestInv'
  <2>1. /\ files'.key = mgrs[m].issued /\ files'.chain = files.chain /\ mgrs'[m].pc = "installed"
        /\ mgrs'[m].chain = mgrs[m].chain /\ mgrs'[m].issued = mgrs[m].issued
        /\ \A n \in Mgrs : n # m => mgrs'[n] = mgrs[n]
    BY <1>11, <1>c DEF KeyRenamed, Moved, Now
  <2>2. files.chain = mgrs[m].issued
    BY <1>11 DEF KeyRenamed, AInv, OnceInv
  <2>3. Newest(m)'
    BY <2>1, <1>i DEF Newest
  <2>4. \A n \in Mgrs : Newest(n)'
    BY <1>1, <2>1, <2>3
  <2>5. ~Broken' /\ files'.key <= files'.chain
    BY <2>1, <2>2, <1>c DEF Broken
  <2> QED BY <2>4, <2>5 DEF NewestInv
<1>12. ASSUME NEW m \in Mgrs, Finished(m) PROVE NewestInv'
  <2>1. files.chain = mgrs[m].issued
    BY <1>12 DEF Finished, AInv, OnceInv
  <2>2. Newest(m)'
    BY <1>12, <2>1, <1>c DEF Finished, Now, Quiet, Newest
  <2> QED BY <1>2, <1>12, <2>2 DEF Finished, Now, Quiet
<1>13. CASE Crashed
  <2>1. Harmed' /\ files' = files
    BY <1>13, <1>w DEF Crashed, Harmed
  <2>2. \A n \in Mgrs : Newest(n)'
    BY <1>13, <1>c, GoneIs DEF Crashed, Newest
  <2> QED BY <1>i, <2>1, <2>2 DEF NewestInv
<1>14. ASSUME files' = files, mgrs' = mgrs PROVE NewestInv'
  <2>1. \A n \in Mgrs : Newest(n)'
    BY <1>1, <1>14
  <2>2. Broken' => Harmed'
    BY <1>14, <1>i, <1>a DEF Broken
  <2> QED BY <1>14, <1>i, <2>1, <2>2 DEF NewestInv
<1>15. ASSUME NEW m \in Mgrs, MgrStep(m) PROVE NewestInv'
  BY <1>15, <1>3, <1>4, <1>5, <1>6, <1>7, <1>8, <1>9, <1>10, <1>11, <1>12 DEF MgrStep
<1> QED BY <1>13, <1>14, <1>15 DEF Step, Deleted, Aged, Foreign

(***************************************************************************)
(* The theorems                                                            *)
(***************************************************************************)
\* The initial states.
LEMMA InitAInv == Init => AInv
<1> SUFFICES ASSUME Init PROVE AInv
  OBVIOUS
<1>1. \A m \in Mgrs : mgrs[m] = Gone
  BY DEF Init
<1>2. Fresh = {}
  BY DEF Init, Fresh
<1>3. files.chain = 0 /\ files.key = 0
  BY DEF Init
<1>4. Typed
  BY Constants, GoneIs DEF Init, Typed, Ages
<1>5. HoldInv /\ SessionInv /\ PairServed
  BY <1>1, Constants, GoneIs DEF Init, HoldInv, Holds, SessionInv, PairServed, Ordering, Requesting,
     HasCert, Answered
<1>6. RecordInv
  BY <1>1, GoneIs DEF Init, RecordInv
<1>7. OnceInv /\ NewestInv
  BY <1>1, <1>2, <1>3, GoneIs DEF OnceInv, NewestInv, Newest, Broken, Requesting
<1>8. AgeInv
  BY <1>1, <1>3, GoneIs DEF Init, AgeInv, Rank
<1> QED BY <1>4, <1>5, <1>6, <1>7, <1>8 DEF AInv

\* Stuttering steps.
LEMMA StutterAInv ==
    ASSUME AInv, UNCHANGED vars
    PROVE  AInv'
BY DEF vars, AInv, Typed, HoldInv, Holds, SessionInv, PairServed, RecordInv, OnceInv, Fresh, AgeInv,
       NewestInv, Newest, Broken, Harmed

\* Every interleaving of managers, order sessions, crashes and time keeps AInv.
THEOREM CertsInvariance == Spec => []AInv
<1>1. AInv /\ [Next]_vars => AInv'
  <2>1. ASSUME AInv, Next PROVE AInv'
    <3>1. Step
      BY <2>1, NextIsStep DEF AInv
    <3> QED BY <2>1, <3>1, TypedKept, HoldKept, SessionKept, PairKept, RecordKept, OnceKept,
               AgeKept, NewestKept DEF AInv
  <2> QED BY <2>1, StutterAInv
<1> QED BY <1>1, InitAInv, PTL DEF Spec

\* At most one certificate is new.
LEMMA FreshOnce ==
    ASSUME AInv, world.external = 0
    PROVE  Cardinality(Fresh) <= 1
<1>1. ASSUME NEW c \in Fresh, NEW d \in Fresh PROVE c = d
  <2>1. 0 \notin Fresh
    BY Constants DEF Fresh, Certs
  <2> QED BY <1>1, <2>1, Constants DEF AInv, Typed, OnceInv
<1>2. CASE Fresh = {}
  BY <1>2, FS_EmptySet
<1>3. CASE Fresh # {}
  <2>1. PICK c : c \in Fresh
    BY <1>3
  <2>2. Fresh = {c}
    BY <1>1, <2>1
  <2> QED BY <2>2, FS_Singleton
<1> QED BY <1>2, <1>3

\* In every state a manager serves a certificate with its own key only, managers
\* that share the order lock of a domain issue once, the files hold one pair unless
\* an installation is under way or was cut off, and a response to a challenge does
\* not outlive its session except in the cases ResponsesReverted names (load_cert, refresh_cert, order_inner,
\* install_identity_certificate and AcmeOrderSession).
THEOREM CertsAlwaysSound == Spec => []CertsSound
<1>1. ASSUME AInv PROVE CertsSound
  <2>1. TypeOK
    <3>1. \A m \in Mgrs : /\ mgrs[m] \in Manager
                          /\ mgrs[m].pc \in Ordering => lock = m
      BY <1>1 DEF AInv, Typed, HoldInv, Holds
    <3>2. dns \subseteq 1..MaxOrders
      BY <1>1, Constants DEF AInv, Typed
    <3> QED BY <1>1, <3>1, <3>2 DEF AInv, Typed, TypeOK, Manager, Pcs, Ages
  <2>2. IssuedOnce
    BY <1>1, FreshOnce DEF IssuedOnce, Fresh
  <2>3. ResponsesReverted
    <3>1. world.challenge # "http" => \A m \in Mgrs : \A t \in mgrs[m].table :
            SessionOf(m, t) \/ ~mgrs[m].alive
      BY <1>1 DEF AInv, SessionInv, SessionOf
    <3> QED BY <1>1, <3>1 DEF AInv, RecordInv, ResponsesReverted, AnswersReverted
  <2>4. WholeFiles
    BY <1>1 DEF AInv, NewestInv, WholeFiles, Harmed
  <2> QED BY <1>1, <2>1, <2>2, <2>3, <2>4 DEF AInv, CertsSound
<1> QED BY <1>1, CertsInvariance, PTL

\* A certificate at least as new as a valid one is valid, once it was issued.
LEMMA NewerIsValid ==
    ASSUME AInv, NEW c \in Nat, NEW d \in 0..MaxCert, Valid(c), c <= d, age[d] # "unissued"
    PROVE  Valid(d)
<1>1. c \in Certs /\ d \in Certs
  BY Constants DEF Valid, Certs
<1>2. Rank(age[d]) <= Rank(age[c])
  <2>1. CASE c = d
    BY <2>1, <1>1 DEF Rank
  <2>2. CASE c < d
    BY <2>2, <1>1 DEF AInv, AgeInv
  <2> QED BY <2>1, <2>2, <1>1 DEF Certs
<1>3. age[d] \in Ages
  BY <1>1 DEF AInv, Typed
<1> QED BY <1>1, <1>2, <1>3 DEF Valid, Rank, Ages

\* However many managers there are and whatever fails: a manager that serves a valid
\* certificate goes on with one that is valid and at least as new, at every look at
\* the files and at every installation, unless a failed installation left the files
\* broken or another manager installs while it looks without the order lock
\* (refresh_cert, order_inner, CertStub).
THEOREM AlwaysKeepsServing == Spec => KeepsServing
<1>1. ASSUME AInv, [Next]_vars, NEW m \in Mgrs, world.external = 0, Serving(m), mgrs'[m].alive,
             age' = age, ~Broken, ~Overlapped(m)
      PROVE  Valid(mgrs'[m].chain) /\ mgrs'[m].chain >= mgrs[m].chain
  <2>1. Valid(mgrs[m].chain) /\ mgrs[m].alive
    BY <1>1 DEF Serving
  <2>2. /\ mgrs[m].chain \in Nat /\ mgrs[m].chain # 0 /\ mgrs[m].got \in Nat
        /\ files.key \in 0..MaxCert /\ files.chain \in 0..MaxCert /\ MaxCert \in Nat
    <3>1. mgrs[m] \in Manager /\ files.key \in 0..MaxCert /\ files.chain \in 0..MaxCert
          /\ MaxCert \in Nat
      BY <1>1, Constants DEF AInv, Typed
    <3>2. mgrs[m].chain \in Nat /\ mgrs[m].got \in Nat
      BY <3>1 DEF Manager
    <3> QED BY <2>1, <3>1, <3>2 DEF Valid, Certs
  <2>3. ASSUME mgrs'[m].chain = mgrs[m].chain
        PROVE  Valid(mgrs'[m].chain) /\ mgrs'[m].chain >= mgrs[m].chain
    BY <1>1, <2>1, <2>2, <2>3 DEF Valid
  <2>4. ASSUME mgrs'[m].chain = files.key, mgrs[m].chain <= files.key
        PROVE  Valid(mgrs'[m].chain) /\ mgrs'[m].chain >= mgrs[m].chain
    <3>1. files.key # 0
      BY <2>2, <2>4
    <3>2. age[files.key] # "unissued"
      BY <1>1, <3>1 DEF AInv, AgeInv
    <3> QED BY <1>1, <2>1, <2>2, <2>4, <3>2, NewerIsValid
  <2>5. CASE UNCHANGED vars
    BY <2>3, <2>5 DEF vars
  <2>6. CASE Step
    <3>1. Newest(m)
      BY <1>1 DEF AInv, NewestInv
    <3>2. ASSUME SawKey(m) PROVE Valid(mgrs'[m].chain) /\ mgrs'[m].chain >= mgrs[m].chain
      <4>1. mgrs[m].got = files.key
        <5>1. CASE mgrs[m].site # "first"
          <6>1. lock = m /\ mgrs[m].got = files.chain
            BY <1>1, <3>2, <5>1 DEF SawKey, AInv, HoldInv, Holds, OnceInv
          <6>2. \A n \in Mgrs : mgrs[n].pc # "rename_key"
            BY <1>1, <3>2, <6>1 DEF SawKey, AInv, HoldInv, Holds, Ordering
          <6> QED BY <1>1, <6>1, <6>2 DEF Broken
        <5>2. CASE mgrs[m].site = "first" /\ world.mgrs # {m}
          BY <1>1, <3>2, <5>2 DEF Overlapped, SawKey
        <5>3. CASE world.mgrs = {m}
          <6>1. \A n \in Mgrs : mgrs[n].pc # "rename_key"
            BY <1>1, <3>2, <5>3, GoneIs DEF SawKey, AInv, RecordInv
          <6>2. mgrs[m].got = files.chain
            BY <3>1, <3>2, <5>3 DEF Newest, SawKey
          <6> QED BY <1>1, <6>1, <6>2 DEF Broken
        <5> QED BY <5>1, <5>2, <5>3
      <4>2. mgrs[m].chain <= files.key
        BY <3>1, <3>2, <4>1 DEF Newest, SawKey
      <4>3. Valid(files.key)
        <5>1. files.key # 0
          BY <2>2, <4>2
        <5>2. age[files.key] # "unissued"
          BY <1>1, <5>1 DEF AInv, AgeInv
        <5> QED BY <1>1, <2>1, <2>2, <4>2, <5>2, NewerIsValid
      <4>4. mgrs'[m].chain = files.key
        BY <3>2, <4>1, <4>3 DEF SawKey, Now, Served, ValidPair
      <4> QED BY <2>4, <4>2, <4>4
    <3>3. ASSUME Finished(m) PROVE Valid(mgrs'[m].chain) /\ mgrs'[m].chain >= mgrs[m].chain
      <4>1. files.key = mgrs[m].issued /\ files.chain = mgrs[m].issued
        BY <1>1, <3>3 DEF AInv, OnceInv, Finished
      <4>2. mgrs'[m].chain = files.key /\ mgrs[m].chain <= files.key
        BY <3>1, <3>3, <4>1 DEF Finished, Now, Newest
      <4> QED BY <2>4, <4>2
    <3>4. ASSUME NEW n \in Mgrs, MgrStep(n), n # m PROVE mgrs'[m].chain = mgrs[m].chain
      BY <3>4 DEF MgrStep, Walk, Born, Orphaned, Ceased, SawChain, SawKey, Ordered, Responded,
         Refused, Fetched, Unfetched, Closed, Granted, ChainRenamed, KeyRenamed, Finished, Moved,
         Now
    <3>5. ASSUME MgrStep(m), ~SawKey(m), ~Finished(m) PROVE mgrs'[m].chain = mgrs[m].chain
      BY <1>1, <2>1, <3>5, GoneIs DEF MgrStep, Walk, Born, Orphaned, Ceased, SawChain, Ordered,
         Responded, Refused, Fetched, Unfetched, Closed, Granted, ChainRenamed, KeyRenamed, Moved,
         Now
    <3>6. ASSUME Crashed PROVE FALSE
      BY <1>1, <3>6, GoneIs DEF Crashed
    <3> QED BY <2>3, <2>6, <3>2, <3>3, <3>4, <3>5, <3>6 DEF Step, Deleted, Aged, Foreign
  <2> QED BY <1>1, <2>5, <2>6, NextIsStep DEF AInv
<1>2. AInv /\ [Next]_vars =>
        [\A m \in Mgrs : world.external = 0 /\ Serving(m) /\ mgrs'[m].alive /\ age' = age
                            /\ ~Broken /\ ~Overlapped(m)
            => Valid(mgrs'[m].chain) /\ mgrs'[m].chain >= mgrs[m].chain]_vars
  BY <1>1
<1> QED BY <1>2, CertsInvariance, PTL DEF Spec, KeepsServing

=============================================================================

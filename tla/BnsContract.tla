----------------------------- MODULE BnsContract -----------------------------
(***************************************************************************)
(* The BNS registry contracts (src/apps/bns/src): names with their leases, *)
(* lineages and owners, authority keys, controller policies, aliases and   *)
(* versioned documents.                                                    *)
(*                                                                         *)
(* A call is atomic, so each external function is one action; a call that  *)
(* reverts changes nothing and is not a step.  Callers name the state they *)
(* read in MutationGuard.expectedNameSeq and expectedVersion; a call whose *)
(* guard does not match reverts, so in a step the guard is the current     *)
(* nameSeq and version.  What that guard is worth is GuardCoversName.      *)
(*                                                                         *)
(* State that belongs to a lineage of a name lives under a state key: the  *)
(* name hash for lineage 0, a derived hash for later ones.  The key        *)
(* <<n, 0>> stands for the name hash of n, <<n, e>> for the derived hash   *)
(* of lineage e.  The name hash also holds the version counters of all     *)
(* lineages.                                                               *)
(***************************************************************************)
EXTENDS Integers, Sequences, FiniteSets

CONSTANTS Names,      \* canonical names
          Parent,     \* function: the parent of each subname
          Accounts,   \* chain accounts
          Kids,       \* key ids of authority keys
          DocTypes,   \* document types, "owner" among them
          Renewable,  \* names registered with options.renewable
          MaxTime,    \* bound: block.timestamp
          MaxSeq,     \* bound: nameSeq and authoritySeq of a name
          Scenarios   \* how far each name goes: see Scenario

NoOwner == "Unset"
Owner == "owner"
Any == "any"

Roots == Names \ DOMAIN Parent

ASSUME ConstantsAssumption ==
    /\ Parent \in [DOMAIN Parent -> Roots]
    /\ DOMAIN Parent \subseteq Names
    /\ Renewable \subseteq Names
    /\ IsFiniteSet(Kids)
    /\ MaxTime \in Nat
    /\ MaxSeq \in Nat \ {0}
    /\ Names \cap Accounts = {}
    /\ NoOwner \notin Names \cup Accounts

Permissions == {"publish", "revoke", "payment", "alias", "namespace"}

Principals == Accounts \cup Names

Rule == [who: Principals, doc: DocTypes \cup {Any}, may: Permissions]

\* A history of the registry: the names an older implementation registered again,
\* each with the lineage it left it in, the bounds of time and sequences, the keys
\* and the controller policies that callers install.
Scenario == [legacy: UNION {[L -> 1..MaxSeq] : L \in SUBSET Names}, time: 0..MaxTime,
             seq: [Names -> 0..MaxSeq], kids: SUBSET Kids, policies: SUBSET SUBSET Rule]

\* A lineage takes a registration and ends with a release: nameSeq of a name in its
\* lineage e.
SeqOfLineage(e) == 2 * e + 1

ASSUME ScenariosAssumption ==
    \A s \in Scenarios :
        /\ s \in Scenario
        /\ s.policies # {}
        /\ \A n \in DOMAIN s.legacy : SeqOfLineage(s.legacy[n]) <= MaxSeq

VARIABLES scenario, \* the scenario this is
          now,      \* block.timestamp
          names,    \* _names
          marked,   \* state keys with LINEAGE_STATE_MARKER set
          keys,     \* _authorityKeys, by state key and kid
          sets,     \* _authoritySets: authoritySeq and activeKeyCount, by state key
          rules,    \* _controllerPolicies, by state key
          aliases,  \* _aliases, by state key
          current,  \* _currentDocumentVersions, by state key and type
          docs      \* _documents, by name and type: the version is the index

vars == <<scenario, now, names, marked, keys, sets, rules, aliases, current, docs>>

Epochs == 0..MaxSeq
StateKeys == Names \X Epochs

\* Every stored entry carries the lineage it was written in, as a history variable.
NoKey == [status |-> "Missing"]
AuthorityKey == [acct: Accounts, from: 0..MaxTime, until: 0..MaxTime,
                 status: {"Active", "Revoked"}, epoch: Epochs]
AuthoritySet == [seq: Nat, count: Nat]
Policy == [rules: SUBSET Rule, epoch: Epochs]
Document == [status: {"Active", "Revoked"}, previous: Nat, payee: Accounts, epoch: Epochs]
NameState ==
    [status: {"Available", "Active", "Released", "Tombstoned"}, asset: Accounts \cup {NoOwner},
     semantic: Names \cup {NoOwner}, expireAt: Nat, seq: 0..MaxSeq, epoch: Epochs,
     minIat: Nat, policySeq: Nat, ownerDoc: Nat, namespace: BOOLEAN]

Blank ==
    [status |-> "Available", asset |-> NoOwner, semantic |-> NoOwner, expireAt |-> 0, seq |-> 0,
     epoch |-> 0, minIat |-> 0, policySeq |-> 0, ownerDoc |-> 0, namespace |-> FALSE]

(***************************************************************************)
(* Names an older implementation left behind.  It stored every lineage     *)
(* under the name hash and set no marker, so what a name has there may     *)
(* come from any of its lineages: wrote says in which one each kind of     *)
(* entry was written last.  Documents were published in every lineage up   *)
(* to wrote.docs, each one the successor of the version before it.         *)
(***************************************************************************)
Kinds == {"keys", "rules", "alias", "docs"}

OldDocs(a, last) ==
    [v \in 1..(last + 1) |->
        [status |-> "Active", previous |-> v - 1, payee |-> a, epoch |-> v - 1]]

LegacyName(a, e, last) ==
    [Blank EXCEPT !.status = "Active", !.asset = a, !.expireAt = MaxTime + 1,
                  !.seq = SeqOfLineage(e), !.epoch = e,
                  !.ownerDoc = IF last = e THEN e + 1 ELSE 0]

Init ==
    /\ now = 0
    /\ scenario \in Scenarios
    /\ marked = {}
    /\ LET old == scenario.legacy
           isOld(k) == k[1] \in DOMAIN old /\ k[2] = 0
       IN  \E a \in Accounts, policy \in scenario.policies,
              wrote \in {w \in [DOMAIN old -> [Kinds -> Epochs]] :
                           \A n \in DOMAIN old, x \in Kinds : w[n][x] <= old[n]} :
            /\ names = [n \in Names |->
                          IF n \in DOMAIN old THEN LegacyName(a, old[n], wrote[n]["docs"])
                          ELSE Blank]
            /\ keys = [k \in StateKeys |-> [kid \in Kids |->
                         IF isOld(k) /\ kid \in scenario.kids
                           THEN [acct |-> a, from |-> 0, until |-> 0, status |-> "Active",
                                 epoch |-> wrote[k[1]]["keys"]]
                           ELSE NoKey]]
            /\ sets = [k \in StateKeys |->
                         IF isOld(k)
                           THEN [seq |-> SeqOfLineage(old[k[1]]), count |-> Cardinality(scenario.kids)]
                           ELSE [seq |-> 0, count |-> 0]]
            /\ rules = [k \in StateKeys |->
                          IF isOld(k) THEN [rules |-> policy, epoch |-> wrote[k[1]]["rules"]]
                          ELSE [rules |-> {}, epoch |-> 0]]
            /\ aliases = [k \in StateKeys |-> IF isOld(k) THEN {wrote[k[1]]["alias"]} ELSE {}]
            /\ docs = [n \in Names |-> [d \in DocTypes |->
                         IF n \in DOMAIN old /\ d = Owner THEN OldDocs(a, wrote[n]["docs"])
                         ELSE <<>>]]
            /\ current = [k \in StateKeys |-> [d \in DocTypes |->
                            IF isOld(k) /\ d = Owner THEN wrote[k[1]]["docs"] + 1 ELSE 0]]

(***************************************************************************)
(* Views                                                                   *)
(***************************************************************************)
\* _effectiveNameStatus: an active name whose lease has run out is expired.
Active(n) == names[n].status = "Active" /\ now < names[n].expireAt

\* _lineageStateKey.
LineageKey(n) ==
    IF names[n].epoch = 0 \/ <<n, names[n].epoch>> \notin marked
      THEN <<n, 0>> ELSE <<n, names[n].epoch>>

\* A key that is not for authentication counts for as little as a revoked one.
IsActiveKey(key) ==
    /\ key.status = "Active"
    /\ key.from <= now
    /\ key.until = 0 \/ now < key.until

\* _authorityKeyAuthenticates and _authenticateExpectedPrincipal.
Authenticates(p, sender) ==
    \/ p \in Accounts /\ p = sender
    \/ /\ p \in Names
       /\ Active(p)
       /\ \E kid \in Kids :
            LET key == keys[LineageKey(p)][kid]
            IN  IsActiveKey(key) /\ key.acct = sender

\* _requireActiveAuthoritySetForPrincipal: the stored count, not a recount.
HasAuthority(p) == p \in Names => Active(p) /\ sets[LineageKey(p)].count > 0

\* _resolveOwner of an active name: an explicit owner, the asset owner of a root
\* name, or the owner of the parent.  Names have at most one dot, so that the
\* path ends at the parent.
OwnerResolves(n) ==
    /\ HasAuthority(names[n].semantic)
    /\ names[n].semantic = NoOwner /\ n \notin Roots =>
         Active(Parent[n]) /\ HasAuthority(names[Parent[n]].semantic)

EffectiveOwner(n) ==
    LET holder == IF names[n].semantic = NoOwner /\ n \notin Roots THEN Parent[n] ELSE n
    IN  IF names[holder].semantic # NoOwner THEN names[holder].semantic ELSE names[holder].asset

AuthorizeOwner(n, sender) == OwnerResolves(n) /\ Authenticates(EffectiveOwner(n), sender)

AuthorizeController(n, sender, permission, doc) ==
    \E rule \in rules[LineageKey(n)].rules :
        /\ rule.may = permission
        /\ rule.doc \in {Any, doc}
        /\ Authenticates(rule.who, sender)

AuthorizeUpdate(n, sender, permission, doc) ==
    AuthorizeOwner(n, sender) \/ AuthorizeController(n, sender, permission, doc)

\* _validateOwnerPath, on the state the call leaves.
OwnerPathValid(n) == Active(n) /\ OwnerResolves(n)

(***************************************************************************)
(* Internal functions                                                      *)
(***************************************************************************)
BumpSeq(n) == names' = [names EXCEPT ![n].seq = @ + 1]

\* Bound of the model, not of the contract.
RoomFor(n) == names[n].seq < scenario.seq[n]

\* _publishDocumentInternal and the version step of revokeDocument, for a lineage key
\* and epoch of n and a set of types: the number comes from the counter under the
\* name hash, the previous version from the lineage.
NextVersions(n, key, epoch, types, status, payee) ==
    /\ docs' = [docs EXCEPT ![n] = [d \in DocTypes |->
                  IF d \in types
                    THEN Append(@[d], [status |-> status, previous |-> current[key][d],
                                       payee |-> payee, epoch |-> epoch])
                    ELSE @[d]]]
    /\ current' = [k \in StateKeys |->
                     IF k \in {key, <<n, 0>>}
                       THEN [d \in DocTypes |-> IF d \in types THEN current[<<n, 0>>][d] + 1
                                                ELSE current[k][d]]
                       ELSE current[k]]

OwnerDocAfter(n, types) ==
    IF Owner \in types THEN current[<<n, 0>>][Owner] + 1 ELSE names[n].ownerDoc

\* What a caller may write, up to what tells keys apart: a revoked key and a key
\* whose window is empty are never active.
KeyData ==
    {k \in [acct: Accounts, from: 0..scenario.time, until: 0..scenario.time,
            status: {"Active", "Revoked"}] :
        IF k.status = "Active" THEN k.until = 0 \/ k.from < k.until ELSE k.from = k.until}

\* Batches of key updates.
KeyUpdates == UNION {[K -> KeyData] : K \in SUBSET scenario.kids}

KeysAfter(key, epoch, updates) ==
    [kid \in Kids |->
        IF kid \in DOMAIN updates
          THEN [acct |-> updates[kid].acct, from |-> updates[kid].from,
                until |-> updates[kid].until, status |-> updates[kid].status, epoch |-> epoch]
          ELSE keys[key][kid]]

ActiveCount(keyring) == Cardinality({kid \in Kids : IsActiveKey(keyring[kid])})

\* Mutant: a set may be emptied.
LatchedDropped(key, count) == TRUE

\* A set that once had an active key keeps one: the stored count is the latch.
Latched(key, count) == count > 0 \/ sets[key].count = 0

\* _applyAuthorityUpdates and _recomputeAuthoritySet.  An empty batch counts the
\* keys anew, and with it the ones that have expired.
ApplyAuthorityUpdates(key, epoch, updates) ==
    LET keyring == KeysAfter(key, epoch, updates)
    IN  /\ Latched(key, ActiveCount(keyring))
        /\ sets[key].seq < scenario.seq[key[1]]
        /\ keys' = [keys EXCEPT ![key] = keyring]
        /\ sets' = [sets EXCEPT ![key] = [seq |-> @.seq + 1, count |-> ActiveCount(keyring)]]

\* The calls that update keys among other things skip an empty batch.
ApplyUpdatesIfAny(key, epoch, updates) ==
    IF DOMAIN updates = {} THEN UNCHANGED <<keys, sets>>
    ELSE ApplyAuthorityUpdates(key, epoch, updates)

SetPolicy(key, epoch, policy) ==
    rules' = [rules EXCEPT ![key] = [rules |-> policy, epoch |-> epoch]]

\* A controller that is a name has keys, those a registration has just installed included.
ControllersValid(policy) == \A rule \in policy : HasAuthority(rule.who)

(***************************************************************************)
(* registerName.  The new lineage is activated before keys, policy and     *)
(* documents are installed, all under its own state key.                   *)
(***************************************************************************)
NextEpoch(n) == IF names[n].seq = 0 THEN 0 ELSE names[n].epoch + 1

\* Mutant: the marker of the new lineage is not written.
ActivateLineageMutant(n, epoch) == UNCHANGED marked

ActivateLineage(n, epoch) == marked' = IF epoch = 0 THEN marked ELSE marked \cup {<<n, epoch>>}

Registered(n, asset, semantic, duration, types) ==
    [names[n] EXCEPT
        !.status = "Active", !.asset = asset, !.semantic = semantic,
        !.expireAt = now + duration, !.seq = @ + 1, !.epoch = NextEpoch(n),
        !.minIat = 0, !.policySeq = 0, !.namespace = FALSE,
        !.ownerDoc = IF Owner \in types THEN current[<<n, 0>>][Owner] + 1 ELSE 0]

RegisterName(n, sender, asset, initial, duration, updates, after, policy, types) ==
    LET epoch == NextEpoch(n)
        key == <<n, epoch>>
    IN  /\ HasAuthority(initial)
        /\ n \notin Roots => Active(Parent[n]) /\ AuthorizeOwner(Parent[n], sender)
        /\ names' = [names EXCEPT ![n] =
              Registered(n, asset, IF after = NoOwner THEN initial ELSE after, duration, types)]
        /\ ActivateLineage(n, epoch)
        /\ ApplyUpdatesIfAny(key, epoch, updates)
        /\ NextVersions(n, key, epoch, types, "Active", asset)
        /\ SetPolicy(key, epoch, policy)
        /\ UNCHANGED <<scenario, now, aliases>>
        /\ OwnerPathValid(n)'
        /\ ControllersValid(policy)'

(***************************************************************************)
(* Functions of a registered name                                          *)
(***************************************************************************)
\* Anyone may renew, an expired name too.
RenewName(n, duration) ==
    /\ RoomFor(n)
    /\ n \in Renewable
    /\ names[n].status = "Active"
    /\ names' = [names EXCEPT ![n].seq = @ + 1,
                   ![n].expireAt = (IF @ > now THEN @ ELSE now) + duration]
    /\ UNCHANGED <<scenario, now, marked, keys, sets, rules, aliases, current, docs>>

SetNameOwner(n, sender, semantic) ==
    /\ RoomFor(n)
    /\ Active(n)
    /\ AuthorizeOwner(n, sender)
    /\ HasAuthority(semantic)
    /\ names' = [names EXCEPT ![n].semantic = semantic, ![n].seq = @ + 1]
    /\ UNCHANGED <<scenario, now, marked, keys, sets, rules, aliases, current, docs>>
    /\ OwnerPathValid(n)'

TransferName(n, sender, asset, semantic, types) ==
    /\ RoomFor(n)
    /\ Active(n)
    /\ AuthorizeOwner(n, sender)
    /\ HasAuthority(semantic)
    /\ names' = [names EXCEPT ![n].asset = asset, ![n].semantic = semantic, ![n].seq = @ + 1,
                              ![n].ownerDoc = OwnerDocAfter(n, types)]
    /\ NextVersions(n, LineageKey(n), names[n].epoch, types, "Active", asset)
    /\ UNCHANGED <<scenario, now, marked, keys, sets, rules, aliases>>
    /\ OwnerPathValid(n)'

\* Both release modes take effect at once.
ReleaseName(n, sender, status) ==
    /\ RoomFor(n)
    /\ Active(n)
    /\ AuthorizeOwner(n, sender)
    /\ names' = [names EXCEPT ![n].status = status, ![n].seq = @ + 1]
    /\ UNCHANGED <<scenario, now, marked, keys, sets, rules, aliases, current, docs>>

SetNamespacePolicy(n, sender, allow) ==
    /\ RoomFor(n)
    /\ Active(n)
    /\ AuthorizeUpdate(n, sender, "namespace", Any)
    /\ names' = [names EXCEPT ![n].namespace = allow, ![n].seq = @ + 1]
    /\ UNCHANGED <<scenario, now, marked, keys, sets, rules, aliases, current, docs>>

PublishDocument(n, sender, d) ==
    /\ RoomFor(n)
    /\ Active(n)
    /\ AuthorizeUpdate(n, sender, "publish", d)
    /\ NextVersions(n, LineageKey(n), names[n].epoch, {d}, "Active", sender)
    /\ names' = [names EXCEPT ![n].seq = @ + 1, ![n].ownerDoc = OwnerDocAfter(n, {d})]
    /\ UNCHANGED <<scenario, now, marked, keys, sets, rules, aliases>>

RevokeDocument(n, sender, d) ==
    /\ RoomFor(n)
    /\ Active(n)
    /\ AuthorizeUpdate(n, sender, "revoke", d)
    /\ NextVersions(n, LineageKey(n), names[n].epoch, {d}, "Revoked", sender)
    /\ names' = [names EXCEPT ![n].seq = @ + 1, ![n].ownerDoc = OwnerDocAfter(n, {d})]
    /\ UNCHANGED <<scenario, now, marked, keys, sets, rules, aliases>>

\* Mutant: the target of the latest version of all lineages is set, and it is revived.
SetPaymentTargetMutant(n, sender, d, payee) ==
    /\ RoomFor(n)
    /\ Active(n)
    /\ AuthorizeUpdate(n, sender, "payment", d)
    /\ current[<<n, 0>>][d] > 0
    /\ docs' = [docs EXCEPT ![n][d][current[<<n, 0>>][d]].payee = payee,
                           ![n][d][current[<<n, 0>>][d]].status = "Active"]
    /\ BumpSeq(n)
    /\ UNCHANGED <<scenario, now, marked, keys, sets, rules, aliases, current>>

SetPaymentTarget(n, sender, d, payee) ==
    LET version == current[LineageKey(n)][d]
    IN  /\ RoomFor(n)
        /\ Active(n)
        /\ AuthorizeUpdate(n, sender, "payment", d)
        /\ version > 0
        /\ docs' = [docs EXCEPT ![n][d][version].payee = payee]
        /\ BumpSeq(n)
        /\ UNCHANGED <<scenario, now, marked, keys, sets, rules, aliases, current>>

SetDidAlias(n, sender) ==
    /\ RoomFor(n)
    /\ Active(n)
    /\ AuthorizeUpdate(n, sender, "alias", Any)
    /\ aliases' = [aliases EXCEPT ![LineageKey(n)] = {names[n].epoch}]
    /\ BumpSeq(n)
    /\ UNCHANGED <<scenario, now, marked, keys, sets, rules, current, docs>>

SetControllerPolicy(n, sender, policy) ==
    /\ RoomFor(n)
    /\ Active(n)
    /\ AuthorizeOwner(n, sender)
    /\ ControllersValid(policy)
    /\ SetPolicy(LineageKey(n), names[n].epoch, policy)
    /\ BumpSeq(n)
    /\ UNCHANGED <<scenario, now, marked, keys, sets, aliases, current, docs>>

\* The floor of _setMinDocumentIatInternal.
RaisesFloor(n, iat) == iat >= names[n].minIat

SetMinDocumentIat(n, sender, iat) ==
    /\ RoomFor(n)
    /\ Active(n)
    /\ AuthorizeOwner(n, sender)
    /\ RaisesFloor(n, iat)
    /\ names' = [names EXCEPT ![n].minIat = iat, ![n].policySeq = @ + 1, ![n].seq = @ + 1]
    /\ UNCHANGED <<scenario, now, marked, keys, sets, rules, aliases, current, docs>>

\* Key updates check the guard but leave nameSeq alone.
UpdateAuthorityKeys(n, sender, updates) ==
    /\ Active(n)
    /\ AuthorizeOwner(n, sender)
    /\ ApplyAuthorityUpdates(LineageKey(n), names[n].epoch, updates)
    /\ UNCHANGED <<scenario, now, names, marked, rules, aliases, current, docs>>

\* applyMutations: keys, documents and the iat floor in one call, for the owner, or
\* documents other than "owner" for a controller; iat = {} leaves the floor alone.
ApplyMutations(n, sender, updates, types, iat) ==
    LET ownerOnly == DOMAIN updates # {} \/ iat # {} \/ Owner \in types
        bump == IF types # {} \/ iat # {} THEN 1 ELSE 0
    IN  /\ names[n].seq + bump <= scenario.seq[n]
        /\ Active(n)
        /\ DOMAIN updates # {} \/ types # {} \/ iat # {}
        /\ IF ownerOnly THEN AuthorizeOwner(n, sender)
           ELSE \A d \in types : AuthorizeUpdate(n, sender, "publish", d)
        /\ \A i \in iat : RaisesFloor(n, i)
        /\ ApplyUpdatesIfAny(LineageKey(n), names[n].epoch, updates)
        /\ NextVersions(n, LineageKey(n), names[n].epoch, types, "Active", sender)
        /\ names' = [names EXCEPT
              ![n].seq = @ + bump, ![n].ownerDoc = OwnerDocAfter(n, types),
              ![n].minIat = IF iat = {} THEN @ ELSE CHOOSE i \in iat : TRUE,
              ![n].policySeq = IF iat = {} THEN @ ELSE @ + 1]
        /\ UNCHANGED <<scenario, now, marked, rules, aliases>>

Tick ==
    /\ now < scenario.time
    /\ now' = now + 1
    /\ UNCHANGED <<scenario, names, marked, keys, sets, rules, aliases, current, docs>>

Durations == 1..(scenario.time + 1)

\* A name nobody holds.
Registrable(n) == RoomFor(n) /\ names[n].status \in {"Available", "Released"}

Register(n, sender) ==
    /\ Registrable(n)
    /\ \E asset \in Accounts, initial \in Names \cup {NoOwner}, after \in Names \cup {NoOwner},
          duration \in Durations, updates \in KeyUpdates, policy \in scenario.policies,
          types \in SUBSET DocTypes :
           RegisterName(n, sender, asset, initial, duration, updates, after, policy, types)

Change(n, sender) ==
    \/ \E o \in Names \cup {NoOwner} : SetNameOwner(n, sender, o)
    \/ \E a \in Accounts, o \in Names \cup {NoOwner}, types \in SUBSET DocTypes :
          TransferName(n, sender, a, o, types)
    \/ \E status \in {"Released", "Tombstoned"} : ReleaseName(n, sender, status)
    \/ \E allow \in BOOLEAN : SetNamespacePolicy(n, sender, allow)
    \/ \E policy \in scenario.policies : SetControllerPolicy(n, sender, policy)
    \/ \E updates \in KeyUpdates : UpdateAuthorityKeys(n, sender, updates)
    \/ SetDidAlias(n, sender)

Publish(n, sender) ==
    \/ \E d \in DocTypes : PublishDocument(n, sender, d) \/ RevokeDocument(n, sender, d)
    \/ \E d \in DocTypes, payee \in Accounts : SetPaymentTarget(n, sender, d, payee)
    \/ \E iat \in 0..scenario.time : SetMinDocumentIat(n, sender, iat)
    \/ \E updates \in KeyUpdates, types \in SUBSET DocTypes,
          iat \in {{}} \cup {{i} : i \in 0..scenario.time} :
          ApplyMutations(n, sender, updates, types, iat)

Next ==
    \/ \E n \in Names, sender \in Accounts :
          \/ Register(n, sender)
          \/ Active(n) /\ (Change(n, sender) \/ Publish(n, sender))
    \/ \E n \in Names, duration \in Durations : RenewName(n, duration)
    \/ Tick

Spec == Init /\ [][Next]_vars

(***************************************************************************)
(* Properties                                                              *)
(***************************************************************************)

\* Every variable has its type.
TypeOK ==
    /\ scenario \in Scenarios
    /\ now \in 0..MaxTime
    /\ names \in [Names -> NameState]
    /\ marked \subseteq StateKeys
    /\ keys \in [StateKeys -> [Kids -> AuthorityKey \cup {NoKey}]]
    /\ sets \in [StateKeys -> AuthoritySet]
    /\ rules \in [StateKeys -> Policy]
    /\ aliases \in [StateKeys -> SUBSET Epochs]
    /\ current \in [StateKeys -> [DocTypes -> Nat]]
    /\ docs \in [Names -> [DocTypes -> Seq(Document)]]

\* The lineages whose entries lineage e of n can show: itself, and for a lineage of
\* the older implementation (old: the last one it left a name in) also those before.
Seen(old, n, e) == IF n \in DOMAIN old /\ e <= old[n] THEN 0..e ELSE {e}

\* What a name shows and what authorises calls on it was written in its present
\* lineage: keys, controller rules, alias and current documents of an earlier
\* registration are out of reach (_lineageStateKey and its marker).  A lineage that
\* an older contract left in force still shows what the lineages before it wrote
\* under the name hash; the next registration of the name ends that.
LineageIsolated ==
    \A n \in Names :
        LET key == LineageKey(n)
            seen == Seen(scenario.legacy, n, names[n].epoch)
        IN  /\ \A kid \in Kids : keys[key][kid] # NoKey => keys[key][kid].epoch \in seen
            /\ rules[key].rules # {} => rules[key].epoch \in seen
            /\ \A e \in aliases[key] : e \in seen
            /\ \A d \in DocTypes : current[key][d] > 0 =>
                 /\ current[key][d] \in DOMAIN docs[n][d]
                 /\ docs[n][d][current[key][d]].epoch \in seen

\* The chain of previous versions never leaves a lineage: a document refers back
\* to an older version of the same lineage (for the lineages of an older contract:
\* or of one before), or to none.  Versions are dense: the counter under the name
\* hash is the number of documents of all lineages.
PreviousInLineage ==
    \A n \in Names, d \in DocTypes :
        /\ Len(docs[n][d]) = current[<<n, 0>>][d]
        /\ \A v \in DOMAIN docs[n][d] :
             LET p == docs[n][d][v].previous
             IN  p # 0 =>
                   /\ p \in 1..(v - 1)
                   /\ docs[n][d][p].epoch \in Seen(scenario.legacy, n, docs[n][d][v].epoch)

\* History is kept: a published version is never taken back or renumbered; only
\* the payment target of the current one may change.
HistoryKept ==
    [][\A n \in Names, d \in DocTypes : \A v \in DOMAIN docs[n][d] :
          /\ v \in DOMAIN docs'[n][d]
          /\ [docs'[n][d][v] EXCEPT !.payee = docs[n][d][v].payee] = docs[n][d][v]
          /\ docs'[n][d][v] # docs[n][d][v] => v = current[LineageKey(n)][d]]_vars

\* nameSeq is the fingerprint guards rely on: it never goes back, and while it
\* stays the same nothing of the name but its authority keys has changed, through
\* releases and re-registrations.
GuardCoversName ==
    [][\A n \in Names :
          /\ names'[n].seq >= names[n].seq
          /\ names'[n].seq = names[n].seq =>
               /\ names'[n] = names[n]
               /\ docs'[n] = docs[n]
               /\ \A e \in Epochs : /\ rules'[<<n, e>>] = rules[<<n, e>>]
                                    /\ aliases'[<<n, e>>] = aliases[<<n, e>>]
                                    /\ current'[<<n, e>>] = current[<<n, e>>]]_vars

\* Within a lineage nothing that protects verifiers goes back: the iat floor, the
\* sequences of policy and keys, and the latch that keeps an authentication key.
LineageMonotone ==
    [][\A n \in Names :
          /\ names'[n].epoch \in {names[n].epoch, names[n].epoch + 1}
          /\ names'[n].epoch = names[n].epoch =>
               LET old == sets[LineageKey(n)]
                   new == sets[LineageKey(n)]'
               IN  /\ names'[n].minIat >= names[n].minIat
                   /\ names'[n].policySeq >= names[n].policySeq
                   /\ new.seq >= old.seq
                   /\ old.count > 0 => new.count > 0]_vars

\* What the entries of a name say in every state.
LineagesApart == TypeOK /\ LineageIsolated /\ PreviousInLineage

\* What no call may undo.
NothingGoesBack == GuardCoversName /\ LineageMonotone /\ HistoryKept

\* A name whose owner resolves keeps an owner that resolves, whatever is called on
\* it or on the names it depends on, until it or one of them is given up or runs
\* out (_validateOwnerPath and the latch of the authority sets).
OwnerStaysReachable ==
    [][\A n \in Names :
          /\ Active(n) /\ OwnerResolves(n)
          /\ Active(n)' /\ ~OwnerResolves(n)'
          => \E m \in Names : Active(m) /\ ~Active(m)']_vars

\* A name that is put under the authority of another name has somebody who can
\* sign for it at that moment.
NewOwnerCanSign ==
    [][\A n, x \in Names :
          /\ names'[n].seq # names[n].seq
          /\ names'[n].semantic = x
          /\ names[n].semantic # x
          => (\E sender \in Accounts : Authenticates(x, sender))']_vars

=============================================================================

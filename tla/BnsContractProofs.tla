------------------------- MODULE BnsContractProofs -------------------------
(***************************************************************************)
(* Proofs about BnsContract, for any names, accounts, keys, document types *)
(* and scenarios: the lineages of a name stay apart (LineagesApart), no    *)
(* call undoes what verifiers rely on (NothingGoesBack), and an owner that *)
(* can be resolved stays so (OwnerStaysReachable).                         *)
(*                                                                         *)
(* LineagesApart is inductive once two facts are added: a name that was    *)
(* never registered is blank (Shape), and nothing is stored under the      *)
(* state key of a lineage that is still to come (Future).  So the key a    *)
(* registration activates holds nothing of an earlier lineage, whether the *)
(* lineage before it had a marker or not, and whatever the lineages of an  *)
(* older contract left under the name hash.                                *)
(***************************************************************************)
EXTENDS BnsContract, FiniteSetTheorems, TLAPS

(***************************************************************************)
(* The inductive invariant                                                 *)
(***************************************************************************)
\* nameSeq counts at least the registrations, and starts with the first one.
Shape ==
    \A n \in Names : /\ names[n].epoch <= names[n].seq
                     /\ names[n].seq = 0 => names[n] = Blank

Unwritten(k) ==
    /\ \A kid \in Kids : keys[k][kid] = NoKey
    /\ rules[k].rules = {}
    /\ aliases[k] = {}
    /\ \A d \in DocTypes : current[k][d] = 0

\* The lineages still to come, the first one of an unregistered name included.
Future ==
    \A n \in Names, e \in Epochs :
        names[n].epoch < e \/ names[n].seq = 0 => Unwritten(<<n, e>>)

LInv == TypeOK /\ Shape /\ Future /\ LineageIsolated /\ PreviousInLineage

(***************************************************************************)
(* What a step changes                                                     *)
(***************************************************************************)
\* Nothing of the name m.
Untouched(m) ==
    /\ scenario' = scenario
    /\ names'[m] = names[m] /\ docs'[m] = docs[m]
    /\ \A e \in Epochs :
         /\ <<m, e>> \in marked' <=> <<m, e>> \in marked
         /\ keys'[<<m, e>>] = keys[<<m, e>>] /\ sets'[<<m, e>>] = sets[<<m, e>>]
         /\ rules'[<<m, e>>] = rules[<<m, e>>] /\ aliases'[<<m, e>>] = aliases[<<m, e>>]
         /\ current'[<<m, e>>] = current[<<m, e>>]

\* The counter of the name and the pointer of the lineage stay.
CurrentKept(n, key, d) ==
    current'[key][d] = current[key][d] /\ current'[<<n, 0>>][d] = current[<<n, 0>>][d]

\* A new version of d in the lineage of key.
Appended(n, key, epoch, d) ==
    /\ \E doc \in Document :
         /\ doc.epoch = epoch /\ doc.previous = current[key][d]
         /\ docs'[n][d] = Append(docs[n][d], doc)
    /\ current'[key][d] = current[<<n, 0>>][d] + 1
    /\ current'[<<n, 0>>][d] = current[<<n, 0>>][d] + 1

\* Another payment target for the current version of the lineage.
Retargeted(n, key, d) ==
    /\ current[key][d] \in DOMAIN docs[n][d]
    /\ \E payee \in Accounts :
         docs'[n][d] = [docs[n][d] EXCEPT ![current[key][d]] = [@ EXCEPT !.payee = payee]]

\* The documents of n, written in the lineage of key.
Versions(n, key, epoch) ==
    /\ \A e \in Epochs : <<n, e>> \notin {key, <<n, 0>>} => current'[<<n, e>>] = current[<<n, e>>]
    /\ \A d \in DocTypes :
         \/ docs'[n][d] = docs[n][d] /\ CurrentKept(n, key, d)
         \/ Appended(n, key, epoch, d)
         \/ Retargeted(n, key, d) /\ CurrentKept(n, key, d)

\* The keys of n, written in the lineage of key.
Keyring(n, key, epoch) ==
    /\ \A k \in StateKeys : k # key => keys'[k] = keys[k] /\ sets'[k] = sets[k]
    /\ \A kid \in Kids : keys'[key][kid] = keys[key][kid] \/ keys'[key][kid].epoch = epoch
    /\ sets'[key].seq >= sets[key].seq
    /\ sets[key].count > 0 => sets'[key].count > 0

\* Controller rules and alias of n, written in the lineage of key.
Attached(n, key, epoch) ==
    /\ \A k \in StateKeys : k # key => rules'[k] = rules[k] /\ aliases'[k] = aliases[k]
    /\ rules'[key] = rules[key] \/ rules'[key].epoch = epoch
    /\ \A e \in aliases'[key] : e \in aliases[key] \/ e = epoch

Written(n, key, epoch) ==
    /\ \A m \in Names : m # n => Untouched(m)
    /\ Versions(n, key, epoch)
    /\ Keyring(n, key, epoch)
    /\ Attached(n, key, epoch)

\* A call on the present lineage of n.
Within(n) ==
    /\ names[n].status = "Active"
    /\ Written(n, LineageKey(n), names[n].epoch)
    /\ marked' = marked /\ scenario' = scenario
    /\ names'[n].epoch = names[n].epoch
    /\ names'[n].minIat >= names[n].minIat /\ names'[n].policySeq >= names[n].policySeq
    /\ \/ names'[n].seq = names[n].seq + 1
       \/ /\ names'[n] = names[n] /\ docs'[n] = docs[n]
          /\ UNCHANGED <<rules, aliases>>
          /\ \A e \in Epochs : current'[<<n, e>>] = current[<<n, e>>]
    /\ names'[n].semantic = names[n].semantic \/ OwnerPathValid(n)'

\* The registration of n: a new lineage.
Anew(n) ==
    /\ names[n].status \in {"Available", "Released"}
    /\ Written(n, <<n, NextEpoch(n)>>, NextEpoch(n))
    /\ scenario' = scenario
    /\ marked' = IF NextEpoch(n) = 0 THEN marked ELSE marked \cup {<<n, NextEpoch(n)>>}
    /\ names'[n].epoch = NextEpoch(n) /\ names'[n].seq = names[n].seq + 1
    /\ names'[n].minIat = 0 /\ names'[n].policySeq = 0

Elapsed == UNCHANGED <<scenario, names, marked, keys, sets, rules, aliases, current, docs>>

Step == Elapsed \/ \E n \in Names : Within(n) \/ Anew(n)

(***************************************************************************)
(* Facts about the constants and the views                                 *)
(***************************************************************************)
\* The assumptions on the constants, in the form the proofs use.
LEMMA Constants ==
    /\ MaxTime \in Nat /\ MaxSeq \in Nat /\ 0 \in Epochs
    /\ IsFiniteSet(Kids)
    /\ \A s \in Scenarios :
         /\ s.time \in 0..MaxTime /\ s.seq \in [Names -> 0..MaxSeq]
         /\ s.kids \subseteq Kids /\ s.policies \subseteq SUBSET Rule
<1>1. \A s \in Scenarios : s \in Scenario
  BY ScenariosAssumption
<1> QED BY <1>1, ConstantsAssumption DEF Epochs, Scenario

\* The names of an older contract.
LEMMA LegacyNames ==
    ASSUME NEW s \in Scenarios
    PROVE  /\ DOMAIN s.legacy \subseteq Names
           /\ \A n \in DOMAIN s.legacy :
                s.legacy[n] \in 1..MaxSeq /\ SeqOfLineage(s.legacy[n]) <= MaxSeq
<1>1. s \in Scenario /\ \A n \in DOMAIN s.legacy : SeqOfLineage(s.legacy[n]) <= MaxSeq
  BY ScenariosAssumption
<1>2. s.legacy \in UNION {[L -> 1..MaxSeq] : L \in SUBSET Names}
  BY <1>1 DEF Scenario
<1>3. PICK L \in SUBSET Names : s.legacy \in [L -> 1..MaxSeq]
  BY <1>2
<1> QED BY <1>1, <1>3

\* A lineage shows its own entries.
LEMMA SeesItself ==
    ASSUME NEW old, NEW n, NEW e \in Epochs
    PROVE  e \in Seen(old, n, e)
BY Constants DEF Seen, Epochs

\* The state key of the present lineage of a name is a key of that name.
LEMMA KeyOfName ==
    ASSUME TypeOK, NEW n \in Names
    PROVE  /\ LineageKey(n) \in {<<n, 0>>, <<n, names[n].epoch>>}
           /\ LineageKey(n) \in StateKeys /\ <<n, 0>> \in StateKeys
           /\ names[n].epoch \in Epochs /\ names[n] \in NameState
<1>1. names[n] \in NameState
  BY DEF TypeOK
<1>2. names[n].epoch \in Epochs
  BY <1>1 DEF NameState
<1> QED BY <1>1, <1>2, Constants DEF LineageKey, StateKeys

\* A key ring has a natural number of active keys.
LEMMA CountIsNat ==
    ASSUME NEW keyring
    PROVE  ActiveCount(keyring) \in Nat
<1>1. {kid \in Kids : IsActiveKey(keyring[kid])} \subseteq Kids
  OBVIOUS
<1>2. IsFiniteSet({kid \in Kids : IsActiveKey(keyring[kid])})
  BY <1>1, Constants, FS_Subset
<1> QED BY <1>2, FS_CardinalityType DEF ActiveCount

(***************************************************************************)
(* Every step is one of the steps above                                    *)
(***************************************************************************)
DocsTyped == docs \in [Names -> [DocTypes -> Seq(Document)]]
CurrentTyped == current \in [StateKeys -> [DocTypes -> Nat]]
KeysTyped == keys \in [StateKeys -> [Kids -> AuthorityKey \cup {NoKey}]]
SetsTyped == sets \in [StateKeys -> AuthoritySet]

\* Only the documents of n change.
OthersDocs(n) ==
    \A m \in Names : m # n =>
        /\ docs'[m] = docs[m]
        /\ \A e \in Epochs : current'[<<m, e>>] = current[<<m, e>>]

\* New versions in a lineage of n.
LEMMA VersionsStep ==
    ASSUME TypeOK, NEW n \in Names, NEW e \in Epochs, NEW epoch \in Epochs,
           NEW types \in SUBSET DocTypes, NEW status \in {"Active", "Revoked"},
           NEW payee \in Accounts, NextVersions(n, <<n, e>>, epoch, types, status, payee)
    PROVE  /\ DocsTyped' /\ CurrentTyped'
           /\ OthersDocs(n) /\ Versions(n, <<n, e>>, epoch)
           /\ types = {} => /\ docs'[n] = docs[n]
                            /\ \A f \in Epochs : current'[<<n, f>>] = current[<<n, f>>]
<1> DEFINE key == <<n, e>>
           zero == <<n, 0>>
           doc(d) == [status |-> status, previous |-> current[key][d], payee |-> payee,
                      epoch |-> epoch]
<1>k. key \in StateKeys /\ zero \in StateKeys
  BY Constants DEF StateKeys
<1>c. \A k \in StateKeys, d \in DocTypes : current[k][d] \in Nat
  BY DEF TypeOK
<1>s. \A m \in Names, d \in DocTypes : docs[m][d] \in Seq(Document)
  BY DEF TypeOK
<1>d. \A d \in DocTypes : doc(d) \in Document
  BY <1>k, <1>c DEF Document
<1>1. docs' = [docs EXCEPT ![n] = [d \in DocTypes |->
                  IF d \in types THEN Append(docs[n][d], doc(d)) ELSE docs[n][d]]]
  BY DEF NextVersions
<1>2. current' = [k \in StateKeys |->
                     IF k \in {key, zero}
                       THEN [d \in DocTypes |-> IF d \in types THEN current[zero][d] + 1
                                                ELSE current[k][d]]
                       ELSE current[k]]
  BY DEF NextVersions
<1>ap. \A d \in DocTypes : Append(docs[n][d], doc(d)) \in Seq(Document)
  BY <1>s, <1>d
<1> HIDE DEF doc
<1>3. DocsTyped'
  BY <1>1, <1>ap, <1>s DEF TypeOK, DocsTyped
<1>4. CurrentTyped'
  BY <1>2, <1>c, <1>k DEF TypeOK, CurrentTyped
<1>5. \A m \in Names : m # n => docs'[m] = docs[m]
  BY <1>1 DEF TypeOK
<1>6. \A m \in Names, f \in Epochs : <<m, f>> \notin {key, zero} => current'[<<m, f>>] = current[<<m, f>>]
  BY <1>2 DEF StateKeys
<1>7. OthersDocs(n)
  BY <1>5, <1>6 DEF OthersDocs
<1>8. \A d \in DocTypes : d \in types =>
        /\ docs'[n][d] = Append(docs[n][d], doc(d))
        /\ current'[key][d] = current[zero][d] + 1 /\ current'[zero][d] = current[zero][d] + 1
  BY <1>1, <1>2, <1>k DEF TypeOK
<1>9. \A d \in DocTypes : d \notin types =>
        /\ docs'[n][d] = docs[n][d] /\ CurrentKept(n, key, d)
  BY <1>1, <1>2, <1>k DEF TypeOK, CurrentKept
<1>10. ASSUME NEW d \in DocTypes, d \in types PROVE Appended(n, key, epoch, d)
  <2>1. doc(d).epoch = epoch /\ doc(d).previous = current[key][d]
    BY DEF doc
  <2> QED BY <2>1, <1>8, <1>10, <1>d DEF Appended
<1>11. Versions(n, key, epoch)
  BY <1>6, <1>9, <1>10 DEF Versions
<1>12. ASSUME types = {}
       PROVE  docs'[n] = docs[n] /\ \A f \in Epochs : current'[<<n, f>>] = current[<<n, f>>]
  <2>1. docs[n] \in [DocTypes -> Seq(Document)]
    BY DEF TypeOK
  <2>2. docs'[n] = [d \in DocTypes |-> docs[n][d]]
    BY <1>1, <1>12 DEF TypeOK
  <2>3. \A k \in {key, zero} : current[k] = [d \in DocTypes |-> current[k][d]]
    BY <1>k DEF TypeOK
  <2>4. \A k \in StateKeys : current'[k] = current[k]
    BY <1>2, <1>12, <2>3
  <2> QED BY <2>1, <2>2, <2>4 DEF StateKeys
<1> QED BY <1>3, <1>4, <1>7, <1>11, <1>12

\* Batches of key updates for a lineage of n.
LEMMA KeysStep ==
    ASSUME TypeOK, NEW key \in StateKeys, NEW n, NEW epoch \in Epochs, NEW updates \in KeyUpdates,
           ApplyAuthorityUpdates(key, epoch, updates)
    PROVE  KeysTyped' /\ SetsTyped' /\ Keyring(n, key, epoch)
<1> DEFINE keyring == KeysAfter(key, epoch, updates)
<1>0. \A k \in StateKeys : sets[k] \in AuthoritySet /\ sets[k].seq \in Nat /\ sets[k].count \in Nat
  BY DEF TypeOK, AuthoritySet
<1>1. PICK K \in SUBSET scenario.kids : updates \in [K -> KeyData]
  BY DEF KeyUpdates
<1>2. scenario.time \in 0..MaxTime /\ MaxTime \in Nat
  BY Constants DEF TypeOK
<1>3. \A kid \in K : /\ updates[kid].acct \in Accounts /\ updates[kid].from \in 0..MaxTime
                     /\ updates[kid].until \in 0..MaxTime
                     /\ updates[kid].status \in {"Active", "Revoked"}
  BY <1>1, <1>2 DEF KeyData
<1>4. keyring \in [Kids -> AuthorityKey \cup {NoKey}]
  BY <1>1, <1>3 DEF KeysAfter, AuthorityKey, TypeOK
<1>5. \A kid \in Kids : keyring[kid] = keys[key][kid] \/ keyring[kid].epoch = epoch
  BY DEF KeysAfter
<1>6. /\ Latched(key, ActiveCount(keyring))
      /\ keys' = [keys EXCEPT ![key] = keyring]
      /\ sets' = [sets EXCEPT ![key] = [seq |-> @.seq + 1, count |-> ActiveCount(keyring)]]
  BY DEF ApplyAuthorityUpdates
<1>7. ActiveCount(keyring) \in Nat
  BY CountIsNat
<1> HIDE DEF keyring
<1>8. keys'[key] = keyring /\ \A k \in StateKeys : k # key => keys'[k] = keys[k] /\ sets'[k] = sets[k]
  BY <1>6 DEF TypeOK
<1>9. sets'[key].seq = sets[key].seq + 1 /\ sets'[key].count = ActiveCount(keyring)
  BY <1>6 DEF TypeOK
<1>10. KeysTyped'
  BY <1>6, <1>4 DEF TypeOK, KeysTyped
<1>11. SetsTyped'
  BY <1>6, <1>7, <1>0 DEF TypeOK, SetsTyped, AuthoritySet
<1>12. Keyring(n, key, epoch)
  BY <1>5, <1>6, <1>7, <1>8, <1>9, <1>0 DEF Keyring, Latched
<1> QED BY <1>10, <1>11, <1>12

\* The same where an empty batch is skipped.
LEMMA KeysStepIfAny ==
    ASSUME TypeOK, NEW key \in StateKeys, NEW n, NEW epoch \in Epochs, NEW updates \in KeyUpdates,
           ApplyUpdatesIfAny(key, epoch, updates)
    PROVE  KeysTyped' /\ SetsTyped' /\ Keyring(n, key, epoch)
<1>1. CASE DOMAIN updates = {}
  <2>1. UNCHANGED <<keys, sets>> /\ sets[key].seq \in Nat
    BY <1>1 DEF ApplyUpdatesIfAny, TypeOK, AuthoritySet
  <2> QED BY <2>1 DEF TypeOK, KeysTyped, SetsTyped, Keyring
<1>2. CASE DOMAIN updates # {}
  BY <1>2, KeysStep DEF ApplyUpdatesIfAny
<1> QED BY <1>1, <1>2

\* The parts a step leaves alone.
LEMMA DocsIdle ==
    ASSUME NEW n, NEW key, NEW epoch, UNCHANGED <<docs, current>>
    PROVE  /\ OthersDocs(n) /\ Versions(n, key, epoch)
           /\ docs'[n] = docs[n] /\ \A f \in Epochs : current'[<<n, f>>] = current[<<n, f>>]
BY DEF OthersDocs, Versions, CurrentKept

\* A step without key updates.
LEMMA KeysIdle ==
    ASSUME TypeOK, NEW n, NEW key \in StateKeys, NEW epoch, UNCHANGED <<keys, sets>>
    PROVE  Keyring(n, key, epoch)
<1>1. sets[key].seq \in Nat
  BY DEF TypeOK, AuthoritySet
<1> QED BY <1>1 DEF Keyring

\* A step without controllers and aliases.
LEMMA AttachedIdle ==
    ASSUME NEW n, NEW key, NEW epoch, UNCHANGED <<rules, aliases>>
    PROVE  Attached(n, key, epoch)
BY DEF Attached

\* A controller policy for a lineage.
LEMMA PolicyStep ==
    ASSUME TypeOK, NEW n, NEW key \in StateKeys, NEW epoch \in Epochs,
           NEW policy \in SUBSET Rule, SetPolicy(key, epoch, policy), UNCHANGED aliases
    PROVE  Attached(n, key, epoch) /\ rules' \in [StateKeys -> Policy]
<1>1. rules' = [rules EXCEPT ![key] = [rules |-> policy, epoch |-> epoch]]
  BY DEF SetPolicy
<1>2. rules'[key].epoch = epoch /\ \A k \in StateKeys : k # key => rules'[k] = rules[k]
  BY <1>1 DEF TypeOK
<1>3. rules' \in [StateKeys -> Policy]
  BY <1>1 DEF TypeOK, Policy
<1> QED BY <1>2, <1>3 DEF Attached

\* The parts make a step on n.
LEMMA WrittenParts ==
    ASSUME NEW n \in Names, NEW e \in Epochs, NEW epoch, scenario' = scenario,
           \A m \in Names : m # n => names'[m] = names[m],
           \A m \in Names, f \in Epochs : m # n => (<<m, f>> \in marked' <=> <<m, f>> \in marked),
           OthersDocs(n), Versions(n, <<n, e>>, epoch), Keyring(n, <<n, e>>, epoch),
           Attached(n, <<n, e>>, epoch)
    PROVE  Written(n, <<n, e>>, epoch)
<1>1. ASSUME NEW m \in Names, m # n PROVE Untouched(m)
  <2>1. ASSUME NEW f \in Epochs
        PROVE  /\ keys'[<<m, f>>] = keys[<<m, f>>] /\ sets'[<<m, f>>] = sets[<<m, f>>]
               /\ rules'[<<m, f>>] = rules[<<m, f>>] /\ aliases'[<<m, f>>] = aliases[<<m, f>>]
    <3>1. <<m, f>> \in StateKeys /\ <<m, f>> # <<n, e>>
      BY <1>1 DEF StateKeys
    <3> QED BY <3>1 DEF Keyring, Attached
  <2> QED BY <1>1, <2>1 DEF Untouched, OthersDocs
<1> QED BY <1>1 DEF Written

\* The fields of a name.
LEMMA NameFields ==
    ASSUME TypeOK, NEW n \in Names
    PROVE  /\ names[n] \in NameState
           /\ names[n].asset \in Accounts \cup {NoOwner}
           /\ names[n].semantic \in Names \cup {NoOwner} /\ names[n].expireAt \in Nat
           /\ names[n].seq \in 0..MaxSeq /\ names[n].seq \in Nat /\ names[n].epoch \in Epochs
           /\ names[n].minIat \in Nat /\ names[n].policySeq \in Nat /\ names[n].ownerDoc \in Nat
           /\ names[n].namespace \in BOOLEAN
           /\ now \in Nat
BY Constants DEF TypeOK, NameState

\* Another record for n is all that changes of the names.
LEMMA OneName ==
    ASSUME TypeOK, NEW n \in Names, NEW r \in NameState, names' = [names EXCEPT ![n] = r]
    PROVE  /\ names' \in [Names -> NameState] /\ names'[n] = r
           /\ \A m \in Names : m # n => names'[m] = names[m]
BY DEF TypeOK

\* The next sequence number is within the bound.
LEMMA Room ==
    ASSUME TypeOK, NEW n \in Names, RoomFor(n)
    PROVE  names[n].seq + 1 \in 0..MaxSeq
<1>1. scenario.seq[n] \in 0..MaxSeq /\ MaxSeq \in Nat
  BY Constants DEF TypeOK
<1> QED BY <1>1, NameFields DEF RoomFor

(* A call on a name that is active: what is left to show of each one is    *)
(* what it writes, and the new record of the name.                         *)
LEMMA WithinParts ==
    ASSUME LInv, NEW n \in Names, names[n].status = "Active", NEW r \in NameState,
           names' = [names EXCEPT ![n] = r],
           r.epoch = names[n].epoch,
           r.minIat >= names[n].minIat, r.policySeq >= names[n].policySeq,
           r.semantic = names[n].semantic \/ OwnerPathValid(n)',
           UNCHANGED <<scenario, now, marked>>,
           DocsTyped', CurrentTyped', KeysTyped', SetsTyped',
           rules' \in [StateKeys -> Policy], aliases' \in [StateKeys -> SUBSET Epochs],
           OthersDocs(n), Versions(n, LineageKey(n), names[n].epoch),
           Keyring(n, LineageKey(n), names[n].epoch), Attached(n, LineageKey(n), names[n].epoch),
           \/ r.seq = names[n].seq + 1
           \/ /\ r = names[n] /\ docs'[n] = docs[n]
              /\ UNCHANGED <<rules, aliases>>
              /\ \A e \in Epochs : current'[<<n, e>>] = current[<<n, e>>]
    PROVE  TypeOK' /\ Within(n)
<1>0. TypeOK
  BY DEF LInv
<1>1. /\ names' \in [Names -> NameState] /\ names'[n] = r
      /\ \A m \in Names : m # n => names'[m] = names[m]
  BY <1>0, OneName
<1>2. TypeOK'
  BY <1>0, <1>1 DEF TypeOK, DocsTyped, CurrentTyped, KeysTyped, SetsTyped
<1>3. PICK e \in Epochs : LineageKey(n) = <<n, e>>
  BY <1>0, KeyOfName, Constants
<1>4. Written(n, LineageKey(n), names[n].epoch)
  BY <1>1, <1>3, WrittenParts
<1> QED BY <1>1, <1>2, <1>4 DEF Within

\* The types of the parts in a step that leaves them alone.
LEMMA TypedParts ==
    ASSUME TypeOK
    PROVE  /\ UNCHANGED <<docs, current>> => DocsTyped' /\ CurrentTyped'
           /\ UNCHANGED <<keys, sets>> => KeysTyped' /\ SetsTyped'
           /\ UNCHANGED rules => rules' \in [StateKeys -> Policy]
           /\ UNCHANGED aliases => aliases' \in [StateKeys -> SUBSET Epochs]
BY DEF TypeOK, DocsTyped, CurrentTyped, KeysTyped, SetsTyped

(* The calls that change the record of the name only.                      *)
LEMMA RecordParts ==
    ASSUME LInv, NEW n \in Names, names[n].status = "Active", NEW r \in NameState,
           names' = [names EXCEPT ![n] = r],
           r.epoch = names[n].epoch, r.seq = names[n].seq + 1,
           r.minIat >= names[n].minIat, r.policySeq >= names[n].policySeq,
           r.semantic = names[n].semantic \/ OwnerPathValid(n)',
           UNCHANGED <<scenario, now, marked, keys, sets, rules, aliases, current, docs>>
    PROVE  TypeOK' /\ Within(n)
<1> DEFINE k == LineageKey(n)
           ep == names[n].epoch
<1>1. TypeOK /\ k \in StateKeys /\ ep \in Epochs
  BY KeyOfName DEF LInv
<1> HIDE DEF k
<1>2. OthersDocs(n) /\ Versions(n, k, ep)
  BY DocsIdle
<1>3. Keyring(n, k, ep)
  BY <1>1, KeysIdle
<1>4. Attached(n, k, ep)
  BY AttachedIdle
<1>5. DocsTyped' /\ CurrentTyped' /\ KeysTyped' /\ SetsTyped'
      /\ rules' \in [StateKeys -> Policy] /\ aliases' \in [StateKeys -> SUBSET Epochs]
  BY <1>1, TypedParts
<1> USE DEF k
<1> QED BY <1>2, <1>3, <1>4, <1>5, WithinParts

\* Anyone renews a name.
LEMMA RenewStep ==
    ASSUME LInv, NEW n \in Names, NEW duration \in Durations, RenewName(n, duration)
    PROVE  TypeOK' /\ Within(n)
<1>0. TypeOK
  BY DEF LInv
<1>f. names[n] \in NameState /\ names[n].expireAt \in Nat /\ now \in Nat /\ names[n].seq \in Nat
      /\ names[n].minIat \in Nat /\ names[n].policySeq \in Nat
  BY <1>0, NameFields
<1>r. names[n].seq + 1 \in 0..MaxSeq
  BY <1>0, Room DEF RenewName
<1>d. duration \in Nat
  BY <1>0, Constants DEF Durations, TypeOK
<1> DEFINE x == (IF names[n].expireAt > now THEN names[n].expireAt ELSE now) + duration
           r == [names[n] EXCEPT !.seq = @ + 1, !.expireAt = x]
<1>x. x \in Nat
  BY <1>f, <1>d
<1>1. names' = [names EXCEPT ![n] = r]
  BY <1>0 DEF RenewName, TypeOK
<1> HIDE DEF x
<1>2. /\ r \in NameState /\ r.epoch = names[n].epoch /\ r.seq = names[n].seq + 1
      /\ r.minIat = names[n].minIat /\ r.policySeq = names[n].policySeq
      /\ r.semantic = names[n].semantic
  BY <1>f, <1>r, <1>x DEF NameState
<1> HIDE DEF r
<1>3. r.minIat >= names[n].minIat /\ r.policySeq >= names[n].policySeq
  BY <1>2, <1>f
<1>4. /\ names[n].status = "Active"
      /\ UNCHANGED <<scenario, now, marked, keys, sets, rules, aliases, current, docs>>
  BY DEF RenewName
<1> QED BY <1>1, <1>2, <1>3, <1>4, RecordParts

\* The owner, the namespace and the release of a name.
LEMMA RecordSteps ==
    ASSUME LInv, NEW n \in Names, NEW sender \in Accounts,
           \/ \E o \in Names \cup {NoOwner} : SetNameOwner(n, sender, o)
           \/ \E status \in {"Released", "Tombstoned"} : ReleaseName(n, sender, status)
           \/ \E allow \in BOOLEAN : SetNamespacePolicy(n, sender, allow)
    PROVE  TypeOK' /\ Within(n)
<1>0. TypeOK
  BY DEF LInv
<1>f. names[n] \in NameState /\ names[n].seq \in Nat
      /\ names[n].minIat \in Nat /\ names[n].policySeq \in Nat
  BY <1>0, NameFields
<1>1. CASE \E o \in Names \cup {NoOwner} : SetNameOwner(n, sender, o)
  <2>1. PICK o \in Names \cup {NoOwner} : SetNameOwner(n, sender, o)
    BY <1>1
  <2>r. names[n].seq + 1 \in 0..MaxSeq
    BY <2>1, <1>0, Room DEF SetNameOwner
  <2> DEFINE r == [names[n] EXCEPT !.semantic = o, !.seq = @ + 1]
  <2>2. names' = [names EXCEPT ![n] = r]
    BY <1>0, <2>1 DEF SetNameOwner, TypeOK
  <2>3. /\ r \in NameState /\ r.epoch = names[n].epoch /\ r.seq = names[n].seq + 1
        /\ r.minIat = names[n].minIat /\ r.policySeq = names[n].policySeq
    BY <1>f, <2>r DEF NameState
  <2> HIDE DEF r
  <2>4. r.minIat >= names[n].minIat /\ r.policySeq >= names[n].policySeq
    BY <2>3, <1>f
  <2>5. /\ names[n].status = "Active"
        /\ UNCHANGED <<scenario, now, marked, keys, sets, rules, aliases, current, docs>>
    BY <2>1 DEF SetNameOwner, Active
  <2>6. r.semantic = names[n].semantic \/ OwnerPathValid(n)'
    BY <2>1, <2>3 DEF SetNameOwner
  <2> QED BY <2>2, <2>3, <2>4, <2>5, <2>6, RecordParts
<1>2. CASE \E status \in {"Released", "Tombstoned"} : ReleaseName(n, sender, status)
  <2>1. PICK status \in {"Released", "Tombstoned"} : ReleaseName(n, sender, status)
    BY <1>2
  <2>r. names[n].seq + 1 \in 0..MaxSeq
    BY <2>1, <1>0, Room DEF ReleaseName
  <2> DEFINE r == [names[n] EXCEPT !.status = status, !.seq = @ + 1]
  <2>2. names' = [names EXCEPT ![n] = r]
    BY <1>0, <2>1 DEF ReleaseName, TypeOK
  <2>3. /\ r \in NameState /\ r.epoch = names[n].epoch /\ r.seq = names[n].seq + 1
        /\ r.minIat = names[n].minIat /\ r.policySeq = names[n].policySeq
        /\ r.semantic = names[n].semantic
    BY <1>f, <2>r DEF NameState
  <2> HIDE DEF r
  <2>4. r.minIat >= names[n].minIat /\ r.policySeq >= names[n].policySeq
    BY <2>3, <1>f
  <2>5. /\ names[n].status = "Active"
        /\ UNCHANGED <<scenario, now, marked, keys, sets, rules, aliases, current, docs>>
    BY <2>1 DEF ReleaseName, Active
  <2>6. r.semantic = names[n].semantic \/ OwnerPathValid(n)'
    BY <2>1, <2>3 DEF ReleaseName
  <2> QED BY <2>2, <2>3, <2>4, <2>5, <2>6, RecordParts
<1>3. CASE \E allow \in BOOLEAN : SetNamespacePolicy(n, sender, allow)
  <2>1. PICK allow \in BOOLEAN : SetNamespacePolicy(n, sender, allow)
    BY <1>3
  <2>r. names[n].seq + 1 \in 0..MaxSeq
    BY <2>1, <1>0, Room DEF SetNamespacePolicy
  <2> DEFINE r == [names[n] EXCEPT !.namespace = allow, !.seq = @ + 1]
  <2>2. names' = [names EXCEPT ![n] = r]
    BY <1>0, <2>1 DEF SetNamespacePolicy, TypeOK
  <2>3. /\ r \in NameState /\ r.epoch = names[n].epoch /\ r.seq = names[n].seq + 1
        /\ r.minIat = names[n].minIat /\ r.policySeq = names[n].policySeq
        /\ r.semantic = names[n].semantic
    BY <1>f, <2>r DEF NameState
  <2> HIDE DEF r
  <2>4. r.minIat >= names[n].minIat /\ r.policySeq >= names[n].policySeq
    BY <2>3, <1>f
  <2>5. /\ names[n].status = "Active"
        /\ UNCHANGED <<scenario, now, marked, keys, sets, rules, aliases, current, docs>>
    BY <2>1 DEF SetNamespacePolicy, Active
  <2>6. r.semantic = names[n].semantic \/ OwnerPathValid(n)'
    BY <2>1, <2>3 DEF SetNamespacePolicy
  <2> QED BY <2>2, <2>3, <2>4, <2>5, <2>6, RecordParts
<1> QED BY <1>1, <1>2, <1>3

\* The iat floor of a name.
LEMMA FloorStep ==
    ASSUME LInv, NEW n \in Names, NEW sender \in Accounts, NEW i \in Nat,
           SetMinDocumentIat(n, sender, i)
    PROVE  TypeOK' /\ Within(n)
<1>0. TypeOK
  BY DEF LInv
<1>f. names[n] \in NameState /\ names[n].seq \in Nat
      /\ names[n].minIat \in Nat /\ names[n].policySeq \in Nat
  BY <1>0, NameFields
<1>r. names[n].seq + 1 \in 0..MaxSeq
  BY <1>0, Room DEF SetMinDocumentIat
<1>i. i >= names[n].minIat
  BY DEF SetMinDocumentIat, RaisesFloor
<1> DEFINE p == names[n].policySeq + 1
           q == names[n].seq + 1
           r == [names[n] EXCEPT !.minIat = i, !.policySeq = p, !.seq = q]
<1>1. names' = [names EXCEPT ![n] = r]
  BY <1>0 DEF SetMinDocumentIat, TypeOK
<1>p. p \in Nat /\ q \in 0..MaxSeq /\ p >= names[n].policySeq
  BY <1>f, <1>r
<1>2. /\ r \in NameState /\ r.epoch = names[n].epoch /\ r.seq = q
      /\ r.minIat = i /\ r.policySeq = p /\ r.semantic = names[n].semantic
  <2> HIDE DEF p, q
  <2> QED BY <1>f, <1>p DEF NameState
<1>3. /\ names[n].status = "Active"
      /\ UNCHANGED <<scenario, now, marked, keys, sets, rules, aliases, current, docs>>
  BY DEF SetMinDocumentIat, Active
<1> HIDE DEF r
<1> QED BY <1>1, <1>2, <1>3, <1>p, <1>i, RecordParts

\* A call that writes documents of n in its present lineage, and the record r.
LEMMA DocumentParts ==
    ASSUME LInv, NEW n \in Names, names[n].status = "Active", NEW r \in NameState,
           names' = [names EXCEPT ![n] = r],
           r.epoch = names[n].epoch, r.seq = names[n].seq + 1,
           r.minIat = names[n].minIat, r.policySeq = names[n].policySeq,
           r.semantic = names[n].semantic \/ OwnerPathValid(n)',
           DocsTyped', CurrentTyped', OthersDocs(n),
           Versions(n, LineageKey(n), names[n].epoch),
           UNCHANGED <<scenario, now, marked, keys, sets, rules, aliases>>
    PROVE  TypeOK' /\ Within(n)
<1>1. TypeOK /\ LineageKey(n) \in StateKeys /\ names[n].epoch \in Epochs
  BY KeyOfName DEF LInv
<1>2. Keyring(n, LineageKey(n), names[n].epoch)
  BY <1>1, KeysIdle
<1>3. Attached(n, LineageKey(n), names[n].epoch)
  BY AttachedIdle
<1>4. KeysTyped' /\ SetsTyped'
      /\ rules' \in [StateKeys -> Policy] /\ aliases' \in [StateKeys -> SUBSET Epochs]
  BY <1>1, TypedParts
<1>5. r.minIat >= names[n].minIat /\ r.policySeq >= names[n].policySeq
  BY <1>1, NameFields
<1> QED BY <1>2, <1>3, <1>4, <1>5, WithinParts

\* New versions in the present lineage.
LEMMA PresentVersions ==
    ASSUME TypeOK, NEW n \in Names, NEW types \in SUBSET DocTypes,
           NEW status \in {"Active", "Revoked"}, NEW payee \in Accounts,
           NextVersions(n, LineageKey(n), names[n].epoch, types, status, payee)
    PROVE  /\ DocsTyped' /\ CurrentTyped' /\ OthersDocs(n)
           /\ Versions(n, LineageKey(n), names[n].epoch)
           /\ types = {} => /\ docs'[n] = docs[n]
                            /\ \A f \in Epochs : current'[<<n, f>>] = current[<<n, f>>]
<1>1. PICK e \in Epochs : LineageKey(n) = <<n, e>>
  BY KeyOfName, Constants
<1>2. names[n].epoch \in Epochs
  BY KeyOfName
<1>3. NextVersions(n, <<n, e>>, names[n].epoch, types, status, payee)
  BY <1>1
<1> QED BY <1>1, <1>2, <1>3, VersionsStep

\* The version of the owner document is a number.
LEMMA OwnerDocIsNat ==
    ASSUME TypeOK, NEW n \in Names, NEW types \in SUBSET DocTypes
    PROVE  OwnerDocAfter(n, types) \in Nat
<1>1. <<n, 0>> \in StateKeys /\ names[n].ownerDoc \in Nat
  BY KeyOfName, NameFields
<1>2. Owner \in types => current[<<n, 0>>][Owner] \in Nat
  BY <1>1 DEF TypeOK
<1> QED BY <1>1, <1>2 DEF OwnerDocAfter

\* transferName.
LEMMA TransferStep ==
    ASSUME LInv, NEW n \in Names, NEW sender \in Accounts, NEW asset \in Accounts,
           NEW semantic \in Names \cup {NoOwner}, NEW types \in SUBSET DocTypes,
           TransferName(n, sender, asset, semantic, types)
    PROVE  TypeOK' /\ Within(n)
<1>0. TypeOK
  BY DEF LInv
<1>f. names[n] \in NameState
  BY <1>0, NameFields
<1>r. names[n].seq + 1 \in 0..MaxSeq
  BY <1>0, Room DEF TransferName
<1> DEFINE v == OwnerDocAfter(n, types)
           r == [names[n] EXCEPT !.asset = asset, !.semantic = semantic, !.seq = @ + 1,
                                 !.ownerDoc = v]
<1>v. v \in Nat
  BY <1>0, OwnerDocIsNat
<1>1. names' = [names EXCEPT ![n] = r]
  BY <1>0 DEF TransferName, TypeOK
<1>2. /\ r \in NameState /\ r.epoch = names[n].epoch /\ r.seq = names[n].seq + 1
      /\ r.minIat = names[n].minIat /\ r.policySeq = names[n].policySeq
  <2> HIDE DEF v
  <2> QED BY <1>f, <1>r, <1>v DEF NameState
<1> HIDE DEF r
<1>3. /\ names[n].status = "Active" /\ OwnerPathValid(n)'
      /\ UNCHANGED <<scenario, now, marked, keys, sets, rules, aliases>>
      /\ NextVersions(n, LineageKey(n), names[n].epoch, types, "Active", asset)
  BY DEF TransferName, Active
<1>4. /\ DocsTyped' /\ CurrentTyped' /\ OthersDocs(n)
      /\ Versions(n, LineageKey(n), names[n].epoch)
  BY <1>0, <1>3, PresentVersions
<1> QED BY <1>1, <1>2, <1>3, <1>4, DocumentParts

\* publishDocument and revokeDocument.
LEMMA DocumentStep ==
    ASSUME LInv, NEW n \in Names, NEW sender \in Accounts, NEW d \in DocTypes,
           PublishDocument(n, sender, d) \/ RevokeDocument(n, sender, d)
    PROVE  TypeOK' /\ Within(n)
<1>0. TypeOK
  BY DEF LInv
<1>f. names[n] \in NameState
  BY <1>0, NameFields
<1>r. names[n].seq + 1 \in 0..MaxSeq
  BY <1>0, Room DEF PublishDocument, RevokeDocument
<1> DEFINE v == OwnerDocAfter(n, {d})
           r == [names[n] EXCEPT !.seq = @ + 1, !.ownerDoc = v]
<1>v. v \in Nat
  BY <1>0, OwnerDocIsNat
<1>1. names' = [names EXCEPT ![n] = r]
  BY <1>0 DEF PublishDocument, RevokeDocument, TypeOK
<1>2. /\ r \in NameState /\ r.epoch = names[n].epoch /\ r.seq = names[n].seq + 1
      /\ r.minIat = names[n].minIat /\ r.policySeq = names[n].policySeq
      /\ r.semantic = names[n].semantic
  <2> HIDE DEF v
  <2> QED BY <1>f, <1>r, <1>v DEF NameState
<1> HIDE DEF r
<1>3. PICK status \in {"Active", "Revoked"} :
        /\ names[n].status = "Active"
        /\ UNCHANGED <<scenario, now, marked, keys, sets, rules, aliases>>
        /\ NextVersions(n, LineageKey(n), names[n].epoch, {d}, status, sender)
  BY DEF PublishDocument, RevokeDocument, Active
<1>4. /\ DocsTyped' /\ CurrentTyped' /\ OthersDocs(n)
      /\ Versions(n, LineageKey(n), names[n].epoch)
  BY <1>0, <1>3, PresentVersions
<1> QED BY <1>1, <1>2, <1>3, <1>4, DocumentParts

\* The record of a call that only counts.
LEMMA BumpRecord ==
    ASSUME TypeOK, NEW n \in Names, RoomFor(n), BumpSeq(n)
    PROVE  \E r \in NameState :
             /\ names' = [names EXCEPT ![n] = r]
             /\ r.epoch = names[n].epoch /\ r.seq = names[n].seq + 1
             /\ r.minIat = names[n].minIat /\ r.policySeq = names[n].policySeq
             /\ r.semantic = names[n].semantic
<1>f. names[n] \in NameState
  BY NameFields
<1>r. names[n].seq + 1 \in 0..MaxSeq
  BY Room
<1> DEFINE r == [names[n] EXCEPT !.seq = @ + 1]
<1>1. names' = [names EXCEPT ![n] = r]
  BY DEF BumpSeq, TypeOK
<1>2. /\ r \in NameState /\ r.epoch = names[n].epoch /\ r.seq = names[n].seq + 1
      /\ r.minIat = names[n].minIat /\ r.policySeq = names[n].policySeq
      /\ r.semantic = names[n].semantic
  BY <1>f, <1>r DEF NameState
<1> HIDE DEF r
<1> QED BY <1>1, <1>2

\* setPaymentTarget: the current version of the lineage is there.
LEMMA PaymentStep ==
    ASSUME LInv, NEW n \in Names, NEW sender \in Accounts, NEW d \in DocTypes,
           NEW payee \in Accounts, SetPaymentTarget(n, sender, d, payee)
    PROVE  TypeOK' /\ Within(n)
<1>0. TypeOK /\ LineageKey(n) \in StateKeys /\ <<n, 0>> \in StateKeys
  BY KeyOfName DEF LInv
<1> DEFINE v == current[LineageKey(n)][d]
<1>1. v > 0 /\ UNCHANGED <<scenario, now, marked, keys, sets, rules, aliases, current>>
      /\ names[n].status = "Active" /\ BumpSeq(n) /\ RoomFor(n)
      /\ docs' = [docs EXCEPT ![n][d][v].payee = payee]
  BY DEF SetPaymentTarget, Active
<1>2. v \in DOMAIN docs[n][d]
  BY <1>1 DEF LInv, LineageIsolated
<1> HIDE DEF v
<1>3. docs[n][d] \in Seq(Document) /\ docs[n][d][v] \in Document /\ docs[n] \in [DocTypes -> Seq(Document)]
  BY <1>0, <1>2 DEF TypeOK
<1> DEFINE doc == [docs[n][d][v] EXCEPT !.payee = payee]
           s == [docs[n][d] EXCEPT ![v] = doc]
<1>4. doc \in Document
  BY <1>3 DEF Document
<1>5. s \in Seq(Document)
  <2> HIDE DEF doc
  <2> QED BY <1>2, <1>3, <1>4
<1>6. docs' = [docs EXCEPT ![n] = [docs[n] EXCEPT ![d] = s]]
  BY <1>1
<1>7. s = [docs[n][d] EXCEPT ![v] = [@ EXCEPT !.payee = payee]]
  OBVIOUS
<1> HIDE DEF s, doc
<1>8. DocsTyped' /\ docs'[n][d] = s
      /\ (\A m \in Names : m # n => docs'[m] = docs[m])
      /\ (\A c \in DocTypes : c # d => docs'[n][c] = docs[n][c])
  BY <1>0, <1>3, <1>5, <1>6 DEF TypeOK, DocsTyped
<1>9. CurrentTyped'
  BY <1>0, <1>1 DEF TypeOK, CurrentTyped
<1>10. OthersDocs(n)
  BY <1>1, <1>8 DEF OthersDocs
<1>11. Retargeted(n, LineageKey(n), d)
  BY <1>2, <1>7, <1>8 DEF Retargeted, v
<1>12. \A c \in DocTypes : CurrentKept(n, LineageKey(n), c)
  BY <1>1 DEF CurrentKept
<1>13. Versions(n, LineageKey(n), names[n].epoch)
  BY <1>1, <1>8, <1>11, <1>12 DEF Versions
<1>14. PICK r \in NameState :
             /\ names' = [names EXCEPT ![n] = r]
             /\ r.epoch = names[n].epoch /\ r.seq = names[n].seq + 1
             /\ r.minIat = names[n].minIat /\ r.policySeq = names[n].policySeq
             /\ r.semantic = names[n].semantic
  BY <1>0, <1>1, BumpRecord
<1> QED BY <1>1, <1>8, <1>9, <1>10, <1>13, <1>14, DocumentParts

\* setDidAlias and setControllerPolicy.
LEMMA AttachStep ==
    ASSUME LInv, NEW n \in Names, NEW sender \in Accounts,
           \/ SetDidAlias(n, sender)
           \/ \E policy \in scenario.policies : SetControllerPolicy(n, sender, policy)
    PROVE  TypeOK' /\ Within(n)
<1> DEFINE k == LineageKey(n)
           ep == names[n].epoch
<1>0. TypeOK /\ k \in StateKeys /\ ep \in Epochs /\ names[n].minIat \in Nat
      /\ names[n].policySeq \in Nat
  BY KeyOfName, NameFields DEF LInv
<1>1. /\ names[n].status = "Active" /\ BumpSeq(n) /\ RoomFor(n)
      /\ UNCHANGED <<scenario, now, marked, keys, sets, current, docs>>
  BY DEF SetDidAlias, SetControllerPolicy, Active
<1>2. Attached(n, k, ep) /\ rules' \in [StateKeys -> Policy]
      /\ aliases' \in [StateKeys -> SUBSET Epochs]
  <2>1. CASE SetDidAlias(n, sender)
    <3>1. aliases' = [aliases EXCEPT ![k] = {ep}] /\ UNCHANGED rules
      BY <2>1 DEF SetDidAlias
    <3> HIDE DEF k, ep
    <3>2. aliases'[k] = {ep} /\ \A j \in StateKeys : j # k => aliases'[j] = aliases[j]
      BY <3>1, <1>0 DEF TypeOK
    <3>3. aliases' \in [StateKeys -> SUBSET Epochs] /\ rules' \in [StateKeys -> Policy]
      BY <3>1, <1>0 DEF TypeOK
    <3> QED BY <3>1, <3>2, <3>3 DEF Attached
  <2>2. CASE \E policy \in scenario.policies : SetControllerPolicy(n, sender, policy)
    <3>1. PICK policy \in scenario.policies : SetPolicy(k, ep, policy) /\ UNCHANGED aliases
      BY <2>2 DEF SetControllerPolicy
    <3>2. policy \in SUBSET Rule
      BY <1>0, Constants DEF TypeOK
    <3> HIDE DEF k, ep
    <3> QED BY <1>0, <3>1, <3>2, PolicyStep, TypedParts
  <2> QED BY <2>1, <2>2
<1>3. Keyring(n, k, ep)
  BY <1>0, <1>1, KeysIdle
<1>4. OthersDocs(n) /\ Versions(n, k, ep)
  BY <1>1, DocsIdle
<1>5. DocsTyped' /\ CurrentTyped' /\ KeysTyped' /\ SetsTyped'
  BY <1>0, <1>1, TypedParts
<1>6. PICK r \in NameState :
             /\ names' = [names EXCEPT ![n] = r]
             /\ r.epoch = names[n].epoch /\ r.seq = names[n].seq + 1
             /\ r.minIat = names[n].minIat /\ r.policySeq = names[n].policySeq
             /\ r.semantic = names[n].semantic
  BY <1>0, <1>1, BumpRecord
<1>7. r.minIat >= names[n].minIat /\ r.policySeq >= names[n].policySeq
  BY <1>0, <1>6
<1> QED BY <1>1, <1>2, <1>3, <1>4, <1>5, <1>6, <1>7, WithinParts

\* updateAuthorityKeys leaves the record of the name alone.
LEMMA KeyUpdateStep ==
    ASSUME LInv, NEW n \in Names, NEW sender \in Accounts, NEW updates \in KeyUpdates,
           UpdateAuthorityKeys(n, sender, updates)
    PROVE  TypeOK' /\ Within(n)
<1> DEFINE k == LineageKey(n)
           ep == names[n].epoch
<1>0. TypeOK /\ k \in StateKeys /\ ep \in Epochs /\ names[n] \in NameState
      /\ names[n].minIat \in Nat /\ names[n].policySeq \in Nat
  BY KeyOfName, NameFields DEF LInv
<1>1. /\ names[n].status = "Active" /\ ApplyAuthorityUpdates(k, ep, updates)
      /\ UNCHANGED <<scenario, now, names, marked, rules, aliases, current, docs>>
  BY DEF UpdateAuthorityKeys, Active
<1>2. KeysTyped' /\ SetsTyped' /\ Keyring(n, k, ep)
  <2> HIDE DEF k, ep
  <2> QED BY <1>0, <1>1, KeysStep
<1>3. Attached(n, k, ep)
  BY <1>1, AttachedIdle
<1>4. /\ OthersDocs(n) /\ Versions(n, k, ep) /\ docs'[n] = docs[n]
      /\ \A e \in Epochs : current'[<<n, e>>] = current[<<n, e>>]
  BY <1>1, DocsIdle
<1>5. DocsTyped' /\ CurrentTyped' /\ rules' \in [StateKeys -> Policy]
      /\ aliases' \in [StateKeys -> SUBSET Epochs]
  BY <1>0, <1>1, TypedParts
<1>6. names' = [names EXCEPT ![n] = names[n]]
  BY <1>0, <1>1 DEF TypeOK
<1> DEFINE r == names[n]
<1>7. /\ r \in NameState /\ names' = [names EXCEPT ![n] = r] /\ r.epoch = names[n].epoch
      /\ r.minIat >= names[n].minIat /\ r.policySeq >= names[n].policySeq
      /\ r.semantic = names[n].semantic /\ r = names[n]
  BY <1>0, <1>6
<1> HIDE DEF r
<1> QED BY <1>1, <1>2, <1>3, <1>4, <1>5, <1>7, WithinParts

\* applyMutations: nameSeq moves exactly when documents or the floor do.
LEMMA MutationsStep ==
    ASSUME LInv, NEW n \in Names, NEW sender \in Accounts, NEW updates \in KeyUpdates,
           NEW types \in SUBSET DocTypes, NEW iat,
           iat = {} \/ \E i \in Nat : iat = {i},
           ApplyMutations(n, sender, updates, types, iat)
    PROVE  TypeOK' /\ Within(n)
<1> DEFINE k == LineageKey(n)
           ep == names[n].epoch
           s == names[n].seq + (IF types # {} \/ iat # {} THEN 1 ELSE 0)
           v == OwnerDocAfter(n, types)
           i == IF iat = {} THEN names[n].minIat ELSE CHOOSE x \in iat : TRUE
           p == IF iat = {} THEN names[n].policySeq ELSE names[n].policySeq + 1
           r == [names[n] EXCEPT !.seq = s, !.ownerDoc = v, !.minIat = i, !.policySeq = p]
<1>0. TypeOK /\ k \in StateKeys /\ ep \in Epochs /\ names[n] \in NameState
      /\ names[n].minIat \in Nat /\ names[n].policySeq \in Nat /\ names[n].seq \in Nat
      /\ names[n].ownerDoc \in Nat
  BY KeyOfName, NameFields DEF LInv
<1>1. /\ names[n].status = "Active" /\ ApplyUpdatesIfAny(k, ep, updates)
      /\ NextVersions(n, k, ep, types, "Active", sender)
      /\ UNCHANGED <<scenario, now, marked, rules, aliases>>
      /\ s <= scenario.seq[n] /\ \A x \in iat : x >= names[n].minIat
  BY DEF ApplyMutations, Active, RaisesFloor
<1>2. KeysTyped' /\ SetsTyped' /\ Keyring(n, k, ep)
  <2> HIDE DEF k, ep
  <2> QED BY <1>0, <1>1, KeysStepIfAny
<1>3. Attached(n, k, ep)
  BY <1>1, AttachedIdle
<1>4. /\ DocsTyped' /\ CurrentTyped' /\ OthersDocs(n) /\ Versions(n, k, ep)
      /\ types = {} => /\ docs'[n] = docs[n]
                       /\ \A f \in Epochs : current'[<<n, f>>] = current[<<n, f>>]
  BY <1>0, <1>1, PresentVersions
<1>5. rules' \in [StateKeys -> Policy] /\ aliases' \in [StateKeys -> SUBSET Epochs]
  BY <1>0, <1>1, TypedParts
<1>6. s \in 0..MaxSeq
  <2>1. scenario.seq[n] \in 0..MaxSeq /\ MaxSeq \in Nat
    BY <1>0, Constants DEF TypeOK
  <2> QED BY <1>0, <1>1, <2>1
<1>7. i \in Nat /\ p \in Nat /\ i >= names[n].minIat /\ p >= names[n].policySeq
  BY <1>0, <1>1
<1>8. v \in Nat
  BY <1>0, OwnerDocIsNat
<1>9. names' = [names EXCEPT ![n] = r]
  BY <1>0 DEF ApplyMutations, TypeOK
<1>10. /\ r \in NameState /\ r.epoch = ep /\ r.seq = s /\ r.minIat = i /\ r.policySeq = p
       /\ r.semantic = names[n].semantic
  <2> HIDE DEF s, v, i, p
  <2> QED BY <1>0, <1>6, <1>7, <1>8 DEF NameState
<1>11. \/ r.seq = names[n].seq + 1
       \/ /\ r = names[n] /\ docs'[n] = docs[n]
          /\ UNCHANGED <<rules, aliases>>
          /\ \A e \in Epochs : current'[<<n, e>>] = current[<<n, e>>]
  <2>1. CASE types # {} \/ iat # {}
    BY <2>1, <1>10
  <2>2. CASE types = {} /\ iat = {}
    <3>1. s = names[n].seq /\ i = names[n].minIat /\ p = names[n].policySeq
          /\ v = names[n].ownerDoc
      BY <2>2, <1>0 DEF OwnerDocAfter
    <3>2. r = names[n]
      <4> HIDE DEF s, v, i, p
      <4> QED BY <1>0, <3>1 DEF NameState
    <3> HIDE DEF r
    <3> QED BY <2>2, <3>2, <1>1, <1>4
  <2> QED BY <2>1, <2>2
<1> HIDE DEF r, s, v, i, p, k, ep
<1>12. r.minIat >= names[n].minIat /\ r.policySeq >= names[n].policySeq
  BY <1>7, <1>10
<1> USE DEF k, ep
<1> QED BY <1>1, <1>2, <1>3, <1>4, <1>5, <1>9, <1>10, <1>11, <1>12, WithinParts

\* registerName.
LEMMA RegisterStep ==
    ASSUME LInv, NEW n \in Names, NEW sender \in Accounts, NEW asset \in Accounts,
           NEW initial \in Names \cup {NoOwner}, NEW after \in Names \cup {NoOwner},
           NEW duration \in Durations, NEW updates \in KeyUpdates,
           NEW policy \in scenario.policies, NEW types \in SUBSET DocTypes,
           Registrable(n), RegisterName(n, sender, asset, initial, duration, updates, after, policy, types)
    PROVE  TypeOK' /\ Anew(n)
<1> DEFINE ep == NextEpoch(n)
           k == <<n, ep>>
           o == IF after = NoOwner THEN initial ELSE after
           r == Registered(n, asset, o, duration, types)
<1>0. TypeOK /\ names[n] \in NameState /\ names[n].seq \in Nat /\ names[n].epoch \in Epochs
      /\ now \in Nat /\ <<n, 0>> \in StateKeys
  BY KeyOfName, NameFields DEF LInv
<1>1. /\ RoomFor(n) /\ names[n].status \in {"Available", "Released"}
      /\ names' = [names EXCEPT ![n] = r]
      /\ ActivateLineage(n, ep) /\ ApplyUpdatesIfAny(k, ep, updates)
      /\ NextVersions(n, k, ep, types, "Active", asset) /\ SetPolicy(k, ep, policy)
      /\ UNCHANGED <<scenario, now, aliases>>
  BY DEF Registrable, RegisterName
<1>2. names[n].seq + 1 \in 0..MaxSeq
  BY <1>0, <1>1, Room
<1>3. ep \in Epochs
  <2>1. names[n].epoch <= names[n].seq /\ MaxSeq \in Nat
    BY Constants DEF LInv, Shape
  <2> QED BY <2>1, <1>0, <1>2 DEF NextEpoch, Epochs
<1>4. k \in StateKeys /\ policy \in SUBSET Rule /\ duration \in Nat
  <2>1. scenario.time \in Nat /\ policy \in SUBSET Rule
    BY <1>0, Constants DEF TypeOK
  <2> QED BY <1>3, <2>1 DEF StateKeys, Durations
<1>5. KeysTyped' /\ SetsTyped' /\ Keyring(n, k, ep)
  <2> HIDE DEF k, ep
  <2> QED BY <1>0, <1>1, <1>3, <1>4, KeysStepIfAny
<1>6. DocsTyped' /\ CurrentTyped' /\ OthersDocs(n) /\ Versions(n, k, ep)
  <2> HIDE DEF ep
  <2> QED BY <1>0, <1>1, <1>3, VersionsStep
<1>7. Attached(n, k, ep) /\ rules' \in [StateKeys -> Policy]
  <2> HIDE DEF k, ep
  <2> QED BY <1>0, <1>1, <1>3, <1>4, PolicyStep
<1>8. /\ marked' = IF ep = 0 THEN marked ELSE marked \cup {k}
      /\ marked' \subseteq StateKeys
      /\ \A m \in Names, f \in Epochs : m # n => (<<m, f>> \in marked' <=> <<m, f>> \in marked)
  <2> HIDE DEF ep
  <2> QED BY <1>0, <1>1, <1>4 DEF ActivateLineage, TypeOK
<1>9. /\ r \in NameState /\ r.epoch = ep /\ r.seq = names[n].seq + 1 /\ r.minIat = 0
      /\ r.policySeq = 0
  <2> DEFINE v == IF Owner \in types THEN current[<<n, 0>>][Owner] + 1 ELSE 0
             x == now + duration
             q == names[n].seq + 1
  <2>1. v \in Nat
    <3>1. Owner \in types => current[<<n, 0>>][Owner] \in Nat
      BY <1>0 DEF TypeOK
    <3> QED BY <3>1
  <2>2. x \in Nat /\ o \in Names \cup {NoOwner} /\ q \in 0..MaxSeq
    BY <1>0, <1>2, <1>4
  <2>3. r = [names[n] EXCEPT
        !.status = "Active", !.asset = asset, !.semantic = o,
        !.expireAt = x, !.seq = q, !.epoch = ep,
        !.minIat = 0, !.policySeq = 0, !.namespace = FALSE, !.ownerDoc = v]
    BY DEF Registered
  <2> HIDE DEF v, x, q, o, ep, r
  <2>4. r = [status |-> "Active", asset |-> asset, semantic |-> o, expireAt |-> x, seq |-> q,
             epoch |-> ep, minIat |-> 0, policySeq |-> 0, ownerDoc |-> v, namespace |-> FALSE]
    BY <1>0, <2>3 DEF NameState
  <2>5. 0 \in Nat /\ FALSE \in BOOLEAN /\ asset \in Accounts \cup {NoOwner}
    OBVIOUS
  <2>6. r \in NameState
    BY <1>3, <2>1, <2>2, <2>4, <2>5 DEF NameState
  <2> QED BY <2>4, <2>6 DEF q
<1> HIDE DEF r, ep, o
<1>10. /\ names' \in [Names -> NameState] /\ names'[n] = r
       /\ \A m \in Names : m # n => names'[m] = names[m]
  BY <1>0, <1>1, <1>9, OneName
<1>11. TypeOK'
  BY <1>0, <1>1, <1>5, <1>6, <1>7, <1>8, <1>10 DEF TypeOK, DocsTyped, CurrentTyped, KeysTyped, SetsTyped
<1>12. Written(n, k, ep)
  BY <1>1, <1>3, <1>5, <1>6, <1>7, <1>8, <1>10, WrittenParts
<1> QED BY <1>1, <1>8, <1>9, <1>10, <1>11, <1>12 DEF Anew, ep

\* Every call is one of the steps above.
LEMMA NextIsStep ==
    ASSUME LInv, Next
    PROVE  TypeOK' /\ Step
<1>t. TypeOK /\ scenario.time \in Nat
  BY Constants DEF LInv, TypeOK
<1>1. ASSUME NEW n \in Names, NEW sender \in Accounts, Register(n, sender)
      PROVE  TypeOK' /\ Anew(n)
  BY <1>1, RegisterStep DEF Register
<1>2. ASSUME NEW n \in Names, NEW sender \in Accounts, Change(n, sender)
      PROVE  TypeOK' /\ Within(n)
  BY <1>2, RecordSteps, TransferStep, AttachStep, KeyUpdateStep DEF Change
<1>3. ASSUME NEW n \in Names, NEW sender \in Accounts, Publish(n, sender)
      PROVE  TypeOK' /\ Within(n)
  <2>1. CASE \E d \in DocTypes : PublishDocument(n, sender, d) \/ RevokeDocument(n, sender, d)
    BY <2>1, DocumentStep
  <2>2. CASE \E d \in DocTypes, payee \in Accounts : SetPaymentTarget(n, sender, d, payee)
    BY <2>2, PaymentStep
  <2>3. CASE \E iat \in 0..scenario.time : SetMinDocumentIat(n, sender, iat)
    <3>1. PICK i \in 0..scenario.time : SetMinDocumentIat(n, sender, i)
      BY <2>3
    <3>2. i \in Nat
      BY <1>t
    <3> QED BY <3>1, <3>2, FloorStep
  <2>4. CASE \E updates \in KeyUpdates, types \in SUBSET DocTypes,
               iat \in {{}} \cup {{i} : i \in 0..scenario.time} :
               ApplyMutations(n, sender, updates, types, iat)
    <3>1. PICK updates \in KeyUpdates, types \in SUBSET DocTypes,
               iat \in {{}} \cup {{i} : i \in 0..scenario.time} :
               ApplyMutations(n, sender, updates, types, iat)
      BY <2>4
    <3>2. iat = {} \/ \E i \in Nat : iat = {i}
      BY <1>t
    <3> QED BY <3>1, <3>2, MutationsStep
  <2> QED BY <1>3, <2>1, <2>2, <2>3, <2>4 DEF Publish
<1>4. ASSUME NEW n \in Names, NEW duration \in Durations, RenewName(n, duration)
      PROVE  TypeOK' /\ Within(n)
  BY <1>4, RenewStep
<1>5. ASSUME Tick PROVE TypeOK' /\ Elapsed
  <2>1. scenario.time \in 0..MaxTime /\ MaxTime \in Nat /\ now \in 0..MaxTime
    BY <1>t, Constants DEF TypeOK
  <2>2. now' \in 0..MaxTime
    BY <1>5, <2>1 DEF Tick
  <2> QED BY <1>5, <1>t, <2>2 DEF Tick, Elapsed, TypeOK
<1> QED BY <1>1, <1>2, <1>3, <1>4, <1>5 DEF Next, Step

(***************************************************************************)
(* The invariant is kept                                                   *)
(***************************************************************************)
\* The clauses of the invariant for one name.
IsolatedAt(n, key, epoch) ==
    LET seen == Seen(scenario.legacy, n, epoch)
    IN  /\ \A kid \in Kids : keys[key][kid] # NoKey => keys[key][kid].epoch \in seen
        /\ rules[key].rules # {} => rules[key].epoch \in seen
        /\ \A e \in aliases[key] : e \in seen
        /\ \A d \in DocTypes : current[key][d] > 0 =>
             /\ current[key][d] \in DOMAIN docs[n][d]
             /\ docs[n][d][current[key][d]].epoch \in seen

ChainAt(n, d) ==
    /\ Len(docs[n][d]) = current[<<n, 0>>][d]
    /\ \A v \in DOMAIN docs[n][d] :
         LET p == docs[n][d][v].previous
         IN  p # 0 => /\ p \in 1..(v - 1)
                      /\ docs[n][d][p].epoch \in Seen(scenario.legacy, n, docs[n][d][v].epoch)

FutureAt(n) ==
    \A e \in Epochs : names[n].epoch < e \/ names[n].seq = 0 => Unwritten(<<n, e>>)

ShapeAt(n) ==
    names[n].epoch <= names[n].seq /\ (names[n].seq = 0 => names[n] = Blank)

\* The invariant by names.
LEMMA ByName ==
    /\ LineageIsolated <=> \A n \in Names : IsolatedAt(n, LineageKey(n), names[n].epoch)
    /\ PreviousInLineage <=> \A n \in Names, d \in DocTypes : ChainAt(n, d)
    /\ Future <=> \A n \in Names : FutureAt(n)
    /\ Shape <=> \A n \in Names : ShapeAt(n)
BY DEF LineageIsolated, IsolatedAt, PreviousInLineage, ChainAt, Future, FutureAt, Shape, ShapeAt

\* A name that is left alone keeps its lineage.
LEMMA UntouchedKept ==
    ASSUME LInv, NEW n \in Names, Untouched(n)
    PROVE  /\ LineageKey(n)' = LineageKey(n)
           /\ IsolatedAt(n, LineageKey(n), names[n].epoch)'
           /\ \A d \in DocTypes : ChainAt(n, d)'
           /\ FutureAt(n)' /\ ShapeAt(n)'
<1>0. /\ IsolatedAt(n, LineageKey(n), names[n].epoch) /\ FutureAt(n) /\ ShapeAt(n)
      /\ \A d \in DocTypes : ChainAt(n, d)
  BY ByName DEF LInv
<1>1. names[n].epoch \in Epochs /\ 0 \in Epochs
  BY KeyOfName, Constants DEF LInv
<1>2. LineageKey(n)' = LineageKey(n)
  BY <1>1 DEF LineageKey, Untouched
<1>3. PICK f \in Epochs : LineageKey(n) = <<n, f>>
  BY KeyOfName, Constants DEF LInv
<1>4. IsolatedAt(n, LineageKey(n), names[n].epoch)'
  BY <1>0, <1>2, <1>3 DEF IsolatedAt, Untouched
<1>5. \A d \in DocTypes : ChainAt(n, d)'
  BY <1>0, <1>1 DEF ChainAt, Untouched
<1>6. FutureAt(n)'
  BY <1>0 DEF FutureAt, Unwritten, Untouched
<1>7. ShapeAt(n)'
  BY <1>0 DEF ShapeAt, Untouched
<1> QED BY <1>2, <1>4, <1>5, <1>6, <1>7

\* The sequence of versions of a type, when one is appended.
LEMMA AppendFacts ==
    ASSUME NEW S, NEW s \in Seq(S), NEW x \in S, NEW t, t = Append(s, x)
    PROVE  /\ t \in Seq(S) /\ Len(t) = Len(s) + 1 /\ DOMAIN t = DOMAIN s \cup {Len(s) + 1}
           /\ Len(s) \in Nat /\ DOMAIN s = 1..Len(s)
           /\ t[Len(s) + 1] = x /\ \A i \in DOMAIN s : t[i] = s[i]
OBVIOUS

\* The sequence of versions of a type, when one gets another payment target.
LEMMA RetargetFacts ==
    ASSUME NEW s \in Seq(Document), NEW v \in DOMAIN s, NEW a \in Accounts, NEW t,
           t = [s EXCEPT ![v] = [@ EXCEPT !.payee = a]]
    PROVE  /\ DOMAIN t = DOMAIN s /\ Len(t) = Len(s)
           /\ \A i \in DOMAIN s : /\ t[i].epoch = s[i].epoch /\ t[i].previous = s[i].previous
                                  /\ [t[i] EXCEPT !.payee = s[i].payee] = s[i]
                                  /\ i # v => t[i] = s[i]
<1>1. \A i \in DOMAIN s : s[i] \in Document
  OBVIOUS
<1>2. s[v] \in Document
  BY <1>1
<1> DEFINE x == [s[v] EXCEPT !.payee = a]
<1>3. x.epoch = s[v].epoch /\ x.previous = s[v].previous /\ [x EXCEPT !.payee = s[v].payee] = s[v]
  BY <1>2 DEF Document
<1>4. \A i \in DOMAIN s : [s[i] EXCEPT !.payee = s[i].payee] = s[i]
  BY <1>1 DEF Document
<1>5. t = [s EXCEPT ![v] = x]
  OBVIOUS
<1> HIDE DEF x
<1>6. DOMAIN t = DOMAIN s /\ t[v] = x /\ \A i \in DOMAIN s : i # v => t[i] = s[i]
  BY <1>5
<1>7. Len(t) = Len(s)
  BY <1>6
<1> QED BY <1>3, <1>4, <1>6, <1>7

\* Documents written in a lineage whose current documents belong to it.
LEMMA ChainKept ==
    ASSUME TypeOK, NEW n \in Names, NEW e \in Epochs, NEW epoch \in Epochs, NEW d \in DocTypes,
           scenario' = scenario, Versions(n, <<n, e>>, epoch), ChainAt(n, d),
           current[<<n, e>>][d] > 0 =>
             /\ current[<<n, e>>][d] \in DOMAIN docs[n][d]
             /\ docs[n][d][current[<<n, e>>][d]].epoch \in Seen(scenario.legacy, n, epoch)
    PROVE  /\ ChainAt(n, d)'
           /\ current'[<<n, e>>][d] > 0 =>
                /\ current'[<<n, e>>][d] \in DOMAIN docs'[n][d]
                /\ docs'[n][d][current'[<<n, e>>][d]].epoch \in Seen(scenario.legacy, n, epoch)
<1>i. PICK old : old = scenario.legacy /\ old = scenario'.legacy
  OBVIOUS
<1>y. epoch \in Seen(old, n, epoch)
  BY SeesItself
<1> DEFINE s == docs[n][d]
           t == docs'[n][d]
           c == current[<<n, e>>][d]
           z == current[<<n, 0>>][d]
<1>0. s \in Seq(Document) /\ c \in Nat /\ z \in Nat
  BY Constants DEF TypeOK, StateKeys
<1>1. Len(s) = z /\ DOMAIN s = 1..Len(s)
      /\ \A v \in DOMAIN s : s[v].previous # 0 =>
            s[v].previous \in 1..(v - 1) /\ s[s[v].previous].epoch \in Seen(old, n, s[v].epoch)
  BY <1>0, <1>i DEF ChainAt
<1>p. \A v \in DOMAIN s : s[v].previous # 0 => s[v].previous \in DOMAIN s
  <2> HIDE DEF s, z
  <2>1. Len(s) \in Nat
    BY <1>0, <1>1
  <2>2. \A v \in 1..Len(s) : \A p \in 1..(v - 1) : p \in 1..Len(s)
    BY <2>1
  <2> QED BY <1>1, <2>2
<1>2. CASE t = s /\ CurrentKept(n, <<n, e>>, d)
  BY <1>2 DEF CurrentKept, ChainAt
<1>3. CASE Appended(n, <<n, e>>, epoch, d)
  <2>1. PICK doc \in Document : doc.epoch = epoch /\ doc.previous = c /\ t = Append(s, doc)
    BY <1>3 DEF Appended
  <2>2. current'[<<n, e>>][d] = z + 1 /\ current'[<<n, 0>>][d] = z + 1
    BY <1>3 DEF Appended
  <2> HIDE DEF s, t, c, z
  <2>3. /\ Len(t) = Len(s) + 1 /\ DOMAIN t = DOMAIN s \cup {Len(s) + 1}
        /\ t[Len(s) + 1] = doc /\ \A i \in DOMAIN s : t[i] = s[i]
    BY <1>0, <2>1, AppendFacts
  <2>4. \A v \in DOMAIN t : t[v].previous # 0 =>
            t[v].previous \in 1..(v - 1) /\ t[t[v].previous].epoch \in Seen(old, n, t[v].epoch)
    <3> SUFFICES ASSUME NEW v \in DOMAIN t, t[v].previous # 0
                 PROVE  t[v].previous \in 1..(v - 1) /\ t[t[v].previous].epoch \in Seen(old, n, t[v].epoch)
      OBVIOUS
    <3>1. CASE v \in DOMAIN s
      BY <3>1, <2>3, <1>1, <1>p
    <3>2. CASE v = Len(s) + 1
      <4>1. t[v] = doc /\ doc.previous = c /\ c # 0
        BY <3>2, <2>1, <2>3
      <4>2. c > 0
        BY <4>1, <1>0
      <4>3. c \in DOMAIN s /\ s[c].epoch \in Seen(old, n, epoch)
        BY <4>2, <1>i DEF c, s
      <4>4. c \in 1..(v - 1)
        BY <4>3, <1>0, <1>1, <3>2
      <4> QED BY <4>1, <4>3, <4>4, <2>1, <2>3
    <3> QED BY <2>3, <3>1, <3>2
  <2>5. Len(t) = current'[<<n, 0>>][d]
    BY <2>2, <2>3, <1>1
  <2>6. current'[<<n, e>>][d] \in DOMAIN t /\ t[current'[<<n, e>>][d]].epoch \in Seen(old, n, epoch)
    BY <2>1, <2>2, <2>3, <1>1, <1>y
  <2> USE DEF t
  <2> QED BY <2>4, <2>5, <2>6, <1>i DEF ChainAt
<1>4. CASE Retargeted(n, <<n, e>>, d) /\ CurrentKept(n, <<n, e>>, d)
  <2>1. c \in DOMAIN s
    BY <1>4 DEF Retargeted
  <2>2. PICK a \in Accounts : t = [s EXCEPT ![c] = [@ EXCEPT !.payee = a]]
    BY <1>4 DEF Retargeted
  <2>3. current'[<<n, e>>][d] = c /\ current'[<<n, 0>>][d] = z
    BY <1>4 DEF CurrentKept
  <2> HIDE DEF s, t, c, z
  <2>4. /\ DOMAIN t = DOMAIN s /\ Len(t) = Len(s)
        /\ \A i \in DOMAIN s : t[i].epoch = s[i].epoch /\ t[i].previous = s[i].previous
    BY <1>0, <2>1, <2>2, RetargetFacts
  <2>5. \A v \in DOMAIN t : t[v].previous # 0 =>
            t[v].previous \in 1..(v - 1) /\ t[t[v].previous].epoch \in Seen(old, n, t[v].epoch)
    BY <2>4, <1>1, <1>p
  <2>6. Len(t) = current'[<<n, 0>>][d]
    BY <2>3, <2>4, <1>1
  <2>7. c > 0 => c \in DOMAIN t /\ t[c].epoch \in Seen(old, n, epoch)
    <3>1. c > 0 => s[c].epoch \in Seen(old, n, epoch)
      BY <1>i DEF c, s
    <3> QED BY <2>1, <2>4, <3>1
  <2>8. ChainAt(n, d)'
    BY <2>5, <2>6, <1>i DEF ChainAt, t
  <2> QED BY <2>3, <2>7, <2>8, <1>i DEF t
<1> QED BY <1>2, <1>3, <1>4 DEF Versions

\* Entries written in a lineage whose entries belong to it.
LEMMA IsolatedKept ==
    ASSUME TypeOK, NEW n \in Names, NEW e \in Epochs, NEW epoch \in Epochs,
           scenario' = scenario, Written(n, <<n, e>>, epoch), IsolatedAt(n, <<n, e>>, epoch),
           \A d \in DocTypes : ChainAt(n, d)
    PROVE  IsolatedAt(n, <<n, e>>, epoch)' /\ \A d \in DocTypes : ChainAt(n, d)'
<1>1. \A d \in DocTypes :
           /\ ChainAt(n, d)'
           /\ current'[<<n, e>>][d] > 0 =>
                /\ current'[<<n, e>>][d] \in DOMAIN docs'[n][d]
                /\ docs'[n][d][current'[<<n, e>>][d]].epoch \in Seen(scenario.legacy, n, epoch)
  BY ChainKept DEF Written, IsolatedAt
<1>y. epoch \in Seen(scenario.legacy, n, epoch)
  BY SeesItself
<1>2. \A kid \in Kids : keys'[<<n, e>>][kid] # NoKey =>
        keys'[<<n, e>>][kid].epoch \in Seen(scenario.legacy, n, epoch)
  BY <1>y DEF Written, Keyring, IsolatedAt
<1>3. /\ rules'[<<n, e>>].rules # {} => rules'[<<n, e>>].epoch \in Seen(scenario.legacy, n, epoch)
      /\ \A f \in aliases'[<<n, e>>] : f \in Seen(scenario.legacy, n, epoch)
  BY <1>y DEF Written, Attached, IsolatedAt
<1> QED BY <1>1, <1>2, <1>3 DEF IsolatedAt

\* State keys of later lineages are not written.
LEMMA UnwrittenKept ==
    ASSUME NEW n \in Names, NEW e \in Epochs, NEW epoch, Written(n, <<n, e>>, epoch),
           NEW f \in Epochs, f \notin {e, 0}, Unwritten(<<n, f>>)
    PROVE  Unwritten(<<n, f>>)'
<1>1. <<n, f>> \in StateKeys /\ <<n, f>> # <<n, e>> /\ <<n, f>> # <<n, 0>>
  BY DEF StateKeys
<1>2. /\ keys'[<<n, f>>] = keys[<<n, f>>] /\ rules'[<<n, f>>] = rules[<<n, f>>]
      /\ aliases'[<<n, f>>] = aliases[<<n, f>>] /\ current'[<<n, f>>] = current[<<n, f>>]
  BY <1>1 DEF Written, Versions, Keyring, Attached
<1> QED BY <1>2 DEF Unwritten

\* A call on the present lineage keeps the clauses of its name.
LEMMA WithinKept ==
    ASSUME LInv, TypeOK', NEW n \in Names, Within(n)
    PROVE  /\ LineageKey(n)' = LineageKey(n)
           /\ IsolatedAt(n, LineageKey(n), names[n].epoch)'
           /\ \A d \in DocTypes : ChainAt(n, d)'
           /\ FutureAt(n)' /\ ShapeAt(n)'
<1>0. /\ IsolatedAt(n, LineageKey(n), names[n].epoch) /\ FutureAt(n) /\ ShapeAt(n)
      /\ \A d \in DocTypes : ChainAt(n, d)
  BY ByName DEF LInv
<1>1. TypeOK /\ names[n].epoch \in Epochs /\ names[n].seq \in Nat /\ 0 \in Epochs /\ MaxSeq \in Nat
  BY NameFields, Constants DEF LInv
<1>2. PICK e \in {0, names[n].epoch} : LineageKey(n) = <<n, e>>
  BY KeyOfName DEF LInv
<1>3. PICK ep \in Epochs : names[n].epoch = ep
  BY <1>1
<1>4. e \in Epochs /\ Written(n, <<n, e>>, ep) /\ names'[n].epoch = ep /\ IsolatedAt(n, <<n, e>>, ep)
      /\ scenario' = scenario
  BY <1>0, <1>1, <1>2, <1>3 DEF Within
<1>5. LineageKey(n)' = <<n, e>>
  BY <1>2 DEF LineageKey, Within
<1>6. IsolatedAt(n, <<n, e>>, ep)' /\ \A d \in DocTypes : ChainAt(n, d)'
  BY <1>0, <1>1, <1>3, <1>4, IsolatedKept
<1>7. IsolatedAt(n, LineageKey(n), names[n].epoch)'
  BY <1>4, <1>5, <1>6
<1>8. names[n].seq # 0 /\ names'[n].seq \in {names[n].seq, names[n].seq + 1}
  BY <1>0 DEF ShapeAt, Blank, Within
<1>9. FutureAt(n)'
  <2>1. ASSUME NEW f \in Epochs, ep < f PROVE Unwritten(<<n, f>>)'
    <3>1. Unwritten(<<n, f>>)
      BY <2>1, <1>0, <1>3 DEF FutureAt
    <3>2. f \notin {e, 0}
      BY <2>1, <1>1, <1>2, <1>3 DEF Epochs
    <3> QED BY <3>1, <3>2, <1>4, UnwrittenKept
  <2>2. names'[n].seq # 0
    BY <1>1, <1>8
  <2> QED BY <2>1, <2>2, <1>4 DEF FutureAt
<1>10. ShapeAt(n)'
  BY <1>0, <1>1, <1>3, <1>4, <1>8 DEF ShapeAt, Epochs
<1> QED BY <1>2, <1>5, <1>6, <1>7, <1>9, <1>10

\* A registration finds nothing under the key of the lineage it begins.
LEMMA AnewKept ==
    ASSUME LInv, TypeOK', NEW n \in Names, Anew(n)
    PROVE  /\ LineageKey(n)' = <<n, NextEpoch(n)>>
           /\ IsolatedAt(n, LineageKey(n), names[n].epoch)'
           /\ \A d \in DocTypes : ChainAt(n, d)'
           /\ FutureAt(n)' /\ ShapeAt(n)'
<1>0. FutureAt(n) /\ ShapeAt(n) /\ \A d \in DocTypes : ChainAt(n, d)
  BY ByName DEF LInv
<1>1. TypeOK /\ names[n].epoch \in Epochs /\ names[n].seq \in Nat /\ 0 \in Epochs /\ MaxSeq \in Nat
  BY NameFields, Constants DEF LInv
<1>2. NextEpoch(n) \in Epochs
  <2>1. names'[n].epoch \in Epochs
    BY DEF TypeOK, NameState
  <2> QED BY <2>1 DEF Anew
<1>3. PICK ep \in Epochs : NextEpoch(n) = ep
  BY <1>2
<1>4. /\ Written(n, <<n, ep>>, ep) /\ names'[n].epoch = ep /\ names'[n].seq = names[n].seq + 1
      /\ marked' = IF ep = 0 THEN marked ELSE marked \cup {<<n, ep>>}
      /\ scenario' = scenario
  BY <1>3 DEF Anew
<1>5. names[n].epoch < ep \/ names[n].seq = 0
  BY <1>1, <1>3 DEF NextEpoch, Epochs
<1>6. Unwritten(<<n, ep>>)
  BY <1>0, <1>5 DEF FutureAt
<1>7. IsolatedAt(n, <<n, ep>>, ep)
  BY <1>6 DEF Unwritten, IsolatedAt
<1>8. IsolatedAt(n, <<n, ep>>, ep)' /\ \A d \in DocTypes : ChainAt(n, d)'
  BY <1>0, <1>1, <1>4, <1>7, IsolatedKept
<1>9. LineageKey(n)' = <<n, ep>>
  BY <1>4 DEF LineageKey
<1>10. IsolatedAt(n, LineageKey(n), names[n].epoch)'
  BY <1>4, <1>8, <1>9
<1>11. FutureAt(n)'
  <2>1. ASSUME NEW f \in Epochs, ep < f PROVE Unwritten(<<n, f>>)'
    <3>1. f \notin {ep, 0} /\ (names[n].epoch < f \/ names[n].seq = 0)
      BY <2>1, <1>1, <1>5 DEF Epochs
    <3>2. Unwritten(<<n, f>>)
      BY <3>1, <1>0 DEF FutureAt
    <3> QED BY <3>1, <3>2, <1>4, UnwrittenKept
  <2> QED BY <2>1, <1>1, <1>4 DEF FutureAt
<1>12. ep <= names[n].seq + 1
  BY <1>0, <1>1, <1>3 DEF ShapeAt, NextEpoch, Epochs
<1>13. ShapeAt(n)'
  BY <1>1, <1>4, <1>12 DEF ShapeAt
<1> QED BY <1>3, <1>8, <1>9, <1>10, <1>11, <1>13

\* Every clause of the invariant after a step.
LEMMA StepKept ==
    ASSUME LInv, TypeOK', Step
    PROVE  LInv'
<1> DEFINE Clauses(m) == /\ IsolatedAt(m, LineageKey(m), names[m].epoch)'
                         /\ \A d \in DocTypes : ChainAt(m, d)'
                         /\ FutureAt(m)' /\ ShapeAt(m)'
<1>1. ASSUME Elapsed, NEW m \in Names PROVE Clauses(m)
  <2>1. Untouched(m)
    BY <1>1 DEF Elapsed, Untouched
  <2> QED BY <2>1, UntouchedKept
<1>2. ASSUME NEW n \in Names, Within(n), NEW m \in Names PROVE Clauses(m)
  <2>1. CASE m = n
    BY <1>2, <2>1, WithinKept
  <2>2. CASE m # n
    BY <1>2, <2>2, UntouchedKept DEF Within, Written
  <2> QED BY <2>1, <2>2
<1>3. ASSUME NEW n \in Names, Anew(n), NEW m \in Names PROVE Clauses(m)
  <2>1. CASE m = n
    BY <1>3, <2>1, AnewKept
  <2>2. CASE m # n
    BY <1>3, <2>2, UntouchedKept DEF Anew, Written
  <2> QED BY <2>1, <2>2
<1>4. \A m \in Names : Clauses(m)
  BY <1>1, <1>2, <1>3 DEF Step
<1>5. LineageIsolated' <=> \A n \in Names : IsolatedAt(n, LineageKey(n), names[n].epoch)'
  BY DEF LineageIsolated, IsolatedAt
<1>6. PreviousInLineage' <=> \A n \in Names, d \in DocTypes : ChainAt(n, d)'
  BY DEF PreviousInLineage, ChainAt
<1>7. (Future' <=> \A n \in Names : FutureAt(n)') /\ (Shape' <=> \A n \in Names : ShapeAt(n)')
  BY DEF Future, FutureAt, Shape, ShapeAt
<1> QED BY <1>4, <1>5, <1>6, <1>7 DEF LInv

\* A name as an older contract left it.
LEMMA LegacyNameFacts ==
    ASSUME NEW a \in Accounts, NEW e \in 1..MaxSeq, SeqOfLineage(e) <= MaxSeq, NEW last \in 0..e
    PROVE  /\ LegacyName(a, e, last) \in NameState
           /\ LegacyName(a, e, last).epoch = e
           /\ LegacyName(a, e, last).seq \in Nat /\ LegacyName(a, e, last).seq > e
<1>0. MaxTime \in Nat /\ MaxSeq \in Nat
  BY Constants
<1> DEFINE v == IF last = e THEN e + 1 ELSE 0
           q == SeqOfLineage(e)
           x == MaxTime + 1
<1>1. v \in Nat /\ q \in 0..MaxSeq /\ q > e /\ x \in Nat /\ e \in Epochs
  BY <1>0 DEF SeqOfLineage, Epochs
<1>l. LegacyName(a, e, last) = [Blank EXCEPT !.status = "Active", !.asset = a, !.expireAt = x,
                                            !.seq = q, !.epoch = e, !.ownerDoc = v]
  BY DEF LegacyName
<1> HIDE DEF v, q, x
<1>2. Blank \in NameState
  BY <1>0 DEF NameState, Blank, Epochs
<1>3. a \in Accounts \cup {NoOwner}
  OBVIOUS
<1> DEFINE r == [Blank EXCEPT !.status = "Active", !.asset = a, !.expireAt = x,
                             !.seq = q, !.epoch = e, !.ownerDoc = v]
<1>4. r \in NameState
  BY <1>1, <1>2, <1>3 DEF NameState
<1>5. r.epoch = e /\ r.seq = q
  BY <1>2 DEF NameState
<1>6. q \in Nat /\ q > e
  BY <1>0, <1>1
<1> HIDE DEF r
<1>7. LegacyName(a, e, last) = r
  BY <1>l DEF r
<1> QED BY <1>4, <1>5, <1>6, <1>7

\* The documents of its lineages.
LEMMA OldDocsFacts ==
    ASSUME NEW a \in Accounts, NEW last \in Epochs
    PROVE  /\ OldDocs(a, last) \in Seq(Document)
           /\ Len(OldDocs(a, last)) = last + 1 /\ DOMAIN OldDocs(a, last) = 1..(last + 1)
           /\ \A v \in 1..(last + 1) :
                OldDocs(a, last)[v].previous = v - 1 /\ OldDocs(a, last)[v].epoch = v - 1
<1>0. MaxSeq \in Nat /\ last \in 0..MaxSeq
  BY Constants DEF Epochs
<1> DEFINE doc(v) == [status |-> "Active", previous |-> v - 1, payee |-> a, epoch |-> v - 1]
<1>1. ASSUME NEW v \in 1..(last + 1)
      PROVE  doc(v) \in Document /\ doc(v).previous = v - 1 /\ doc(v).epoch = v - 1
  <2>1. v - 1 \in Nat /\ v - 1 \in 0..MaxSeq
    BY <1>0
  <2> QED BY <2>1 DEF Document, Epochs
<1>2. OldDocs(a, last) = [v \in 1..(last + 1) |-> doc(v)]
  BY DEF OldDocs
<1> HIDE DEF doc
<1>3. last + 1 \in Nat /\ OldDocs(a, last) \in [1..(last + 1) -> Document]
  BY <1>0, <1>1, <1>2
<1> QED BY <1>1, <1>2, <1>3

\* A registry starts with blank names and names an older contract registered.
LEMMA InitLInv ==
    ASSUME Init
    PROVE  LInv
<1> DEFINE old == scenario.legacy
           isOld(k) == k[1] \in DOMAIN old /\ k[2] = 0
<1>1. PICK a \in Accounts, policy \in scenario.policies,
           wrote \in {w \in [DOMAIN old -> [Kinds -> Epochs]] :
                        \A n \in DOMAIN old, x \in Kinds : w[n][x] <= old[n]} :
        /\ names = [n \in Names |->
                      IF n \in DOMAIN old THEN LegacyName(a, old[n], wrote[n]["docs"]) ELSE Blank]
        /\ keys = [k \in StateKeys |-> [kid \in Kids |->
                     IF isOld(k) /\ kid \in scenario.kids
                       THEN [acct |-> a, from |-> 0, until |-> 0, status |-> "Active",
                             epoch |-> wrote[k[1]]["keys"]]
                       ELSE NoKey]]
        /\ sets = [k \in StateKeys |->
                     IF isOld(k)
                       THEN [seq |-> SeqOfLineage(old[k[1]]), count |-> Cardinality(scenario.kids)]
                       ELSE [seq |-> 0, count |-> 0]]
        /\ rules = [k \in StateKeys |->
                      IF isOld(k) THEN [rules |-> policy, epoch |-> wrote[k[1]]["rules"]]
                      ELSE [rules |-> {}, epoch |-> 0]]
        /\ aliases = [k \in StateKeys |-> IF isOld(k) THEN {wrote[k[1]]["alias"]} ELSE {}]
        /\ docs = [n \in Names |-> [d \in DocTypes |->
                     IF n \in DOMAIN old /\ d = Owner THEN OldDocs(a, wrote[n]["docs"])
                     ELSE <<>>]]
        /\ current = [k \in StateKeys |-> [d \in DocTypes |->
                        IF isOld(k) /\ d = Owner THEN wrote[k[1]]["docs"] + 1 ELSE 0]]
  BY DEF Init
<1>2. /\ scenario \in Scenarios /\ scenario.kids \subseteq Kids /\ scenario.policies \subseteq SUBSET Rule
      /\ now = 0 /\ MaxTime \in Nat /\ MaxSeq \in Nat \ {0} /\ marked = {} /\ 0 \in Epochs
  BY Constants, ConstantsAssumption DEF Init
<1>3. \A n \in DOMAIN old : /\ n \in Names /\ old[n] \in 1..MaxSeq /\ old[n] \in Nat
                            /\ SeqOfLineage(old[n]) <= MaxSeq /\ SeqOfLineage(old[n]) \in Nat
  BY <1>2, LegacyNames DEF SeqOfLineage
<1>4. \A n \in DOMAIN old, x \in Kinds : /\ wrote[n][x] \in Epochs /\ wrote[n][x] \in Nat
                                         /\ wrote[n][x] \in 0..old[n]
  BY <1>1, <1>2, <1>3 DEF Epochs
<1>5. {"keys", "rules", "alias", "docs"} \subseteq Kinds
  BY DEF Kinds
<1>6. Cardinality(scenario.kids) \in Nat
  BY <1>2, Constants, FS_Subset, FS_CardinalityType
<1>7. Blank \in NameState /\ Blank.epoch = 0 /\ Blank.seq = 0
  BY <1>2 DEF NameState, Blank
<1>8. \A n \in Names :
        \/ /\ n \in DOMAIN old /\ names[n] \in NameState /\ names[n].epoch = old[n]
           /\ names[n].seq \in Nat /\ names[n].seq > old[n]
        \/ n \notin DOMAIN old /\ names[n] = Blank
  <2> SUFFICES ASSUME NEW n \in Names, n \in DOMAIN old
               PROVE  /\ names[n] \in NameState /\ names[n].epoch = old[n]
                      /\ names[n].seq \in Nat /\ names[n].seq > old[n]
    BY <1>1
  <2>1. names[n] = LegacyName(a, old[n], wrote[n]["docs"])
    BY <1>1
  <2>2. old[n] \in 1..MaxSeq /\ SeqOfLineage(old[n]) <= MaxSeq /\ wrote[n]["docs"] \in 0..old[n]
    BY <1>3, <1>4, <1>5
  <2> HIDE DEF old
  <2> QED BY <2>1, <2>2, LegacyNameFacts
<1>9. \A n \in Names : LineageKey(n) = <<n, 0>>
  BY <1>2 DEF LineageKey
<1>10. \A n \in Names, e \in Epochs : <<n, e>> \in StateKeys /\ (isOld(<<n, e>>) <=> n \in DOMAIN old /\ e = 0)
  BY DEF StateKeys
<1>11. TypeOK
  <2>1. names \in [Names -> NameState]
    BY <1>1, <1>7, <1>8
  <2>2. keys \in [StateKeys -> [Kids -> AuthorityKey \cup {NoKey}]]
    <3>1. \A k \in StateKeys : isOld(k) => wrote[k[1]]["keys"] \in Epochs
      BY <1>4, <1>5
    <3>2. 0 \in 0..MaxTime
      BY <1>2
    <3>3. \A x \in Epochs : [acct |-> a, from |-> 0, until |-> 0, status |-> "Active", epoch |-> x] \in AuthorityKey
      BY <3>2 DEF AuthorityKey
    <3> HIDE DEF isOld
    <3> QED BY <1>1, <3>1, <3>3
  <2>3. docs \in [Names -> [DocTypes -> Seq(Document)]]
    <3>1. \A n \in DOMAIN old : OldDocs(a, wrote[n]["docs"]) \in Seq(Document)
      BY <1>4, <1>5, OldDocsFacts
    <3>2. << >> \in Seq(Document)
      OBVIOUS
    <3> QED BY <1>1, <3>1, <3>2
  <2>4. sets \in [StateKeys -> AuthoritySet]
    <3>1. \A k \in StateKeys : isOld(k) => SeqOfLineage(old[k[1]]) \in Nat
      BY <1>3
    <3> HIDE DEF isOld, old
    <3> QED BY <1>1, <1>6, <3>1 DEF AuthoritySet
  <2>5. rules \in [StateKeys -> Policy]
    <3>1. \A k \in StateKeys : isOld(k) => wrote[k[1]]["rules"] \in Epochs
      BY <1>4, <1>5
    <3>2. policy \in SUBSET Rule /\ {} \in SUBSET Rule
      BY <1>2
    <3> HIDE DEF isOld, old
    <3> QED BY <1>1, <1>2, <3>1, <3>2 DEF Policy
  <2>6. aliases \in [StateKeys -> SUBSET Epochs]
    <3>1. \A k \in StateKeys : isOld(k) => wrote[k[1]]["alias"] \in Epochs
      BY <1>4, <1>5
    <3> HIDE DEF isOld, old
    <3> QED BY <1>1, <3>1
  <2>7. current \in [StateKeys -> [DocTypes -> Nat]]
    <3>1. \A k \in StateKeys : isOld(k) => wrote[k[1]]["docs"] + 1 \in Nat
      BY <1>4, <1>5
    <3> HIDE DEF isOld, old
    <3> QED BY <1>1, <3>1
  <2>8. now \in 0..MaxTime /\ marked \subseteq StateKeys
    BY <1>2
  <2> QED BY <1>2, <2>1, <2>2, <2>3, <2>4, <2>5, <2>6, <2>7, <2>8 DEF TypeOK
<1>12. Shape
  <2> SUFFICES ASSUME NEW n \in Names
               PROVE  names[n].epoch <= names[n].seq /\ (names[n].seq = 0 => names[n] = Blank)
    BY DEF Shape
  <2>1. CASE n \in DOMAIN old
    BY <2>1, <1>3, <1>8
  <2>2. CASE n \notin DOMAIN old
    BY <2>2, <1>7, <1>8
  <2> QED BY <2>1, <2>2
<1>13. \A n \in Names, e \in Epochs : ~(n \in DOMAIN old /\ e = 0) => Unwritten(<<n, e>>)
  BY <1>1, <1>10 DEF Unwritten
<1>14. Future
  <2> SUFFICES ASSUME NEW n \in Names, NEW e \in Epochs, names[n].epoch < e \/ names[n].seq = 0
               PROVE  ~(n \in DOMAIN old /\ e = 0)
    BY <1>13 DEF Future
  <2> SUFFICES ASSUME n \in DOMAIN old, e = 0
               PROVE  FALSE
    OBVIOUS
  <2>1. names[n].epoch = old[n] /\ old[n] \in Nat /\ names[n].seq > old[n] /\ names[n].seq \in Nat
    BY <1>3, <1>8
  <2> QED BY <2>1
<1>15. \A n \in DOMAIN old, d \in DocTypes :
         /\ current[<<n, 0>>][d] = IF d = Owner THEN wrote[n]["docs"] + 1 ELSE 0
         /\ docs[n][d] = IF d = Owner THEN OldDocs(a, wrote[n]["docs"]) ELSE << >>
  BY <1>1, <1>2, <1>3, <1>10
<1>16. \A n \in Names \ DOMAIN old, d \in DocTypes : current[<<n, 0>>][d] = 0 /\ docs[n][d] = << >>
  BY <1>1, <1>2, <1>10
<1>17. PreviousInLineage
  <2> SUFFICES ASSUME NEW n \in Names, NEW d \in DocTypes
               PROVE  ChainAt(n, d)
    BY ByName
  <2>1. CASE n \in DOMAIN old /\ d = Owner
    <3>1. PICK last \in Epochs : last = wrote[n]["docs"] /\ last \in 0..old[n] /\ last \in Nat
      BY <2>1, <1>4, <1>5
    <3>2. PICK s : s = OldDocs(a, last)
      OBVIOUS
    <3>3. docs[n][d] = s /\ current[<<n, 0>>][d] = last + 1
      BY <2>1, <3>1, <3>2, <1>15
    <3>4. Len(s) = last + 1 /\ DOMAIN s = 1..(last + 1)
          /\ \A v \in 1..(last + 1) : s[v].previous = v - 1 /\ s[v].epoch = v - 1
      BY <3>2, OldDocsFacts
    <3>5. ASSUME NEW v \in 1..(last + 1), v - 1 # 0
          PROVE  v - 1 \in 1..(v - 1) /\ s[v - 1].epoch \in Seen(old, n, v - 1)
      <4>1. old[n] \in Nat
        BY <2>1, <1>3
      <4>2. v - 1 \in 1..(last + 1) /\ v - 1 <= old[n] /\ v - 1 \in 1..(v - 1)
        BY <3>1, <3>5, <4>1
      <4>3. s[v - 1].epoch = v - 2 /\ v - 2 \in 0..(v - 1)
        BY <3>4, <3>5, <4>2
      <4> HIDE DEF old
      <4> QED BY <2>1, <4>2, <4>3 DEF Seen
    <3>6. \A v \in DOMAIN s : s[v].previous # 0 =>
            s[v].previous \in 1..(v - 1) /\ s[s[v].previous].epoch \in Seen(old, n, s[v].epoch)
      BY <3>4, <3>5
    <3> QED BY <3>3, <3>4, <3>6 DEF ChainAt
  <2>2. CASE ~(n \in DOMAIN old /\ d = Owner)
    <3>1. docs[n][d] = << >> /\ current[<<n, 0>>][d] = 0
      BY <2>2, <1>15, <1>16
    <3> QED BY <3>1 DEF ChainAt
  <2> QED BY <2>1, <2>2
<1>18. LineageIsolated
  <2> SUFFICES ASSUME NEW n \in Names
               PROVE  IsolatedAt(n, <<n, 0>>, names[n].epoch)
    BY <1>9, ByName
  <2>1. CASE n \in DOMAIN old
    <3>1. names[n].epoch = old[n] /\ old[n] \in Nat /\ Seen(old, n, old[n]) = 0..old[n]
      BY <2>1, <1>3, <1>8 DEF Seen
    <3>2. \A x \in Kinds : wrote[n][x] \in Seen(old, n, old[n])
      BY <2>1, <3>1, <1>4
    <3>3. \A kid \in Kids : keys[<<n, 0>>][kid] # NoKey => keys[<<n, 0>>][kid].epoch = wrote[n]["keys"]
      BY <1>1, <1>2, <1>10
    <3>4. rules[<<n, 0>>].epoch = wrote[n]["rules"] /\ aliases[<<n, 0>>] = {wrote[n]["alias"]}
      BY <2>1, <1>1, <1>2, <1>10
    <3>5. ASSUME NEW d \in DocTypes, current[<<n, 0>>][d] > 0
          PROVE  /\ current[<<n, 0>>][d] \in DOMAIN docs[n][d]
                 /\ docs[n][d][current[<<n, 0>>][d]].epoch \in Seen(old, n, old[n])
      <4>1. d = Owner
        BY <2>1, <3>5, <1>15
      <4>2. PICK last \in Epochs : last = wrote[n]["docs"] /\ last \in Nat
        BY <2>1, <1>4, <1>5
      <4>3. docs[n][d] = OldDocs(a, last) /\ current[<<n, 0>>][d] = last + 1
        BY <2>1, <4>1, <4>2, <1>15
      <4>4. last + 1 \in DOMAIN OldDocs(a, last) /\ OldDocs(a, last)[last + 1].epoch = last
        BY <4>2, OldDocsFacts
      <4> HIDE DEF old
      <4> QED BY <4>2, <4>3, <4>4, <3>2, <1>5
    <3> QED BY <3>1, <3>2, <3>3, <3>4, <3>5, <1>5 DEF IsolatedAt
  <2>2. CASE n \notin DOMAIN old
    <3>1. Unwritten(<<n, 0>>)
      BY <2>2, <1>2, <1>13
    <3> QED BY <3>1 DEF IsolatedAt, Unwritten
  <2> QED BY <2>1, <2>2
<1> QED BY <1>11, <1>12, <1>14, <1>17, <1>18 DEF LInv

\* A step that changes nothing.
LEMMA StutterLInv ==
    ASSUME LInv, UNCHANGED vars
    PROVE  LInv'
<1>1. TypeOK' /\ Step
  BY DEF LInv, TypeOK, vars, Step, Elapsed
<1> QED BY <1>1, StepKept

(***************************************************************************)
(* Theorems                                                                *)
(***************************************************************************)
\* The inductive invariant of the registry holds.
THEOREM RegistryInvariance == Spec => []LInv
<1>1. Init => LInv
  BY InitLInv
<1>2. LInv /\ [Next]_vars => LInv'
  BY NextIsStep, StepKept, StutterLInv
<1> QED BY <1>1, <1>2, PTL DEF Spec

(* The state of a name is the state of its present lineage, and documents  *)
(* refer back within their lineage only: _lineageStateKey, its marker and  *)
(* the version counters under the name hash, for every history of calls,   *)
(* also of names that an older contract left in any lineage with entries   *)
(* of any earlier one under the name hash.  Only those lineages of the     *)
(* older contract show what the ones before them left.                     *)
THEOREM LineagesStayApart == Spec => []LineagesApart
<1>1. LInv => LineagesApart
  BY DEF LInv, LineagesApart
<1> QED BY <1>1, RegistryInvariance, PTL

(***************************************************************************)
(* What no call undoes                                                     *)
(***************************************************************************)
\* The actions of NothingGoesBack, for one name.
Guarded(n) ==
    /\ names'[n].seq >= names[n].seq
    /\ names'[n].seq = names[n].seq =>
         /\ names'[n] = names[n]
         /\ docs'[n] = docs[n]
         /\ \A e \in Epochs : /\ rules'[<<n, e>>] = rules[<<n, e>>]
                              /\ aliases'[<<n, e>>] = aliases[<<n, e>>]
                              /\ current'[<<n, e>>] = current[<<n, e>>]

Grows(n) ==
    /\ names'[n].epoch \in {names[n].epoch, names[n].epoch + 1}
    /\ names'[n].epoch = names[n].epoch =>
         /\ names'[n].minIat >= names[n].minIat
         /\ names'[n].policySeq >= names[n].policySeq
         /\ sets[LineageKey(n)]'.seq >= sets[LineageKey(n)].seq
         /\ sets[LineageKey(n)].count > 0 => sets[LineageKey(n)]'.count > 0

Remembers(n, d) ==
    \A v \in DOMAIN docs[n][d] :
        /\ v \in DOMAIN docs'[n][d]
        /\ [docs'[n][d][v] EXCEPT !.payee = docs[n][d][v].payee] = docs[n][d][v]
        /\ docs'[n][d][v] # docs[n][d][v] => v = current[LineageKey(n)][d]

\* The sequences of a lineage are numbers.
LEMMA SetIsTyped ==
    ASSUME TypeOK, NEW k \in StateKeys
    PROVE  sets[k].seq \in Nat /\ sets[k].count \in Nat
BY DEF TypeOK, AuthoritySet

\* A stored version is a document.
LEMMA DocIsTyped ==
    ASSUME TypeOK, NEW n \in Names, NEW d \in DocTypes
    PROVE  /\ docs[n][d] \in Seq(Document)
           /\ \A v \in DOMAIN docs[n][d] :
                [docs[n][d][v] EXCEPT !.payee = docs[n][d][v].payee] = docs[n][d][v]
<1>1. docs[n][d] \in Seq(Document)
  BY DEF TypeOK
<1>2. \A x \in Document : [x EXCEPT !.payee = x.payee] = x
  BY DEF Document
<1>3. \A v \in DOMAIN docs[n][d] : docs[n][d][v] \in Document
  BY <1>1
<1> QED BY <1>1, <1>2, <1>3

\* A name that is left alone.
LEMMA UntouchedGoesOn ==
    ASSUME LInv, NEW n \in Names, Untouched(n)
    PROVE  Guarded(n) /\ Grows(n) /\ \A d \in DocTypes : Remembers(n, d)
<1>0. TypeOK /\ LineageKey(n) \in StateKeys /\ names[n].seq \in Nat /\ names[n].minIat \in Nat
      /\ names[n].policySeq \in Nat
  BY KeyOfName, NameFields DEF LInv
<1>1. Guarded(n)
  BY <1>0 DEF Guarded, Untouched
<1>2. PICK f \in Epochs : LineageKey(n) = <<n, f>>
  BY <1>0, KeyOfName, Constants
<1>3. sets[LineageKey(n)]' = sets[LineageKey(n)]
  BY <1>2, UntouchedKept DEF Untouched
<1>4. Grows(n)
  BY <1>0, <1>3, SetIsTyped DEF Grows, Untouched
<1>5. \A d \in DocTypes : Remembers(n, d)
  BY <1>0, DocIsTyped DEF Remembers, Untouched
<1> QED BY <1>1, <1>4, <1>5

\* Documents written in a lineage leave the versions there are alone.
LEMMA VersionsRemember ==
    ASSUME TypeOK, NEW n \in Names, NEW key \in StateKeys, NEW epoch, NEW d \in DocTypes,
           Versions(n, key, epoch)
    PROVE  \A v \in DOMAIN docs[n][d] :
             /\ v \in DOMAIN docs'[n][d]
             /\ [docs'[n][d][v] EXCEPT !.payee = docs[n][d][v].payee] = docs[n][d][v]
             /\ docs'[n][d][v] # docs[n][d][v] => Retargeted(n, key, d) /\ v = current[key][d]
<1> DEFINE s == docs[n][d]
           t == docs'[n][d]
           c == current[key][d]
<1>0. s \in Seq(Document) /\ \A v \in DOMAIN s : [s[v] EXCEPT !.payee = s[v].payee] = s[v]
  BY DocIsTyped
<1>1. CASE t = s
  BY <1>0, <1>1
<1>2. CASE Appended(n, key, epoch, d)
  <2>1. PICK doc \in Document : t = Append(s, doc)
    BY <1>2 DEF Appended
  <2> HIDE DEF s, t
  <2>2. \A v \in DOMAIN s : v \in DOMAIN t /\ t[v] = s[v]
    BY <1>0, <2>1, AppendFacts
  <2> QED BY <1>0, <2>2 DEF s, t
<1>3. CASE Retargeted(n, key, d)
  <2>1. c \in DOMAIN s /\ \E a \in Accounts : t = [s EXCEPT ![c] = [@ EXCEPT !.payee = a]]
    BY <1>3 DEF Retargeted
  <2> HIDE DEF s, t, c
  <2>2. \A i \in DOMAIN s : /\ i \in DOMAIN t /\ [t[i] EXCEPT !.payee = s[i].payee] = s[i]
                            /\ i # c => t[i] = s[i]
    BY <1>0, <2>1, RetargetFacts
  <2> QED BY <1>3, <2>2 DEF s, t, c
<1> QED BY <1>1, <1>2, <1>3 DEF Versions

\* A call on the present lineage.
LEMMA WithinGoesOn ==
    ASSUME LInv, TypeOK', NEW n \in Names, Within(n)
    PROVE  Guarded(n) /\ Grows(n) /\ \A d \in DocTypes : Remembers(n, d)
<1>0. TypeOK /\ LineageKey(n) \in StateKeys /\ names[n].seq \in Nat
  BY KeyOfName, NameFields DEF LInv
<1>1. Guarded(n)
  BY <1>0 DEF Within, Guarded
<1>2. sets[LineageKey(n)]' = sets'[LineageKey(n)]
  BY WithinKept
<1>3. Grows(n)
  BY <1>2 DEF Within, Written, Keyring, Grows
<1>4. \A d \in DocTypes : Remembers(n, d)
  BY <1>0, VersionsRemember DEF Within, Written, Remembers
<1> QED BY <1>1, <1>3, <1>4

\* A registration: what was stored before belongs to another lineage.
LEMMA AnewGoesOn ==
    ASSUME LInv, TypeOK', NEW n \in Names, Anew(n)
    PROVE  Guarded(n) /\ Grows(n) /\ \A d \in DocTypes : Remembers(n, d)
<1>0. TypeOK /\ names[n].seq \in Nat /\ names[n].epoch \in Epochs
  BY KeyOfName, NameFields DEF LInv
<1>1. Guarded(n)
  BY <1>0 DEF Anew, Guarded
<1>2. PICK ep \in Epochs : NextEpoch(n) = ep
  <2>1. names'[n].epoch \in Epochs
    BY DEF TypeOK, NameState
  <2> QED BY <2>1 DEF Anew
<1>3. Written(n, <<n, ep>>, ep) /\ names'[n].epoch = ep /\ names'[n].minIat = 0
      /\ names'[n].policySeq = 0 /\ LineageKey(n)' = <<n, ep>> /\ <<n, ep>> \in StateKeys
  BY <1>2, AnewKept DEF Anew, StateKeys
<1>4. names[n].seq # 0 => ep = names[n].epoch + 1
  BY <1>2 DEF NextEpoch
<1>5. names[n].seq = 0 => /\ ep = 0 /\ names[n].epoch = 0 /\ names[n].minIat = 0
                          /\ names[n].policySeq = 0
  BY <1>2 DEF NextEpoch, LInv, Shape, Blank
<1>6. Grows(n)
  <2>1. CASE names[n].seq # 0
    <3>1. ep = names[n].epoch + 1 /\ ep # names[n].epoch
      BY <2>1, <1>0, <1>4 DEF Epochs
    <3> QED BY <3>1, <1>3 DEF Grows
  <2>2. CASE names[n].seq = 0
    <3>1. LineageKey(n) = <<n, ep>>
      BY <2>2, <1>5 DEF LineageKey
    <3>2. /\ sets[LineageKey(n)]' = sets'[<<n, ep>>]
          /\ sets'[<<n, ep>>].seq >= sets[<<n, ep>>].seq
          /\ sets[<<n, ep>>].count > 0 => sets'[<<n, ep>>].count > 0
      BY <1>3 DEF Written, Keyring
    <3> QED BY <2>2, <3>1, <3>2, <1>3, <1>5 DEF Grows
  <2> QED BY <2>1, <2>2
<1>7. ASSUME NEW d \in DocTypes PROVE Remembers(n, d)
  <2>1. Unwritten(<<n, ep>>)
    <3>1. names[n].epoch < ep \/ names[n].seq = 0
      BY <1>0, <1>4 DEF Epochs
    <3> QED BY <3>1 DEF LInv, Future
  <2>2. ~Retargeted(n, <<n, ep>>, d)
    <3>1. docs[n][d] \in Seq(Document) /\ current[<<n, ep>>][d] = 0
      BY <1>0, <2>1, DocIsTyped DEF Unwritten
    <3> QED BY <3>1 DEF Retargeted
  <2> QED BY <1>0, <1>3, <2>2, VersionsRemember DEF Written, Remembers
<1> QED BY <1>1, <1>6, <1>7

\* The same for every name, after any step.
LEMMA StepGoesOn ==
    ASSUME LInv, [Next]_vars, NEW n \in Names
    PROVE  Guarded(n) /\ Grows(n) /\ \A d \in DocTypes : Remembers(n, d)
<1>1. CASE Next
  <2>1. TypeOK' /\ Step
    BY <1>1, NextIsStep
  <2>2. CASE Elapsed
    <3>1. Untouched(n)
      BY <2>2 DEF Elapsed, Untouched
    <3> QED BY <3>1, UntouchedGoesOn
  <2>3. CASE \E m \in Names : Within(m)
    <3>1. PICK m \in Names : Within(m)
      BY <2>3
    <3>2. CASE m = n
      BY <2>1, <3>1, <3>2, WithinGoesOn
    <3>3. CASE m # n
      BY <3>1, <3>3, UntouchedGoesOn DEF Within, Written
    <3> QED BY <3>2, <3>3
  <2>4. CASE \E m \in Names : Anew(m)
    <3>1. PICK m \in Names : Anew(m)
      BY <2>4
    <3>2. CASE m = n
      BY <2>1, <3>1, <3>2, AnewGoesOn
    <3>3. CASE m # n
      BY <3>1, <3>3, UntouchedGoesOn DEF Anew, Written
    <3> QED BY <3>2, <3>3
  <2> QED BY <2>1, <2>2, <2>3, <2>4 DEF Step
<1>2. CASE UNCHANGED vars
  <2>1. Untouched(n)
    BY <1>2 DEF vars, Untouched
  <2> QED BY <2>1, UntouchedGoesOn
<1> QED BY <1>1, <1>2

(* nameSeq never goes back and covers everything but the keys, nothing     *)
(* that protects verifiers goes back within a lineage, and versions are    *)
(* never taken back: the MutationGuard, the floors and the latch of the    *)
(* authority set, for every history of calls.                              *)
THEOREM CallsUndoNothing == Spec => NothingGoesBack
<1>1. LInv /\ [Next]_vars =>
        [\A n \in Names :
          /\ names'[n].seq >= names[n].seq
          /\ names'[n].seq = names[n].seq =>
               /\ names'[n] = names[n]
               /\ docs'[n] = docs[n]
               /\ \A e \in Epochs : /\ rules'[<<n, e>>] = rules[<<n, e>>]
                                    /\ aliases'[<<n, e>>] = aliases[<<n, e>>]
                                    /\ current'[<<n, e>>] = current[<<n, e>>]]_vars
  BY StepGoesOn DEF Guarded
<1>2. LInv /\ [Next]_vars =>
        [\A n \in Names :
          /\ names'[n].epoch \in {names[n].epoch, names[n].epoch + 1}
          /\ names'[n].epoch = names[n].epoch =>
               LET old == sets[LineageKey(n)]
                   new == sets[LineageKey(n)]'
               IN  /\ names'[n].minIat >= names[n].minIat
                   /\ names'[n].policySeq >= names[n].policySeq
                   /\ new.seq >= old.seq
                   /\ old.count > 0 => new.count > 0]_vars
  BY StepGoesOn DEF Grows
<1>3. LInv /\ [Next]_vars =>
        [\A n \in Names, d \in DocTypes : \A v \in DOMAIN docs[n][d] :
          /\ v \in DOMAIN docs'[n][d]
          /\ [docs'[n][d][v] EXCEPT !.payee = docs[n][d][v].payee] = docs[n][d][v]
          /\ docs'[n][d][v] # docs[n][d][v] => v = current[LineageKey(n)][d]]_vars
  BY StepGoesOn DEF Remembers
<1> QED BY <1>1, <1>2, <1>3, RegistryInvariance, PTL
        DEF Spec, NothingGoesBack, GuardCoversName, LineageMonotone, HistoryKept

(***************************************************************************)
(* Owners that can be resolved                                             *)
(***************************************************************************)
\* An active name stays in its lineage, and only a call that has validated its
\* owner path gives it another owner.
LEMMA ActiveStays ==
    ASSUME LInv, [Next]_vars, NEW n \in Names, Active(n)
    PROVE  /\ names'[n].epoch = names[n].epoch
           /\ names'[n].semantic = names[n].semantic \/ OwnerPathValid(n)'
<1>a. names[n].status = "Active"
  BY DEF Active
<1>1. CASE Next
  <2>1. Step
    BY <1>1, NextIsStep
  <2>2. CASE Elapsed
    BY <2>2 DEF Elapsed
  <2>3. ASSUME NEW m \in Names, Within(m) \/ Anew(m), m # n PROVE names'[n] = names[n]
    BY <2>3 DEF Within, Anew, Written, Untouched
  <2>4. CASE Within(n)
    BY <2>4 DEF Within
  <2>5. ~Anew(n)
    BY <1>a DEF Anew
  <2> QED BY <2>1, <2>2, <2>3, <2>4, <2>5 DEF Step
<1>2. CASE UNCHANGED vars
  BY <1>2 DEF vars
<1> QED BY <1>1, <1>2

\* A name with authentication keys keeps them as long as it is active: the latch.
LEMMA AuthorityStays ==
    ASSUME LInv, [Next]_vars, NEW p, HasAuthority(p), p \in Names => Active(p)'
    PROVE  HasAuthority(p)'
<1>1. CASE p \in Names
  <2>1. Active(p) /\ sets[LineageKey(p)].count > 0
    BY <1>1 DEF HasAuthority
  <2>2. names'[p].epoch = names[p].epoch
    BY <1>1, <2>1, ActiveStays
  <2>3. sets[LineageKey(p)]'.count > 0
    BY <1>1, <2>1, <2>2, StepGoesOn DEF Grows
  <2> QED BY <1>1, <2>3 DEF HasAuthority
<1>2. CASE p \notin Names
  BY <1>2 DEF HasAuthority
<1> QED BY <1>1, <1>2

\* The owner a name shows can be resolved after a step if it could before, unless a
\* name was given up or ran out.
LEMMA OwnerStays ==
    ASSUME LInv, [Next]_vars, NEW n \in Names, Active(n), HasAuthority(names[n].semantic),
           \A m \in Names : Active(m) => Active(m)'
    PROVE  HasAuthority(names[n].semantic)'
<1>1. CASE names'[n].semantic = names[n].semantic
  <2>1. PICK p : p = names[n].semantic
    OBVIOUS
  <2>2. HasAuthority(p) /\ (p \in Names => Active(p)')
    BY <2>1 DEF HasAuthority
  <2>3. HasAuthority(p)'
    BY <2>2, AuthorityStays
  <2>4. names[n].semantic' = p
    BY <1>1, <2>1
  <2> QED BY <2>3, <2>4
<1>2. CASE OwnerPathValid(n)'
  BY <1>2 DEF OwnerPathValid, OwnerResolves
<1> QED BY <1>1, <1>2, ActiveStays

\* The same for the path through the parent.
LEMMA ResolutionStays ==
    ASSUME LInv, [Next]_vars, NEW n \in Names, Active(n), OwnerResolves(n),
           \A m \in Names : Active(m) => Active(m)'
    PROVE  OwnerResolves(n)'
<1>1. CASE OwnerPathValid(n)'
  BY <1>1 DEF OwnerPathValid
<1>2. CASE names'[n].semantic = names[n].semantic
  <2>1. HasAuthority(names[n].semantic)'
    BY OwnerStays DEF OwnerResolves
  <2>2. ASSUME names[n].semantic = NoOwner, n \notin Roots
        PROVE  Active(Parent[n])' /\ HasAuthority(names[Parent[n]].semantic)'
    <3>1. Parent[n] \in Names
      BY <2>2, ConstantsAssumption DEF Roots
    <3>2. Active(Parent[n]) /\ HasAuthority(names[Parent[n]].semantic)
      BY <2>2 DEF OwnerResolves
    <3>3. PICK m \in Names : m = Parent[n]
      BY <3>1
    <3>4. Active(m)' /\ HasAuthority(names[m].semantic)'
      BY <3>2, <3>3, OwnerStays
    <3> QED BY <3>3, <3>4
  <2> QED BY <1>2, <2>1, <2>2 DEF OwnerResolves
<1> QED BY <1>1, <1>2, ActiveStays

(* A name whose owner resolves keeps an owner that resolves until it, or a *)
(* name it depends on, is given up or runs out: _validateOwnerPath on the  *)
(* state a call leaves, and the latch of the authority sets.               *)
THEOREM OwnersStayReachable == Spec => OwnerStaysReachable
<1>1. LInv /\ [Next]_vars =>
        [\A n \in Names :
          /\ Active(n) /\ OwnerResolves(n)
          /\ Active(n)' /\ ~OwnerResolves(n)'
          => \E m \in Names : Active(m) /\ ~Active(m)']_vars
  BY ResolutionStays
<1> QED BY <1>1, RegistryInvariance, PTL DEF Spec, OwnerStaysReachable
=============================================================================

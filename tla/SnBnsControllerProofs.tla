----------------------- MODULE SnBnsControllerProofs -----------------------
(***************************************************************************)
(* Proofs about SnBnsController: for any number of requests, payloads and  *)
(* faults, WritesSafe holds in every state and a finished row is final.    *)
(*                                                                         *)
(* The inductive invariant WInv adds to the properties what the code       *)
(* relies on without saying it: which row the holder of the execution lock *)
(* works on and what it has seen of the chain (LockInv), that only damaged *)
(* rows are given up and each costs a fault (RowInv, CountInv), that the   *)
(* chain takes nonces in order (NonceInv), that the nonce cache is above   *)
(* every stored nonce while the process stays up (CacheAbove), and that a  *)
(* cached Pending is true as long as the node forgets nothing (CachedInv). *)
(***************************************************************************)
EXTENDS SnBnsController, FiniteSetTheorems, TLAPS

(***************************************************************************)
(* The inductive invariant                                                 *)
(***************************************************************************)
Present(r) == records[r] # None

\* The chain holds t with this receipt.
Witnessed(t, status) == \E i \in DOMAIN mined : mined[i].tx = t /\ mined[i].status = status

\* A row stores a transaction of its own request; only a row that does not decode
\* is quarantined, and rows stop decoding in a world with damage only.
RowInv ==
    \A r \in Requests :
        Present(r) =>
            /\ records[r].tx.req = r
            /\ records[r].state = "Failed" => ~records[r].intact
            /\ ~records[r].intact => "damage" \in world.kinds

\* A request is signed again only after its row was damaged.
CountInv ==
    \A r \in Requests :
        /\ ~Present(r) => signed[r] <= faults
        /\ Present(r) /\ records[r].intact => signed[r] <= faults + 1
        /\ Present(r) /\ ~records[r].intact => signed[r] <= faults

\* The chain takes the signer's transactions in the order of their nonces.
NonceInv == \A i \in DOMAIN mined : mined[i].tx.nonce = i - 1

PoolFinite == IsFiniteSet(PoolNonces)

\* next_nonces holds nothing or one value.
CacheOne == nextNonce = {} \/ \E n \in nextNonce : nextNonce = {n}

\* While the process stays up the cached nonce is above every stored one.
CacheAbove ==
    Mild => \A r \in Requests : Present(r) => \E n \in nextNonce : records[r].tx.nonce < n

\* What the BNS server remembers as Pending is alive, unless the node forgets.
CachedInv ==
    Mild => \A c \in cached : c.state = "Pending" => c.tx \in pool \cup OnChain

\* The steps of a future that works on a stored row.
RowSteps == {"recover", "invalid", "quarantine", "remove", "requery", "send", "query", "update"}

\* Which row the holder of execution_lock works on, and what it has seen.
LockInv ==
    /\ lock # Free => \A r \in lock.todo : Present(r)
    /\ lock # Free /\ lock.mode = "RequestReplay" => lock.todo = {}
    /\ At("prepare") => ~Present(lock.req) /\ lock.mode = "RequestReplay"
    /\ \A s \in RowSteps : At(s) => Present(lock.req)
    /\ At("requery") => Held.state = "Failed" /\ lock.mode = "RequestReplay"
    /\ At("invalid") => ~Held.intact
    /\ At("quarantine") => ~Held.intact
    /\ At("remove") => Held.state = "Failed" /\ lock.mode = "RequestReplay"
    /\ At("update") /\ lock.seen \in Receipts => Witnessed(Held.tx, lock.seen)
    /\ At("update") /\ Mild => Held.tx \in pool \cup OnChain

WInv ==
    /\ TypeOK
    /\ RowInv
    /\ CountInv
    /\ CachedInv
    /\ NonceInv
    /\ PoolFinite
    /\ CacheOne
    /\ LockInv
    /\ RecordTruth
    /\ BroadcastIsRecorded
    /\ AckedIsAlive
    /\ CacheAbove
    /\ NonceUnique

(***************************************************************************)
(* Operators                                                               *)
(***************************************************************************)
\* A set of naturals that is not empty has a least element.
LEMMA LeastNatural ==
    ASSUME NEW S \in SUBSET Nat, S # {}
    PROVE  \E n \in S : \A k \in S : n <= k
<1>1. \E n \in S : \A k \in S : ~(<<k, n>> \in OpToRel(<, Nat))
  BY WFMin, NatLessThanWellFounded
<1>2. \A k, n \in Nat : k < n => <<k, n>> \in OpToRel(<, Nat)
  BY DEF OpToRel
<1>3. PICK R : /\ \E n \in S : \A k \in S : ~(<<k, n>> \in R)
               /\ \A k, n \in Nat : k < n => <<k, n>> \in R
  <2> HIDE DEF OpToRel
  <2> QED BY <1>1, <1>2, Zenon
<1>4. PICK n \in S : \A k \in S : ~(<<k, n>> \in R)
  BY <1>3, Zenon
<1>5. \A k \in S : ~(k < n)
  BY <1>3, <1>4, Zenon
<1>6. n \in Nat /\ \A k \in S : k \in Nat
  OBVIOUS
<1>7. \A k \in S : n <= k
  BY <1>5, <1>6
<1> QED BY <1>7

\* A finite set of nonces leaves a first nonce free from any start: what the node
\* answers to eth_getTransactionCount(pending) is defined.
LEMMA Gap ==
    ASSUME NEW P, IsFiniteSet(P), NEW a \in Nat
    PROVE  \E n \in a..(a + Cardinality(P)) :
             n \notin P /\ \A k \in a..(n - 1) : k \in P
<1>1. PICK c \in Nat : c = Cardinality(P)
  BY FS_CardinalityType
<1>2. IsFiniteSet(a..(a+c)) /\ Cardinality(a..(a+c)) = c + 1
  BY FS_Interval
<1>3. ~ ((a..(a+c)) \subseteq P)
  BY <1>1, <1>2, FS_Subset
<1>5. (a..(a+c)) \ P \in SUBSET Nat /\ (a..(a+c)) \ P # {}
  BY <1>3
<1>4. PICK n \in (a..(a+c)) \ P : \A k \in (a..(a+c)) \ P : n <= k
  BY <1>5, LeastNatural
<1> QED BY <1>1, <1>4

\* The holder of the lock in one of its steps has all fields; between two records
\* of the recovery it has a list of what is left.
LEMMA HolderShape ==
    ASSUME TypeOK
    PROVE  /\ \A s \in Steps : At(s) => lock \in Holder
           /\ At("next") => \E R \in SUBSET Requests : lock = Recovery(R)
           /\ lock # Free => lock.todo \subseteq Requests
           /\ lock \in Holder => lock # Free
<1>1. CASE lock \in Holder
  <2>1. lock # Free
    BY <1>1 DEF Holder, Free
  <2>2. lock.step \in Steps /\ lock.todo \subseteq Requests
    BY <1>1 DEF Holder
  <2>3. "next" \notin Steps
    BY DEF Steps
  <2> QED BY <1>1, <2>1, <2>2, <2>3 DEF At
<1>2. CASE lock = Free
  <2>1. lock \notin Holder
    BY <1>2 DEF Holder, Free
  <2> QED BY <1>2, <2>1 DEF At
<1>3. CASE lock \in {Recovery(R) : R \in SUBSET Requests}
  <2>1. PICK R \in SUBSET Requests : lock = Recovery(R)
    BY <1>3
  <2>2. lock.step = "next" /\ lock.todo = R
    BY <2>1 DEF Recovery
  <2>3. "next" \notin Steps
    BY DEF Steps
  <2>4. lock \notin Holder
    BY <2>2, <2>3 DEF Holder
  <2> QED BY <2>1, <2>2, <2>3, <2>4 DEF At
<1> QED BY <1>1, <1>2, <1>3 DEF TypeOK

\* What the node answers about a hash is what the chain and the pool hold.
LEMMA NodeAnswers ==
    ASSUME NEW t
    PROVE  \/ ChainState(t) = "NotFound" /\ t \notin pool /\ t \notin OnChain
           \/ ChainState(t) = "Pending" /\ t \in pool
           \/ ChainState(t) \in MinedStatus(t) /\ Witnessed(t, ChainState(t)) /\ t \in OnChain
<1>1. CASE MinedStatus(t) # {}
  <2>1. ChainState(t) \in MinedStatus(t)
    BY <1>1 DEF ChainState
  <2> QED BY <2>1 DEF MinedStatus, Witnessed, OnChain
<1>2. CASE MinedStatus(t) = {}
  BY <1>2 DEF ChainState, MinedStatus, OnChain
<1> QED BY <1>1, <1>2

\* A block of the chain has a transaction and a receipt.
LEMMA MinedType ==
    ASSUME TypeOK, NEW i \in DOMAIN mined
    PROVE  mined[i].tx \in Tx /\ mined[i].status \in Receipts /\ i \in 1..Len(mined)
<1> DEFINE B == [tx: Tx, status: Receipts]
<1>1. mined \in Seq(B)
  BY DEF TypeOK
<1>2. mined[i] \in B /\ i \in 1..Len(mined)
  <2> HIDE DEF B
  <2> QED BY <1>1
<1> QED BY <1>2

LEMMA LookupType ==
    ASSUME TypeOK, NEW t
    PROVE  /\ MinedStatus(t) \subseteq Receipts
           /\ ChainState(t) \in {"NotFound", "Pending"} \cup Receipts
           /\ ChainState(t) \in Receipts => Witnessed(t, ChainState(t)) /\ t \in OnChain
           /\ ChainState(t) # "NotFound" => t \in pool \cup OnChain
           /\ ChainState(t) = "NotFound" => t \notin pool \cup OnChain
<1>1. MinedStatus(t) \subseteq Receipts
  <2> SUFFICES ASSUME NEW i \in DOMAIN mined PROVE mined[i].status \in Receipts
    BY DEF MinedStatus
  <2> QED BY MinedType
<1>2. "NotFound" \notin Receipts /\ "Pending" \notin Receipts
  BY DEF Receipts
<1> QED BY <1>1, <1>2, NodeAnswers

\* What a lookup through the BNS server answers may be old, but a receipt is the
\* node's, and Pending is true where the node forgets nothing.
LEMMA AnswerType ==
    ASSUME TypeOK, CachedInv, NEW t, NEW s \in Answers(t)
    PROVE  /\ s \in TxStates
           /\ s \in Receipts => Witnessed(t, s) /\ t \in OnChain
           /\ Mild /\ s # "NotFound" => t \in pool \cup OnChain
<1>1. CASE s = ChainState(t)
  BY <1>1, LookupType DEF TxStates
<1>2. ASSUME NEW c \in cached, c.tx = t, s = c.state
      PROVE  /\ s \in {"NotFound", "Pending"}
             /\ Mild /\ s # "NotFound" => t \in pool \cup OnChain
  <2>1. c \in CachedLookup
    BY DEF TypeOK
  <2>2. s \in {"NotFound", "Pending"}
    BY <1>2, <2>1 DEF CachedLookup
  <2> QED BY <1>2, <2>2 DEF CachedInv
<1>3. "NotFound" \notin Receipts /\ "Pending" \notin Receipts
  BY DEF Receipts
<1> QED BY <1>1, <1>2, <1>3 DEF Answers, TxStates

\* A transaction with a receipt is found.
LEMMA WitnessedIsFound ==
    ASSUME TypeOK, NEW t, NEW s, Witnessed(t, s)
    PROVE  ChainState(t) # "NotFound" /\ t \in OnChain
<1>1. t \in OnChain
  BY DEF Witnessed, OnChain
<1> QED BY <1>1, LookupType

\* The nonce of a new transaction is a natural number and not below the cached one.
LEMMA NonceReserved ==
    ASSUME TypeOK, PoolFinite, CacheOne
    PROVE  ReserveNonce \in Nat /\ \A n \in nextNonce : n <= ReserveNonce
<1>1. ChainNonce \in Nat
  BY DEF TypeOK, ChainNonce
<1>2. \E n \in ChainNonce..(ChainNonce + Cardinality(PoolNonces)) :
        n \notin PoolNonces /\ \A k \in ChainNonce..(n - 1) : k \in PoolNonces
  BY <1>1, Gap DEF PoolFinite
<1>3. Suggested \in ChainNonce..(ChainNonce + Cardinality(PoolNonces))
  BY <1>2 DEF Suggested
<1>4. PICK c \in Nat : c = Cardinality(PoolNonces)
  BY FS_CardinalityType DEF PoolFinite
<1>5. Suggested \in Nat
  BY <1>1, <1>3, <1>4
<1>7. CASE nextNonce = {}
  BY <1>5, <1>7 DEF ReserveNonce
<1>8. ASSUME NEW n \in nextNonce, nextNonce = {n} PROVE ReserveNonce \in Nat /\ n <= ReserveNonce
  <2>1. n \in Nat
    BY DEF TypeOK
  <2>2. (CHOOSE m \in nextNonce : TRUE) = n
    BY <1>8
  <2>3. ReserveNonce = IF n > Suggested THEN n ELSE Suggested
    BY <1>8, <2>2 DEF ReserveNonce
  <2> QED BY <1>5, <2>1, <2>3
<1> QED BY <1>7, <1>8 DEF CacheOne

(***************************************************************************)
(* What a step does to the rows and to the node                            *)
(***************************************************************************)
NodeKept == pool' = pool /\ wire' = wire /\ mined' = mined

RowsKept == records' = records /\ signed' = signed

\* A row is written by someone who may: its receipt is on the chain, or it is
\* quarantined because it does not decode.
RowRestated(r) ==
    \E s \in InflightStates \cup Receipts \cup {"Failed"} :
        /\ records' = [records EXCEPT ![r].state = s]
        /\ s \in Receipts => Witnessed(records[r].tx, s)
        /\ s = "Failed" => ~records[r].intact
        /\ faults' = faults

\* A row is given up, and its transaction is an orphan if it is known to the node or
\* will be.
RowRemoved(r) ==
    /\ records' = [records EXCEPT ![r] = None]
    /\ ~records[r].intact
    /\ records[r].tx \in pool \cup wire \cup OnChain => records[r].tx \in orphans'
    /\ faults' = faults

RowDamaged(r) ==
    /\ records' = [records EXCEPT ![r].intact = FALSE]
    /\ "damage" \in world.kinds
    /\ faults' = faults + 1

RowChanged(r) ==
    /\ Present(r)
    /\ records[r].state \notin Receipts
    /\ RowRestated(r) \/ RowRemoved(r) \/ RowDamaged(r)
    /\ signed' = signed
    /\ NodeKept

RowEffect == RowsKept \/ Prepare \/ \E r \in Requests : RowChanged(r)

\* The bytes of a stored row reach the pool or the wire.
RowSent(r) ==
    /\ Present(r)
    /\ RowsKept
    /\ mined' = mined
    /\ \/ pool' = pool \cup {records[r].tx} /\ wire' = wire
       \/ pool' = pool /\ "late" \in world.kinds /\ wire' = wire \cup {records[r].tx}

NodeEffect == NodeKept \/ (\E r \in Requests : RowSent(r)) \/ Mine \/ Arrive \/ Forget

\* No step changes the world, and faults only grow, to their bound.
LEMMA FaultsGrow ==
    ASSUME TypeOK, Next
    PROVE  world' = world /\ faults' \in 0..MaxFaults /\ faults <= faults'
<1>1. faults \in Nat /\ faults \in 0..MaxFaults /\ MaxFaults \in Nat
      /\ world.limit \in 0..MaxFaults
  BY ConstantsAssumption DEF TypeOK
<1>2. world' = world /\ (faults' = faults \/ (faults < world.limit /\ faults' = faults + 1))
  BY DEF Next, Step, Faults, Fault, Call, ReplayFinished, WaitForReceipt, Prepare, SendAccepted,
     SendRefused, QuerySubmitted, Recover, Invalid, Quarantine, Remove, Requery, Update, RecoverNext, PrepareFails,
     PrepareUnanswered, SendReplyLost, SendFails, QuerySubmittedFails, RecoverUnanswered,
     LookupFails, Restart, Cancel, Forget, Damage, Mine, Arrive
<1> QED BY <1>1, <1>2

\* The row the holder of the lock works on.
LEMMA HeldRow ==
    ASSUME WInv, NEW s \in RowSteps, At(s)
    PROVE  /\ lock \in Holder /\ lock.req \in Requests /\ Present(lock.req)
           /\ Held \in Record /\ Held.tx \in Tx /\ Held.tx.req = lock.req
<1>1. s \in Steps
  BY DEF RowSteps, Steps
<1>2. lock \in Holder
  BY <1>1, HolderShape DEF WInv
<1>3. lock.req \in Requests
  BY <1>2 DEF Holder
<1>4. Present(lock.req)
  BY DEF WInv, LockInv
<1>5. Held \in Record
  BY <1>3, <1>4 DEF WInv, TypeOK, Held, Present
<1> QED BY <1>2, <1>3, <1>4, <1>5 DEF Record, WInv, RowInv, Held

\* Every step leaves the rows alone, stores a new one, or changes one that is
\* stored and not finished.
LEMMA RowsFollow ==
    ASSUME WInv, Next
    PROVE  RowEffect
<1> USE DEF RowEffect
<1>1. \/ RowsKept \/ Prepare \/ Quarantine \/ Remove \/ Update
      \/ \E s \in TxStates : Requery(s)
      \/ \E r \in Requests, s \in TxStates : WaitForReceipt(r, s)
      \/ \E r \in Requests : Damage(r)
  BY DEF RowsKept, Next, Step, Faults, Call, ReplayFinished, WaitForReceipt, Prepare,
     SendAccepted, SendRefused, QuerySubmitted, Recover, Invalid, RecoverNext, PrepareFails,
     PrepareUnanswered, SendReplyLost, SendFails, QuerySubmittedFails, RecoverUnanswered,
     LookupFails, Restart, Cancel, Forget, Mine, Arrive
<1>2. ASSUME NEW r \in Requests, NEW s \in {"Pending", "Failed"} \cup Receipts, Present(r),
             records' = IF Inflight(r) THEN [records EXCEPT ![r].state = s] ELSE records,
             s \in Receipts => Witnessed(records[r].tx, s), s = "Failed" => ~records[r].intact,
             faults' = faults, signed' = signed, NodeKept
      PROVE  RowEffect
  <2>1. CASE Inflight(r)
    <3>1. records[r].state \notin Receipts
      BY <2>1 DEF Inflight, InflightStates, Receipts
    <3>2. s \in InflightStates \cup Receipts \cup {"Failed"}
      BY DEF InflightStates, Receipts
    <3>3. RowRestated(r)
      BY <1>2, <2>1, <3>2 DEF RowRestated
    <3> QED BY <1>2, <3>1, <3>3 DEF RowChanged
  <2>2. CASE ~Inflight(r)
    BY <1>2, <2>2 DEF RowsKept
  <2> QED BY <2>1, <2>2
<1>3. CASE Quarantine
  <2>1. At("quarantine") /\ "quarantine" \in RowSteps
    BY <1>3 DEF Quarantine, RowSteps
  <2>2. lock.req \in Requests /\ Present(lock.req) /\ ~Held.intact
    BY <2>1, HeldRow DEF WInv, LockInv
  <2>3. signed' = signed /\ NodeKept /\ faults' = faults
    BY <1>3 DEF Quarantine, NodeKept
  <2>4. records' = IF Inflight(lock.req) THEN [records EXCEPT ![lock.req].state = "Failed"]
                   ELSE records
    BY <1>3 DEF Quarantine, UpdateInflight
  <2>5. "Failed" \notin Receipts
    BY DEF Receipts
  <2> QED BY <1>2, <2>2, <2>3, <2>4, <2>5 DEF Held
<1>4. CASE Remove
  <2>1. At("remove") /\ "remove" \in RowSteps
    BY <1>4 DEF Remove, RowSteps
  <2>2. lock.req \in Requests /\ Present(lock.req) /\ Held.state = "Failed" /\ ~Held.intact
    BY <2>1, HeldRow DEF WInv, LockInv, RowInv, Held
  <2>3. signed' = signed /\ NodeKept /\ faults' = faults
        /\ records' = [records EXCEPT ![lock.req] = None]
        /\ orphans' = orphans \cup ({Held.tx} \cap (pool \cup wire \cup OnChain))
    BY <1>4 DEF Remove, NodeKept
  <2>4. "Failed" \notin Receipts
    BY DEF Receipts
  <2>5. RowRemoved(lock.req)
    BY <2>2, <2>3 DEF RowRemoved, Held
  <2> QED BY <2>2, <2>3, <2>4, <2>5 DEF RowChanged, Held
<1>5. ASSUME NEW s \in TxStates, Requery(s) PROVE RowEffect
  <2>1. At("requery") /\ "requery" \in RowSteps
    BY <1>5 DEF Requery, RowSteps
  <2>2. lock.req \in Requests /\ Present(lock.req) /\ Held.state = "Failed"
    BY <2>1, HeldRow DEF WInv, LockInv, Held
  <2>3. signed' = signed /\ NodeKept /\ faults' = faults /\ s \in Answers(Held.tx)
    BY <1>5 DEF Requery, NodeKept
  <2>4. "Failed" \notin Receipts
    BY DEF Receipts
  <2>5. CASE s = "NotFound"
    BY <1>5, <2>3, <2>5 DEF Requery, RowsKept
  <2>6. CASE s # "NotFound"
    <3>2. records' = [records EXCEPT ![lock.req].state = s]
      BY <1>5, <2>6 DEF Requery, ResolveFailed
    <3>3. s \in {"Pending"} \cup Receipts /\ (s \in Receipts => Witnessed(Held.tx, s))
      BY <2>3, <2>6, AnswerType DEF WInv, TxStates
    <3>4. s \in InflightStates \cup Receipts \cup {"Failed"} /\ s # "Failed"
      BY <3>3 DEF InflightStates, Receipts
    <3>5. RowRestated(lock.req)
      BY <2>3, <3>2, <3>3, <3>4 DEF RowRestated, Held
    <3> QED BY <2>2, <2>3, <2>4, <3>5 DEF RowChanged, Held
  <2> QED BY <2>5, <2>6
<1>6. CASE Update
  <2>1. At("update") /\ "update" \in RowSteps
    BY <1>6 DEF Update, RowSteps
  <2>2. lock \in Holder /\ lock.req \in Requests /\ Present(lock.req)
    BY <2>1, HeldRow
  <2>3. lock.seen \in {"Pending"} \cup Receipts /\ lock.seen # "Failed"
    BY <2>2 DEF Holder, Receipts
  <2>4. lock.seen \in Receipts => Witnessed(records[lock.req].tx, lock.seen)
    BY <2>1 DEF WInv, LockInv, Held
  <2>5. signed' = signed /\ NodeKept /\ faults' = faults
    BY <1>6 DEF Update, NodeKept
  <2>6. records' = IF Inflight(lock.req) THEN [records EXCEPT ![lock.req].state = lock.seen]
                   ELSE records
    BY <1>6 DEF Update, UpdateInflight
  <2> QED BY <1>2, <2>2, <2>3, <2>4, <2>5, <2>6
<1>7. ASSUME NEW r \in Requests, NEW s \in TxStates, WaitForReceipt(r, s) PROVE RowEffect
  <2>1. signed' = signed /\ NodeKept /\ faults' = faults /\ s \in Answers(records[r].tx)
    BY <1>7 DEF WaitForReceipt, NodeKept
  <2>2. Present(r)
    BY <1>7 DEF WaitForReceipt, Inflight, InflightStates, Present, None
  <2>3. CASE s \notin Receipts
    BY <1>7, <2>1, <2>3 DEF WaitForReceipt, RowsKept
  <2>4. CASE s \in Receipts
    <3>1. Witnessed(records[r].tx, s)
      BY <2>1, <2>4, AnswerType DEF WInv
    <3>2. records' = IF Inflight(r) THEN [records EXCEPT ![r].state = s] ELSE records
      BY <1>7, <2>4 DEF WaitForReceipt, UpdateInflight
    <3>3. s # "Failed"
      BY <2>4 DEF Receipts
    <3> QED BY <1>2, <2>1, <2>2, <2>4, <3>1, <3>2, <3>3
  <2> QED BY <2>3, <2>4
<1>8. ASSUME NEW r \in Requests, Damage(r) PROVE RowEffect
  <2>1. Present(r) /\ records[r].state \notin Receipts
    BY <1>8 DEF Damage, Inflight, InflightStates, Receipts, Present, None
  <2>2. RowDamaged(r) /\ signed' = signed /\ NodeKept
    BY <1>8 DEF Damage, RowDamaged, Fault, NodeKept
  <2> QED BY <2>1, <2>2 DEF RowChanged
<1> QED BY <1>1, <1>3, <1>4, <1>5, <1>6, <1>7, <1>8

\* Every step leaves the node alone, hands it the bytes of a stored row, or is one
\* of the node's own.
LEMMA NodeFollows ==
    ASSUME WInv, Next
    PROVE  NodeEffect
<1>1. \/ NodeKept \/ Mine \/ Arrive \/ Forget
      \/ SendAccepted \/ SendReplyLost \/ SendFails \/ Restart \/ Cancel
  BY DEF NodeKept, Next, Step, Faults, Call, ReplayFinished, WaitForReceipt, Prepare,
     SendRefused, QuerySubmitted, Recover, Invalid, Quarantine, Remove, Requery, Update, RecoverNext, PrepareFails,
     PrepareUnanswered, QuerySubmittedFails, RecoverUnanswered, LookupFails, Damage
<1>2. "send" \in RowSteps
  BY DEF RowSteps
<1>3. CASE SendAccepted \/ SendReplyLost \/ SendFails
  <2>1. lock.req \in Requests /\ Present(lock.req)
    BY <1>2, <1>3, HeldRow DEF SendAccepted, SendReplyLost, SendFails
  <2>2. CASE SendFails
    <3>1. RowsKept /\ pool' = pool /\ mined' = mined
      BY <2>2 DEF SendFails, RowsKept
    <3>2. wire' = wire \/ ("late" \in world.kinds /\ wire' = wire \cup {records[lock.req].tx})
      BY <2>2 DEF SendFails, Fault, Held
    <3> QED BY <2>1, <3>1, <3>2 DEF RowSent, NodeKept, NodeEffect
  <2>3. CASE SendAccepted \/ SendReplyLost
    <3>1. RowsKept /\ wire' = wire /\ mined' = mined /\ pool' = pool \cup {records[lock.req].tx}
      BY <2>3 DEF SendAccepted, SendReplyLost, RowsKept, Held
    <3> QED BY <2>1, <3>1 DEF RowSent, NodeEffect
  <2> QED BY <1>3, <2>2, <2>3
<1>4. CASE Restart \/ Cancel
  <2>1. RowsKept /\ pool' = pool /\ mined' = mined /\ CutOff
    BY <1>4 DEF Restart, Cancel, RowsKept
  <2>2. CASE wire' = wire
    BY <2>1, <2>2 DEF NodeKept, NodeEffect
  <2>3. CASE wire' # wire
    <3>1. At("send") /\ "late" \in world.kinds /\ wire' = wire \cup {records[lock.req].tx}
      BY <2>1, <2>3 DEF CutOff, Held
    <3>2. lock.req \in Requests /\ Present(lock.req)
      BY <1>2, <3>1, HeldRow
    <3> QED BY <2>1, <3>1, <3>2 DEF RowSent, NodeEffect
  <2> QED BY <2>2, <2>3
<1> QED BY <1>1, <1>3, <1>4 DEF NodeEffect

\* prepare_with_request signs a transaction of the request with a nonce that no
\* row stored since the process came up has, and stores it where no row was.
LEMMA Prepared ==
    ASSUME WInv, Prepare
    PROVE  /\ lock \in Holder /\ lock.req \in Requests /\ ~Present(lock.req)
           /\ NewTx \in Tx /\ NewTx.req = lock.req /\ NewTx.nonce = ReserveNonce
           /\ NewTx.serial = signed[lock.req] + 1
           /\ records' = [records EXCEPT ![lock.req] =
                            [state |-> "Sending", tx |-> NewTx, intact |-> TRUE]]
           /\ ReserveNonce \in Nat /\ \A n \in nextNonce : n <= ReserveNonce
           /\ NodeKept
<1>1. At("prepare") /\ "prepare" \in Steps
  BY DEF Prepare, Steps
<1>2. lock \in Holder
  BY <1>1, HolderShape DEF WInv
<1>3. lock.req \in Requests /\ lock.payload \in Payloads
  BY <1>2 DEF Holder
<1>4. ~Present(lock.req)
  BY <1>1 DEF WInv, LockInv
<1>5. ReserveNonce \in Nat /\ \A n \in nextNonce : n <= ReserveNonce
  BY NonceReserved DEF WInv
<1>6. signed[lock.req] + 1 \in 1..(MaxFaults + 1)
  <2>1. signed[lock.req] \in 0..(MaxFaults + 1) /\ faults \in 0..MaxFaults
    BY <1>3 DEF WInv, TypeOK
  <2>2. signed[lock.req] <= faults
    BY <1>3, <1>4 DEF WInv, CountInv
  <2> QED BY <2>1, <2>2, ConstantsAssumption
<1>7. NewTx \in Tx /\ NewTx.req = lock.req /\ NewTx.nonce = ReserveNonce
      /\ NewTx.serial = signed[lock.req] + 1
  BY <1>3, <1>5, <1>6 DEF NewTx, Tx
<1>8. records' = [records EXCEPT ![lock.req] =
                    [state |-> "Sending", tx |-> NewTx, intact |-> TRUE]]
  BY <1>7 DEF Prepare, Persist
<1>9. NodeKept
  BY DEF Prepare, NodeKept
<1> QED BY <1>2, <1>3, <1>4, <1>5, <1>7, <1>8, <1>9

\* A row after a step is the same, a new transaction, or the same transaction of a
\* row that was not finished.
LEMMA RowAfter ==
    ASSUME WInv, Next, NEW q \in Requests
    PROVE  /\ records' \in [Requests -> Record \cup {None}]
           /\ records[q].state \in Receipts => records'[q] = records[q]
           /\ Present(q) /\ Present(q)' => records'[q].tx = records[q].tx
           /\ Present(q) /\ ~Present(q)' =>
                (records[q].tx \in pool \cup wire \cup OnChain => records[q].tx \in orphans')
           /\ ~Present(q) /\ Present(q)' => Prepare /\ lock.req = q
           /\ records'[q].state \in Receipts => records'[q] = records[q] \/
                (Present(q) /\ records'[q].tx = records[q].tx
                  /\ Witnessed(records[q].tx, records'[q].state))
<1>1. records \in [Requests -> Record \cup {None}]
  BY DEF WInv, TypeOK
<1>2. CASE RowsKept
  BY <1>1, <1>2 DEF RowsKept, Present
<1>3. CASE Prepare
  <2>1. lock.req \in Requests /\ ~Present(lock.req) /\ NewTx \in Tx
        /\ records' = [records EXCEPT ![lock.req] =
                         [state |-> "Sending", tx |-> NewTx, intact |-> TRUE]]
    BY <1>3, Prepared
  <2>2. [state |-> "Sending", tx |-> NewTx, intact |-> TRUE] \in Record
    BY <2>1 DEF Record, InflightStates
  <2>3. records' \in [Requests -> Record \cup {None}]
    BY <1>1, <2>1, <2>2
  <2>4. CASE q = lock.req
    <3>1. records'[q].state = "Sending" /\ "Sending" \notin Receipts
      BY <1>1, <2>1, <2>4 DEF Receipts
    <3>2. records[q].state \notin Receipts
      BY <2>1, <2>4 DEF Present, None, Receipts
    <3> QED BY <1>3, <2>1, <2>3, <2>4, <3>1, <3>2 DEF Present
  <2>5. CASE q # lock.req
    BY <1>1, <2>1, <2>3, <2>5 DEF Present
  <2> QED BY <2>4, <2>5
<1>4. ASSUME NEW r \in Requests, RowChanged(r)
      PROVE  /\ records' \in [Requests -> Record \cup {None}]
             /\ \A s \in Requests : s # r => records'[s] = records[s]
             /\ RowRestated(r) \/ RowDamaged(r) => Present(r)' /\ records'[r].tx = records[r].tx
             /\ RowDamaged(r) => records'[r].state = records[r].state
             /\ RowRemoved(r) => ~Present(r)'
  <2>1. records[r] \in Record
    BY <1>1, <1>4 DEF RowChanged, Present
  <2>2. CASE RowRestated(r)
    <3>1. PICK s \in InflightStates \cup Receipts \cup {"Failed"} :
             records' = [records EXCEPT ![r].state = s]
      BY <2>2 DEF RowRestated
    <3>2. [records[r] EXCEPT !.state = s] \in Record
          /\ [records[r] EXCEPT !.state = s].tx = records[r].tx
          /\ [records[r] EXCEPT !.state = s] # None
      BY <2>1, <3>1 DEF Record, None
    <3>3. records' = [records EXCEPT ![r] = [records[r] EXCEPT !.state = s]]
      BY <3>1
    <3>4. ~RowRemoved(r)
      BY <1>1, <3>2, <3>3 DEF RowRemoved
    <3>5. ~RowDamaged(r)
      <4>1. faults \in Nat
        BY DEF WInv, TypeOK
      <4> QED BY <2>2, <4>1 DEF RowRestated, RowDamaged
    <3> QED BY <1>1, <3>2, <3>3, <3>4, <3>5 DEF Present
  <2>3. CASE RowDamaged(r)
    <3>1. [records[r] EXCEPT !.intact = FALSE] \in Record
          /\ [records[r] EXCEPT !.intact = FALSE].tx = records[r].tx
          /\ [records[r] EXCEPT !.intact = FALSE].state = records[r].state
          /\ [records[r] EXCEPT !.intact = FALSE] # None
      BY <2>1 DEF Record, None
    <3>2. records' = [records EXCEPT ![r] = [records[r] EXCEPT !.intact = FALSE]]
      BY <2>3 DEF RowDamaged
    <3>3. ~RowRemoved(r)
      BY <1>1, <3>1, <3>2 DEF RowRemoved
    <3> QED BY <1>1, <3>1, <3>2, <3>3 DEF Present
  <2>4. CASE RowRemoved(r)
    <3>1. records' = [records EXCEPT ![r] = None]
      BY <2>4 DEF RowRemoved
    <3>2. ~RowRestated(r)
      <4>1. \A s : [records[r] EXCEPT !.state = s] # None
        BY <2>1 DEF Record, None
      <4> QED BY <1>1, <3>1, <4>1 DEF RowRestated
    <3>3. ~RowDamaged(r)
      <4>1. faults \in Nat
        BY DEF WInv, TypeOK
      <4> QED BY <2>4, <4>1 DEF RowRemoved, RowDamaged
    <3> QED BY <1>1, <3>1, <3>2, <3>3 DEF Present
  <2> QED BY <1>4, <2>2, <2>3, <2>4 DEF RowChanged
<1>5. ASSUME NEW r \in Requests, RowChanged(r), q = r
      PROVE  /\ records'[q].state \in Receipts =>
                  Present(q) /\ records'[q].tx = records[q].tx
                  /\ Witnessed(records[q].tx, records'[q].state)
  <2>1. Present(r) /\ records[r].state \notin Receipts
    BY <1>5 DEF RowChanged
  <2>2. CASE RowRestated(r)
    <3>1. PICK s \in InflightStates \cup Receipts \cup {"Failed"} :
             records' = [records EXCEPT ![r].state = s] /\ (s \in Receipts => Witnessed(records[r].tx, s))
      BY <2>2 DEF RowRestated
    <3>2. records[r] \in Record
      BY <1>1, <2>1 DEF Present
    <3>3. records'[r].state = s
      BY <1>1, <3>1, <3>2 DEF Record
    <3> QED BY <1>4, <1>5, <2>1, <2>2, <3>1, <3>3
  <2>3. CASE RowDamaged(r)
    BY <1>4, <1>5, <2>1, <2>3
  <2>4. CASE RowRemoved(r)
    <3>1. records'[q].state = "None" /\ "None" \notin Receipts
      BY <1>4, <1>5, <2>4 DEF Present, None, Receipts
    <3> QED BY <3>1
  <2> QED BY <1>5, <2>2, <2>3, <2>4 DEF RowChanged
<1>6. ASSUME NEW r \in Requests, RowChanged(r)
      PROVE  /\ records[q].state \in Receipts => records'[q] = records[q]
             /\ Present(q) /\ Present(q)' => records'[q].tx = records[q].tx
             /\ Present(q) /\ ~Present(q)' =>
                (records[q].tx \in pool \cup wire \cup OnChain => records[q].tx \in orphans')
             /\ ~(~Present(q) /\ Present(q)')
  <2>1. CASE q # r
    BY <1>4, <1>6, <2>1 DEF Present
  <2>2. CASE q = r
    <3>1. Present(r) /\ records[r].state \notin Receipts /\ NodeKept
          /\ (RowRestated(r) \/ RowRemoved(r) \/ RowDamaged(r))
      BY <1>6 DEF RowChanged
    <3>2. CASE RowRemoved(r)
      BY <1>4, <1>6, <2>2, <3>1, <3>2 DEF RowRemoved
    <3>3. CASE RowRestated(r) \/ RowDamaged(r)
      BY <1>4, <1>6, <2>2, <3>1, <3>3
    <3> QED BY <3>1, <3>2, <3>3
  <2> QED BY <2>1, <2>2
<1>7. ASSUME NEW r \in Requests, RowChanged(r), q # r PROVE records'[q] = records[q]
  BY <1>4, <1>7
<1> QED BY <1>2, <1>3, <1>4, <1>5, <1>6, <1>7, RowsFollow DEF RowEffect

\* A finished row never changes again.
LEMMA FinalStep ==
    ASSUME WInv, [Next]_vars
    PROVE  \A r \in Requests : records[r].state \in Receipts => records'[r] = records[r]
<1>1. CASE Next
  BY <1>1, RowAfter
<1>2. CASE UNCHANGED vars
  BY <1>2 DEF vars
<1> QED BY <1>1, <1>2

\* The chain only grows.
LEMMA ChainGrows ==
    ASSUME WInv, Next
    PROVE  /\ mined' \in Seq([tx: Tx, status: Receipts])
           /\ DOMAIN mined \subseteq DOMAIN mined'
           /\ \A i \in DOMAIN mined : mined'[i] = mined[i]
           /\ OnChain \subseteq OnChain'
           /\ \A t, s : Witnessed(t, s) => Witnessed(t, s)'
<1>1. mined \in Seq([tx: Tx, status: Receipts])
  BY DEF WInv, TypeOK
<1>2. CASE mined' = mined
  BY <1>1, <1>2 DEF OnChain, Witnessed
<1>3. CASE Mine
  <2>1. PICK t \in pool, s \in Receipts : mined' = Append(mined, [tx |-> t, status |-> s])
    BY <1>3 DEF Mine
  <2>2. t \in Tx
    BY DEF WInv, TypeOK
  <2>3. PICK b \in [tx: Tx, status: Receipts] : mined' = Append(mined, b)
    BY <2>1, <2>2
  <2>4. /\ mined' \in Seq([tx: Tx, status: Receipts])
        /\ DOMAIN mined \subseteq DOMAIN mined'
        /\ \A i \in DOMAIN mined : mined'[i] = mined[i]
    <3> DEFINE B == [tx: Tx, status: Receipts]
    <3>1. mined \in Seq(B) /\ b \in B
      BY <1>1
    <3> HIDE DEF B
    <3>2. /\ mined' \in Seq(B) /\ DOMAIN mined \subseteq DOMAIN mined'
          /\ \A i \in DOMAIN mined : mined'[i] = mined[i]
      BY <2>3, <3>1
    <3> QED BY <3>2 DEF B
  <2> QED BY <2>4 DEF OnChain, Witnessed
<1>4. \/ mined' = mined \/ Mine
  BY NodeFollows DEF NodeEffect, NodeKept, RowSent, Arrive, Forget
<1> QED BY <1>2, <1>3, <1>4

\* What the next block holds was in the pool, and its nonce is the length of the chain.
LEMMA NewBlock ==
    ASSUME WInv, Next, NEW i \in DOMAIN mined', i \notin DOMAIN mined
    PROVE  Mine /\ mined'[i].tx \in pool /\ mined'[i].tx.nonce = i - 1
<1>1. mined \in Seq([tx: Tx, status: Receipts])
  BY DEF WInv, TypeOK
<1>2. \/ mined' = mined \/ Mine
  BY NodeFollows DEF NodeEffect, NodeKept, RowSent, Arrive, Forget
<1>3. Mine
  BY <1>2
<1>4. PICK t \in pool, s \in Receipts : t.nonce = Len(mined)
                                        /\ mined' = Append(mined, [tx |-> t, status |-> s])
  BY <1>3 DEF Mine, ChainNonce
<1>5. PICK b : b = [tx |-> t, status |-> s]
  OBVIOUS
<1>6. i = Len(mined) + 1 /\ mined'[i] = b
  <2> DEFINE B == [tx: Tx, status: Receipts]
  <2>1. mined \in Seq(B) /\ mined' = Append(mined, b)
    BY <1>1, <1>4, <1>5
  <2> HIDE DEF B
  <2> QED BY <2>1
<1>7. Len(mined) \in Nat
  BY <1>1
<1> QED BY <1>3, <1>4, <1>5, <1>6, <1>7

(***************************************************************************)
(* The parts of the invariant                                              *)
(***************************************************************************)
LEMMA TruthStep ==
    ASSUME WInv, Next
    PROVE  RecordTruth'
<1> SUFFICES ASSUME NEW r \in Requests, records'[r].state \in Receipts
             PROVE  \E i \in DOMAIN mined' : mined'[i].tx = records'[r].tx
                                             /\ mined'[i].status = records'[r].state
  BY DEF RecordTruth
<1>1. PICK s : s = records'[r].state
  OBVIOUS
<1>2. Witnessed(records'[r].tx, s)
  <2>1. CASE records'[r] = records[r]
    BY <1>1, <2>1 DEF WInv, RecordTruth, Witnessed
  <2>2. CASE records'[r] # records[r]
    BY <1>1, <2>2, RowAfter
  <2> QED BY <2>1, <2>2
<1>3. PICK i \in DOMAIN mined : mined[i].tx = records'[r].tx /\ mined[i].status = s
  BY <1>2 DEF Witnessed
<1>4. i \in DOMAIN mined' /\ mined'[i] = mined[i]
  BY <1>3, ChainGrows
<1> QED BY <1>1, <1>3, <1>4

\* What the node has after a step it had before, or it is the transaction of a row
\* that the step leaves alone.
LEMMA NodeAfter ==
    ASSUME WInv, Next, NEW t \in pool' \cup wire' \cup OnChain'
    PROVE  \/ t \in pool \cup wire \cup OnChain
           \/ RowsKept /\ \E r \in Requests : Present(r) /\ t = records[r].tx
<1>1. CASE NodeKept
  BY <1>1 DEF NodeKept, OnChain
<1>2. ASSUME NEW r \in Requests, RowSent(r)
      PROVE  \/ t \in pool \cup wire \cup OnChain
             \/ RowsKept /\ Present(r) /\ t = records[r].tx
  <2>1. RowsKept /\ Present(r) /\ OnChain' = OnChain
    BY <1>2 DEF RowSent, OnChain
  <2>2. pool' \cup wire' \subseteq pool \cup wire \cup {records[r].tx}
    BY <1>2 DEF RowSent
  <2> QED BY <2>1, <2>2
<1>3. CASE Mine
  <2>1. pool' \subseteq pool /\ wire' = wire
    BY <1>3 DEF Mine
  <2>2. OnChain' \subseteq OnChain \cup pool
    <3> SUFFICES ASSUME NEW i \in DOMAIN mined' PROVE mined'[i].tx \in OnChain \cup pool
      BY DEF OnChain
    <3>1. CASE i \in DOMAIN mined
      BY <3>1, ChainGrows DEF OnChain
    <3>2. CASE i \notin DOMAIN mined
      BY <3>2, NewBlock
    <3> QED BY <3>1, <3>2
  <2> QED BY <2>1, <2>2
<1>4. CASE Arrive
  <2>1. wire' \subseteq wire /\ pool' \subseteq pool \cup wire /\ OnChain' = OnChain
    BY <1>4 DEF Arrive, OnChain
  <2> QED BY <2>1
<1>5. CASE Forget
  <2>1. wire' = wire /\ pool' \subseteq pool /\ OnChain' = OnChain
    BY <1>5 DEF Forget, OnChain
  <2> QED BY <2>1
<1> QED BY <1>1, <1>2, <1>3, <1>4, <1>5, NodeFollows DEF NodeEffect

\* Orphans are only made by removing a row, which is damaged.
LEMMA OrphansGrow ==
    ASSUME WInv, Next
    PROVE  /\ orphans \subseteq orphans' /\ orphans' \subseteq Tx
           /\ "damage" \notin world.kinds => orphans' = {}
<1>1. orphans \subseteq Tx /\ ("damage" \notin world.kinds => orphans = {})
  BY DEF WInv, TypeOK, BroadcastIsRecorded
<1>2. orphans' = orphans \/ Remove
  BY DEF Next, Step, Faults, Call, ReplayFinished, WaitForReceipt, Prepare, SendAccepted,
     SendRefused, QuerySubmitted, Recover, Invalid, Quarantine, Requery, Update, RecoverNext,
     PrepareFails, PrepareUnanswered, SendReplyLost, SendFails, QuerySubmittedFails,
     RecoverUnanswered, LookupFails, Restart, Cancel, Forget, Damage, Mine, Arrive
<1>3. CASE Remove
  <2>1. At("remove") /\ "remove" \in RowSteps
    BY <1>3 DEF Remove, RowSteps
  <2>2. Held.tx \in Tx /\ "damage" \in world.kinds
    BY <2>1, HeldRow DEF WInv, LockInv, RowInv, Held
  <2>3. orphans' = orphans \cup ({Held.tx} \cap (pool \cup wire \cup OnChain))
    BY <1>3 DEF Remove
  <2> QED BY <1>1, <2>2, <2>3
<1> QED BY <1>1, <1>2, <1>3

LEMMA RecordedStep ==
    ASSUME WInv, Next
    PROVE  BroadcastIsRecorded'
<1>1. /\ orphans \subseteq orphans'
      /\ "damage" \notin world'.kinds => orphans' = {}
  BY OrphansGrow, FaultsGrow DEF WInv
<1> SUFFICES ASSUME NEW t \in pool' \cup wire' \cup OnChain', t \notin orphans'
             PROVE  Present(t.req)' /\ records'[t.req].tx = t
  BY <1>1 DEF BroadcastIsRecorded, Present
<1>2. CASE t \in pool \cup wire \cup OnChain
  <2>1. Present(t.req) /\ records[t.req].tx = t
    BY <1>1, <1>2 DEF WInv, BroadcastIsRecorded, Present
  <2>2. t \in Tx
    <3>1. CASE t \in OnChain
      <4>1. PICK i \in DOMAIN mined : t = mined[i].tx
        BY <3>1 DEF OnChain
      <4> QED BY <4>1, MinedType DEF WInv
    <3> QED BY <1>2, <3>1 DEF WInv, TypeOK
  <2>3. t.req \in Requests
    BY <2>2 DEF Tx
  <2>4. Present(t.req)'
    BY <1>2, <2>1, <2>3, RowAfter
  <2> QED BY <2>1, <2>3, <2>4, RowAfter
<1>3. ASSUME RowsKept, NEW r \in Requests, Present(r), t = records[r].tx
      PROVE  Present(t.req)' /\ records'[t.req].tx = t
  <2>1. t.req = r
    BY <1>3 DEF WInv, RowInv
  <2> QED BY <1>3, <2>1 DEF RowsKept, Present
<1> QED BY <1>2, <1>3, NodeAfter

LEMMA NonceStep ==
    ASSUME WInv, Next
    PROVE  NonceInv'
<1> SUFFICES ASSUME NEW i \in DOMAIN mined' PROVE mined'[i].tx.nonce = i - 1
  BY DEF NonceInv
<1>1. CASE i \in DOMAIN mined
  BY <1>1, ChainGrows DEF WInv, NonceInv
<1>2. CASE i \notin DOMAIN mined
  BY <1>2, NewBlock
<1> QED BY <1>1, <1>2

LEMMA FiniteStep ==
    ASSUME WInv, Next
    PROVE  PoolFinite'
<1>1. IsFiniteSet(PoolNonces)
  BY DEF WInv, PoolFinite
<1>2. \A S : S \subseteq PoolNonces => IsFiniteSet(S)
  BY <1>1, FS_Subset
<1>3. \A n : IsFiniteSet(PoolNonces \cup {n})
  BY <1>1, FS_AddElement
<1>4. PoolNonces' \subseteq PoolNonces \/ \E n : PoolNonces' = PoolNonces \cup {n}
  <2>1. CASE pool' \subseteq pool
    BY <2>1 DEF PoolNonces
  <2>2. ASSUME NEW t, pool' = pool \cup {t} PROVE PoolNonces' = PoolNonces \cup {t.nonce}
    BY <2>2 DEF PoolNonces
  <2>3. pool' \subseteq pool \/ \E t : pool' = pool \cup {t}
    BY NodeFollows DEF NodeEffect, NodeKept, RowSent, Mine, Arrive, Forget
  <2> QED BY <2>1, <2>2, <2>3
<1> QED BY <1>2, <1>3, <1>4 DEF PoolFinite

\* The nonce cache is kept, emptied, or set behind the nonce just reserved; it is
\* emptied by a failed try_begin and by a restart only.
LEMMA CacheAfter ==
    ASSUME WInv, Next
    PROVE  \/ nextNonce' = nextNonce /\ ~Prepare
           \/ nextNonce' = {} /\ ~Mild /\ ~Prepare
           \/ Prepare /\ nextNonce' = {ReserveNonce + 1}
<1>1. CASE Prepare
  BY <1>1 DEF Prepare, CacheNonce
<1>2. CASE ~Prepare
  <2>1. nextNonce' = nextNonce \/ PrepareFails \/ Restart
    BY <1>2 DEF Next, Step, Faults, Call, ReplayFinished, WaitForReceipt,
     SendAccepted, SendRefused, QuerySubmitted, Recover, Invalid, Quarantine, Remove, Requery, Update, RecoverNext,
     PrepareUnanswered, SendReplyLost, SendFails, QuerySubmittedFails, RecoverUnanswered,
     LookupFails, Cancel, Forget, Damage, Mine, Arrive
  <2>2. PrepareFails \/ Restart => nextNonce' = {} /\ ("store" \in world.kinds \/ "crash" \in world.kinds)
    BY DEF PrepareFails, Restart, Fault
  <2>3. Mild => "store" \notin world.kinds /\ "crash" \notin world.kinds
    BY DEF Mild
  <2> QED BY <1>2, <2>1, <2>2, <2>3
<1> QED BY <1>1, <1>2

LEMMA CacheStep ==
    ASSUME WInv, Next
    PROVE  CacheOne' /\ nextNonce' \subseteq Nat /\ Cardinality(nextNonce') <= 1
           /\ CacheAbove' /\ NonceUnique'
<1>1. Mild' <=> Mild
  BY FaultsGrow DEF Mild, WInv
<1>2. CacheOne' /\ nextNonce' \subseteq Nat /\ Cardinality(nextNonce') <= 1
  <2>1. CASE nextNonce' = nextNonce
    BY <2>1 DEF WInv, CacheOne, TypeOK
  <2>2. CASE nextNonce' = {}
    BY <2>2, FS_EmptySet DEF CacheOne
  <2>3. CASE Prepare /\ nextNonce' = {ReserveNonce + 1}
    <3>1. PICK n \in Nat : n = ReserveNonce + 1
      BY <2>3, Prepared
    <3> QED BY <2>3, <3>1, FS_Singleton DEF CacheOne
  <2> QED BY <2>1, <2>2, <2>3, CacheAfter
<1>3. \A r \in Requests : Present(r) => records[r].tx.nonce \in Nat
  BY DEF WInv, TypeOK, Record, Tx, Present
<1>4. CASE ~Mild
  BY <1>1, <1>2, <1>4 DEF CacheAbove, NonceUnique
<1>5. CASE Mild /\ ~Prepare
  <2>1. nextNonce' = nextNonce
    BY <1>5, CacheAfter
  <2>2. \A r \in Requests : Present(r)' => Present(r) /\ records'[r].tx = records[r].tx
    BY <1>5, RowAfter
  <2>3. CacheAbove'
    BY <1>1, <1>5, <2>1, <2>2 DEF WInv, CacheAbove
  <2>4. NonceUnique'
    BY <1>1, <1>5, <2>2 DEF WInv, NonceUnique, Present
  <2> QED BY <1>2, <2>3, <2>4
<1>6. CASE Mild /\ Prepare
  <2>1. nextNonce' = {ReserveNonce + 1} /\ ReserveNonce \in Nat
    BY <1>6, CacheAfter, Prepared
  <2>2. PICK q \in Requests : q = lock.req
    BY <1>6, Prepared
  <2>3. ~Present(q) /\ Present(q)' /\ records'[q].tx.nonce = ReserveNonce
    <3>1. records' = [records EXCEPT ![q] = [state |-> "Sending", tx |-> NewTx, intact |-> TRUE]]
          /\ NewTx.nonce = ReserveNonce /\ ~Present(q)
      BY <1>6, <2>2, Prepared
    <3> QED BY <3>1 DEF WInv, TypeOK, Present, None
  <2>4. \A r \in Requests : r # q => records'[r] = records[r]
    BY <1>6, <2>2, Prepared DEF WInv, TypeOK
  <2>5. \A r \in Requests : Present(r) => records[r].tx.nonce < ReserveNonce
    <3> SUFFICES ASSUME NEW r \in Requests, Present(r) PROVE records[r].tx.nonce < ReserveNonce
      OBVIOUS
    <3>1. PICK n \in nextNonce : records[r].tx.nonce < n
      BY <1>6 DEF WInv, CacheAbove
    <3>2. n \in Nat /\ n <= ReserveNonce
      BY <1>6, <3>1, Prepared DEF WInv, TypeOK
    <3> QED BY <1>3, <2>1, <3>1, <3>2
  <2>6. CacheAbove'
    <3> SUFFICES ASSUME NEW r \in Requests, Present(r)' PROVE records'[r].tx.nonce < ReserveNonce + 1
      BY <2>1 DEF CacheAbove
    <3>1. CASE r = q
      BY <2>1, <2>3, <3>1
    <3>2. CASE r # q
      BY <1>3, <2>1, <2>4, <2>5, <3>2 DEF Present
    <3> QED BY <3>1, <3>2
  <2>7. NonceUnique'
    <3> SUFFICES ASSUME NEW r \in Requests, NEW s \in Requests, r # s, Present(r)', Present(s)'
                 PROVE  records'[r].tx.nonce # records'[s].tx.nonce
      BY DEF NonceUnique, Present
    <3>1. CASE r = q
      BY <1>3, <2>1, <2>3, <2>4, <2>5, <3>1 DEF Present
    <3>2. CASE s = q
      BY <1>3, <2>1, <2>3, <2>4, <2>5, <3>2 DEF Present
    <3>3. CASE r # q /\ s # q
      BY <1>6, <2>4, <3>3 DEF WInv, NonceUnique, Present
    <3> QED BY <3>1, <3>2, <3>3
  <2> QED BY <1>2, <2>6, <2>7
<1> QED BY <1>4, <1>5, <1>6

\* What a caller was answered Ok for, and what a holder of the lock saw alive, stays
\* in the pool until it is on the chain.
LEMMA AliveStays ==
    ASSUME WInv, Next, Mild
    PROVE  pool \cup OnChain \subseteq pool' \cup OnChain'
<1>1. "forget" \notin world.kinds
  BY DEF Mild
<1>2. ~Forget
  BY <1>1 DEF Forget, Fault
<1>3. OnChain \subseteq OnChain'
  BY ChainGrows
<1>4. CASE Mine
  <2>1. PICK t \in pool, s \in Receipts : mined' = Append(mined, [tx |-> t, status |-> s])
                                          /\ pool' = pool \ {t}
    BY <1>4 DEF Mine
  <2>2. t \in OnChain'
    <3>1. mined \in Seq([tx: Tx, status: Receipts]) /\ Len(mined) \in Nat
      BY DEF WInv, TypeOK
    <3>2. PICK b : b = [tx |-> t, status |-> s]
      OBVIOUS
    <3>3. Len(mined) + 1 \in DOMAIN mined' /\ mined'[Len(mined) + 1] = b
      <4> DEFINE B == [tx: Tx, status: Receipts]
      <4>1. mined \in Seq(B) /\ mined' = Append(mined, b)
        BY <2>1, <3>1, <3>2
      <4> HIDE DEF B
      <4> QED BY <4>1
    <3> QED BY <3>2, <3>3 DEF OnChain
  <2> QED BY <1>3, <2>1, <2>2
<1>5. CASE ~Mine
  <2>1. pool \subseteq pool'
    BY <1>2, <1>5, NodeFollows DEF NodeEffect, NodeKept, RowSent, Arrive
  <2> QED BY <1>3, <2>1
<1> QED BY <1>4, <1>5

\* The cache of the BNS server is left alone or holds the answer to the last lookup.
LEMMA CachedAfter ==
    ASSUME WInv, Next
    PROVE  \/ cached' = cached
           \/ \E t \in Tx : \E s \in Answers(t) : Remember(t, s)
<1>1. \/ cached' = cached
      \/ QuerySubmittedFails \/ RecoverUnanswered \/ LookupFails
      \/ \E s \in TxStates : QuerySubmitted(s) \/ Recover(s) \/ Invalid(s) \/ Requery(s)
      \/ \E r \in Requests, s \in TxStates : WaitForReceipt(r, s)
  BY DEF Next, Step, Faults, Call, ReplayFinished, Prepare, SendAccepted,
     SendRefused, Quarantine, Remove, Update, RecoverNext, PrepareFails,
     PrepareUnanswered, SendReplyLost, SendFails, Restart, Cancel, Forget, Damage, Mine, Arrive
<1>2. \A s \in {"recover", "invalid", "requery", "query"} : At(s) => Held.tx \in Tx
  BY HeldRow DEF RowSteps
<1>3. \A t : ChainState(t) \in Answers(t)
  BY DEF Answers
<1>4. CASE QuerySubmittedFails \/ RecoverUnanswered \/ LookupFails
  <2>1. Held.tx \in Tx /\ LookupLost(Held.tx)
    BY <1>2, <1>4 DEF QuerySubmittedFails, RecoverUnanswered, LookupFails
  <2> QED BY <1>3, <2>1 DEF LookupLost
<1>5. ASSUME NEW s \in TxStates, QuerySubmitted(s) \/ Recover(s) \/ Invalid(s) \/ Requery(s)
      PROVE  Held.tx \in Tx /\ s \in Answers(Held.tx) /\ Remember(Held.tx, s)
  BY <1>2, <1>5 DEF QuerySubmitted, Recover, Invalid, Requery
<1>6. ASSUME NEW r \in Requests, NEW s \in TxStates, WaitForReceipt(r, s)
      PROVE  records[r].tx \in Tx /\ s \in Answers(records[r].tx) /\ Remember(records[r].tx, s)
  <2>1. acked \subseteq Tx
    BY DEF WInv, TypeOK
  <2> QED BY <1>6, <2>1 DEF WaitForReceipt
<1> QED BY <1>1, <1>4, <1>5, <1>6

LEMMA CachedStep ==
    ASSUME WInv, Next
    PROVE  cached' \subseteq CachedLookup /\ CachedInv'
<1>1. cached \subseteq CachedLookup /\ (Mild' <=> Mild)
  BY FaultsGrow DEF WInv, TypeOK, Mild
<1>2. ASSUME NEW c \in cached, Mild, c.state = "Pending" PROVE c.tx \in pool' \cup OnChain'
  BY <1>2, AliveStays DEF WInv, CachedInv
<1>3. CASE cached' = cached
  BY <1>1, <1>2, <1>3 DEF CachedInv
<1>4. ASSUME NEW t \in Tx, NEW s \in Answers(t), Remember(t, s)
      PROVE  cached' \subseteq CachedLookup /\ CachedInv'
  <2> DEFINE e == [tx |-> t, state |-> s]
  <2>1. e.tx = t /\ e.state = s
    OBVIOUS
  <2>2. s \in TxStates /\ (Mild /\ s # "NotFound" => t \in pool \cup OnChain)
    BY AnswerType DEF WInv
  <2>3. s \notin Receipts => e \in CachedLookup
    BY <2>2 DEF CachedLookup, TxStates
  <2>4. \A c \in cached' : c \in cached \/ (c = e /\ s \notin Receipts)
    BY <1>4 DEF Remember
  <2>5. Mild /\ s = "Pending" => t \in pool' \cup OnChain'
    BY <2>2, AliveStays
  <2> HIDE DEF e
  <2>6. cached' \subseteq CachedLookup
    BY <1>1, <2>3, <2>4
  <2> QED BY <1>1, <1>2, <2>1, <2>4, <2>5, <2>6 DEF CachedInv
<1> QED BY <1>3, <1>4, CachedAfter

LEMMA AckedStep ==
    ASSUME WInv, Next
    PROVE  acked' \subseteq Tx /\ AckedIsAlive'
<1>1. acked \subseteq Tx
  BY DEF WInv, TypeOK
<1>2. Mild' <=> Mild
  BY FaultsGrow DEF Mild, WInv
<1>3. \/ acked' = acked
      \/ \E r \in Requests : ReplayFinished(r) /\ records[r].state = "Succeeded"
                             /\ acked' = acked \cup {records[r].tx}
      \/ Requery("Succeeded") /\ acked' = acked \cup {Held.tx}
      \/ Update /\ acked' = acked \cup {Held.tx}
  BY DEF Next, Step, Faults, Call, ReplayFinished, WaitForReceipt, Prepare,
     SendAccepted, SendRefused, QuerySubmitted, Recover, Invalid, Quarantine, Remove, Requery, Update, RecoverNext,
     PrepareFails, Restart, PrepareUnanswered, SendReplyLost, SendFails, QuerySubmittedFails,
     RecoverUnanswered, LookupFails, Cancel, Forget, Damage, Mine, Arrive
<1>4. ASSUME NEW t \in Tx, Mild => t \in pool \cup OnChain, acked' = acked \cup {t}
      PROVE  acked' \subseteq Tx /\ AckedIsAlive'
  BY <1>1, <1>2, <1>4, AliveStays DEF WInv, AckedIsAlive
<1>5. CASE acked' = acked
  BY <1>1, <1>2, <1>5, AliveStays DEF WInv, AckedIsAlive
<1>6. ASSUME NEW r \in Requests, records[r].state = "Succeeded",
             acked' = acked \cup {records[r].tx}
      PROVE  acked' \subseteq Tx /\ AckedIsAlive'
  <2>1. "Succeeded" \in Receipts
    BY DEF Receipts
  <2>2. Witnessed(records[r].tx, "Succeeded")
    BY <1>6, <2>1 DEF WInv, RecordTruth, Witnessed
  <2>3. records[r].tx \in OnChain
    BY <2>2, WitnessedIsFound DEF WInv
  <2>4. records[r] \in Record
    BY <1>6 DEF WInv, TypeOK, None
  <2>5. records[r].tx \in Tx
    BY <2>4 DEF Record
  <2> QED BY <1>4, <1>6, <2>3, <2>5
<1>7. CASE Requery("Succeeded") /\ acked' = acked \cup {Held.tx}
  <2>1. Held.tx \in Tx
    BY <1>7, HeldRow DEF Requery, RowSteps
  <2>2. Mild => Held.tx \in pool \cup OnChain
    BY <1>7, AnswerType DEF WInv, Requery
  <2> QED BY <1>4, <1>7, <2>1, <2>2
<1>8. CASE Update /\ acked' = acked \cup {Held.tx}
  <2>1. Held.tx \in Tx
    BY <1>8, HeldRow DEF Update, RowSteps
  <2>2. Mild => Held.tx \in pool \cup OnChain
    BY <1>8 DEF Update, WInv, LockInv
  <2> QED BY <1>4, <1>8, <2>1, <2>2
<1> QED BY <1>3, <1>5, <1>6, <1>7, <1>8

LEMMA RowStep ==
    ASSUME WInv, Next
    PROVE  RowInv' /\ CountInv' /\ signed' \in [Requests -> 0..(MaxFaults + 1)]
<1> SUFFICES ASSUME NEW q \in Requests
             PROVE  /\ Present(q)' => /\ records'[q].tx.req = q
                                      /\ records'[q].state = "Failed" => ~records'[q].intact
                                      /\ ~records'[q].intact => "damage" \in world.kinds
                    /\ ~Present(q)' => signed'[q] <= faults'
                    /\ Present(q)' /\ records'[q].intact => signed'[q] <= faults' + 1
                    /\ Present(q)' /\ ~records'[q].intact => signed'[q] <= faults'
                    /\ signed' \in [Requests -> 0..(MaxFaults + 1)]
  <2>1. (\A q \in Requests : signed' \in [Requests -> 0..(MaxFaults + 1)])
        => signed' \in [Requests -> 0..(MaxFaults + 1)]
    <3>1. CASE Requests = {}
      <4>1. ~Prepare /\ ~(\E r \in Requests : RowChanged(r))
        BY <3>1, Prepared
      <4> QED BY <4>1, RowsFollow DEF RowEffect, RowsKept, WInv, TypeOK
    <3> QED BY <3>1
  <2> QED BY <2>1, FaultsGrow DEF WInv, RowInv, CountInv, Present
<1>1. /\ records \in [Requests -> Record \cup {None}]
      /\ signed \in [Requests -> 0..(MaxFaults + 1)]
      /\ faults \in Nat /\ faults' \in Nat /\ faults <= faults' /\ faults' <= MaxFaults
      /\ MaxFaults \in Nat
  BY FaultsGrow, ConstantsAssumption DEF WInv, TypeOK
<1>2. /\ Present(q) => /\ records[q].tx.req = q
                       /\ records[q].state = "Failed" => ~records[q].intact
                       /\ ~records[q].intact => "damage" \in world.kinds
      /\ ~Present(q) => signed[q] <= faults
      /\ Present(q) /\ records[q].intact => signed[q] <= faults + 1
      /\ Present(q) /\ ~records[q].intact => signed[q] <= faults
  BY DEF WInv, RowInv, CountInv
<1>3. CASE RowsKept
  <2>1. records'[q] = records[q] /\ signed' = signed
    BY <1>3 DEF RowsKept
  <2> QED BY <1>1, <1>2, <2>1 DEF Present
<1>4. CASE Prepare
  <2>1. /\ lock.req \in Requests /\ ~Present(lock.req) /\ NewTx.req = lock.req
        /\ records' = [records EXCEPT ![lock.req] =
                         [state |-> "Sending", tx |-> NewTx, intact |-> TRUE]]
    BY <1>4, Prepared
  <2>2. signed' = [signed EXCEPT ![lock.req] = @ + 1]
    BY <1>4 DEF Prepare
  <2>3. signed[lock.req] <= faults
    BY <2>1 DEF WInv, CountInv
  <2>4. signed' \in [Requests -> 0..(MaxFaults + 1)]
    BY <1>1, <2>1, <2>2, <2>3
  <2>5. CASE q = lock.req
    <3>1. /\ records'[q].state = "Sending" /\ records'[q].intact /\ records'[q].tx = NewTx
          /\ Present(q)' /\ signed'[q] = signed[q] + 1
      BY <1>1, <2>1, <2>2, <2>5 DEF Present, None
    <3>2. signed[q] \in Nat /\ signed[q] <= faults
      BY <1>1, <2>3, <2>5
    <3>3. signed'[q] <= faults' + 1
      BY <1>1, <3>1, <3>2
    <3>4. "Sending" # "Failed" /\ records'[q].tx.req = q
      BY <2>1, <2>5, <3>1
    <3> QED BY <2>4, <3>1, <3>3, <3>4
  <2>6. CASE q # lock.req
    <3>1. records'[q] = records[q] /\ signed'[q] = signed[q]
      BY <1>1, <2>1, <2>2, <2>6
    <3> QED BY <1>1, <1>2, <2>4, <3>1 DEF Present
  <2> QED BY <2>5, <2>6
<1>5. ASSUME NEW r \in Requests, RowChanged(r)
      PROVE  /\ Present(q)' => /\ records'[q].tx.req = q
                               /\ records'[q].state = "Failed" => ~records'[q].intact
                               /\ ~records'[q].intact => "damage" \in world.kinds
             /\ ~Present(q)' => signed[q] <= faults'
             /\ Present(q)' /\ records'[q].intact => signed[q] <= faults' + 1
             /\ Present(q)' /\ ~records'[q].intact => signed[q] <= faults'
  <2>1. CASE q # r
    <3>1. records'[q] = records[q]
      BY <1>1, <1>5, <2>1 DEF RowChanged, RowRestated, RowRemoved, RowDamaged
    <3> QED BY <1>1, <1>2, <3>1 DEF Present
  <2>2. ASSUME q = r, RowRestated(r)
        PROVE  /\ Present(q)' /\ records'[q].tx = records[q].tx
               /\ records'[q].intact = records[q].intact
               /\ records'[q].state = "Failed" => ~records[q].intact
    <3>1. PICK s : records' = [records EXCEPT ![r].state = s] /\ (s = "Failed" => ~records[r].intact)
      BY <2>2 DEF RowRestated
    <3>2. records[r] \in Record
      BY <1>1, <1>5 DEF RowChanged, Present
    <3>3. records'[r] = [records[r] EXCEPT !.state = s]
      BY <1>1, <3>1
    <3> QED BY <2>2, <3>1, <3>2, <3>3 DEF Record, Present, None
  <2>3. ASSUME q = r, RowDamaged(r)
        PROVE  /\ Present(q)' /\ records'[q].tx = records[q].tx /\ ~records'[q].intact
    <3>1. records[r] \in Record
      BY <1>1, <1>5 DEF RowChanged, Present
    <3>2. records'[r] = [records[r] EXCEPT !.intact = FALSE]
      BY <1>1, <2>3 DEF RowDamaged
    <3> QED BY <2>3, <3>1, <3>2 DEF Record, Present, None
  <2>4. ASSUME q = r, RowRemoved(r) PROVE ~Present(q)' /\ ~records[q].intact
    BY <1>1, <2>4 DEF RowRemoved, Present
  <2>5. Present(r) /\ (RowRestated(r) \/ RowRemoved(r) \/ RowDamaged(r))
    BY <1>5 DEF RowChanged
  <2>6. CASE q = r /\ RowRestated(r)
    BY <1>1, <1>2, <2>2, <2>5, <2>6
  <2>7. CASE q = r /\ RowDamaged(r)
    <3>1. faults' = faults + 1 /\ "damage" \in world.kinds
      BY <2>7 DEF RowDamaged
    <3>2. signed[q] \in Nat /\ signed[q] <= faults + 1
      BY <1>1, <1>2, <2>5, <2>7
    <3> QED BY <1>1, <1>2, <2>3, <2>5, <2>7, <3>1, <3>2
  <2>8. CASE q = r /\ RowRemoved(r)
    BY <1>1, <1>2, <2>4, <2>5, <2>8
  <2> QED BY <2>1, <2>5, <2>6, <2>7, <2>8
<1>6. ASSUME NEW r \in Requests, RowChanged(r) PROVE signed' = signed
  BY <1>6 DEF RowChanged
<1> QED BY <1>1, <1>3, <1>4, <1>5, <1>6, RowsFollow DEF RowEffect

LEMMA NodeTypes ==
    ASSUME WInv, Next
    PROVE  pool' \subseteq Tx /\ wire' \subseteq Tx
<1>1. pool \subseteq Tx /\ wire \subseteq Tx
  BY DEF WInv, TypeOK
<1>2. \A r \in Requests : Present(r) => records[r].tx \in Tx
  BY DEF WInv, TypeOK, Record, Present
<1> QED BY <1>1, <1>2, NodeFollows DEF NodeEffect, NodeKept, RowSent, Mine, Arrive, Forget

(***************************************************************************)
(* The execution lock                                                      *)
(***************************************************************************)
LockTyped == lock \in Holder \cup {Recovery(R) : R \in SUBSET Requests} \cup {Free}

\* A future ends: the lock is free, or the recovery goes on with rows that are stored.
LEMMA Finished ==
    ASSUME TypeOK, LockInv, lock \in Holder, Finish, \A r \in lock.todo : Present(r)'
    PROVE  LockTyped' /\ LockInv'
<1>1. lock.todo \in SUBSET Requests
  BY DEF Holder
<1>2. CASE lock' = Free
  BY <1>2 DEF LockTyped, LockInv, At
<1>3. CASE lock' = Recovery(lock.todo)
  <2>1. lock'.mode = "Startup" /\ lock'.todo = lock.todo /\ lock'.step = "next"
    BY <1>3 DEF Recovery
  <2>2. LockTyped'
    BY <1>1, <1>3 DEF LockTyped
  <2>3. ~At("prepare")' /\ ~At("requery")' /\ ~At("invalid")' /\ ~At("update")'
        /\ ~At("quarantine")' /\ ~At("remove")' /\ \A s \in RowSteps : ~At(s)'
    BY <2>1 DEF At, RowSteps
  <2> QED BY <2>1, <2>2, <2>3 DEF LockInv
<1> QED BY <1>2, <1>3 DEF Finish

\* A future goes on to another step with what that step relies on.
LEMMA Moved ==
    ASSUME TypeOK, LockInv, lock \in Holder,
           NEW s \in Steps, s # "requery",
           NEW v \in {"Pending"} \cup Receipts,
           lock' = [lock EXCEPT !.step = s, !.seen = v],
           \A r \in lock.todo : Present(r)',
           s = "prepare" => records'[lock.req] = None /\ lock.mode = "RequestReplay",
           s \in RowSteps => records'[lock.req] # None,
           s \in {"invalid", "quarantine"} => ~records'[lock.req].intact,
           s = "remove" => records'[lock.req].state = "Failed" /\ lock.mode = "RequestReplay",
           (s = "update" /\ v \in Receipts) =>
               \E i \in DOMAIN mined' : /\ mined'[i].tx = records'[lock.req].tx
                                        /\ mined'[i].status = v,
           (s = "update" /\ Mild') => records'[lock.req].tx \in pool' \cup OnChain'
    PROVE  LockTyped' /\ LockInv'
<1>1. lock' \in Holder
  BY DEF Holder
<1>2. /\ lock'.mode = lock.mode /\ lock'.todo = lock.todo /\ lock'.req = lock.req
      /\ lock'.step = s /\ lock'.seen = v
  BY DEF Holder
<1>3. lock # Free /\ lock' # Free
  BY <1>1 DEF Holder, Free
<1>4. Held' = records'[lock.req]
  BY <1>2 DEF Held
<1>5. \A z : At(z)' => z = s
  BY <1>2 DEF At
<1>6. LockTyped'
  BY <1>1 DEF LockTyped
<1>7. /\ lock' # Free => \A r \in lock'.todo : Present(r)'
      /\ lock' # Free /\ lock'.mode = "RequestReplay" => lock'.todo = {}
  BY <1>2, <1>3 DEF LockInv
<1>8. /\ At("prepare")' => ~Present(lock.req)' /\ lock'.mode = "RequestReplay"
      /\ \A z \in RowSteps : At(z)' => Present(lock.req)'
  BY <1>2, <1>5 DEF Present
<1>9. /\ ~At("requery")'
      /\ At("invalid")' \/ At("quarantine")' => ~Held'.intact
      /\ At("remove")' => Held'.state = "Failed" /\ lock'.mode = "RequestReplay"
  BY <1>2, <1>4, <1>5
<1>10. /\ At("update")' /\ lock'.seen \in Receipts => Witnessed(Held.tx, lock.seen)'
       /\ At("update")' /\ Mild' => Held'.tx \in pool' \cup OnChain'
  BY <1>2, <1>4, <1>5 DEF Witnessed
<1> QED BY <1>6, <1>7, <1>8, <1>9, <1>10 DEF LockInv, Present

\* Goto keeps what the future has seen.
LEMMA GotoKeeps ==
    ASSUME lock \in Holder, NEW s \in Steps, Goto(s)
    PROVE  lock' = [lock EXCEPT !.step = s, !.seen = lock.seen]
           /\ lock.seen \in {"Pending"} \cup Receipts
BY DEF Goto, Holder

\* A request takes the lock, or the recovery its next row.
LEMMA Entered ==
    ASSUME NEW l \in Holder, lock' = l, records' = records,
           \A r \in l.todo : Present(r),
           l.mode = "RequestReplay" => l.todo = {},
           \/ l.step = "prepare" /\ ~Present(l.req) /\ l.mode = "RequestReplay"
           \/ l.step = "recover" /\ Present(l.req)
           \/ l.step = "requery" /\ records[l.req].state = "Failed" /\ l.mode = "RequestReplay"
    PROVE  LockTyped' /\ LockInv'
<1>1. LockTyped'
  BY DEF LockTyped
<1>2. \A z : At(z)' => z = l.step
  BY DEF At
<1>3. "Failed" # "None"
  OBVIOUS
<1>4. records[l.req].state = "Failed" => Present(l.req)
  BY <1>3 DEF Present, None
<1>5. (At("prepare")' => ~Present(lock.req)' /\ lock'.mode = "RequestReplay")
      /\ \A z \in RowSteps : At(z)' => Present(lock.req)'
  BY <1>2, <1>4 DEF Present, RowSteps
<1>6. At("requery")' => Held'.state = "Failed" /\ lock'.mode = "RequestReplay"
  BY <1>2 DEF Held
<1>7. ~At("invalid")' /\ ~At("update")' /\ ~At("quarantine")' /\ ~At("remove")'
  BY <1>2
<1>8. \A r \in lock'.todo : Present(r)'
  BY DEF Present
<1> QED BY <1>1, <1>5, <1>6, <1>7, <1>8 DEF LockInv

\* A step that leaves the lock alone leaves the holder's row alone, but for the
\* receipt of a row in flight.
LEMMA LockKept ==
    ASSUME WInv, Next, lock' = lock,
           lock # Free => \A r \in lock.todo : Present(r)',
           lock \in Holder =>
             \/ records'[lock.req] = records[lock.req]
             \/ /\ Inflight(lock.req)
                /\ records'[lock.req] # None
                /\ records'[lock.req].tx = records[lock.req].tx
                /\ records'[lock.req].intact = records[lock.req].intact
    PROVE  LockTyped' /\ LockInv'
<1>1. LockTyped'
  BY DEF LockTyped, WInv, TypeOK
<1>2. CASE lock \in Holder
  <2>1. \A z : At(z)' <=> At(z)
    BY DEF At
  <2>2. LockInv
    BY DEF WInv
  <2>3. Held' = records'[lock.req] /\ Held = records[lock.req]
    BY DEF Held
  <2>4. ASSUME NEW z \in RowSteps, At(z)
        PROVE  /\ Present(lock.req)' /\ Held'.tx = Held.tx
               /\ Held'.intact = Held.intact
    BY <1>2, <2>2, <2>3, <2>4 DEF LockInv, Present
  <2>5. {"requery", "invalid", "quarantine", "update"} \subseteq RowSteps
    BY DEF RowSteps
  <2>6. At("prepare") => ~Present(lock.req)'
    <3>1. Inflight(lock.req) => Present(lock.req)
      BY DEF Inflight, Present, None, InflightStates
    <3> QED BY <1>2, <2>2, <3>1 DEF LockInv, Present
  <2>7. At("requery") \/ At("remove") => Held'.state = "Failed"
    <3>1. Inflight(lock.req) => Held.state # "Failed"
      BY <2>3 DEF Inflight, InflightStates
    <3> QED BY <1>2, <2>2, <2>3, <3>1 DEF LockInv
  <2>8. At("update") /\ lock.seen \in Receipts => Witnessed(Held.tx, lock.seen)'
    <3> SUFFICES ASSUME At("update"), lock.seen \in Receipts PROVE Witnessed(Held.tx, lock.seen)'
      OBVIOUS
    <3>1. PICK i \in DOMAIN mined : mined[i].tx = Held.tx /\ mined[i].status = lock.seen
      BY <2>2 DEF LockInv, Witnessed
    <3>2. i \in DOMAIN mined' /\ mined'[i] = mined[i]
      BY <3>1, ChainGrows
    <3>3. Held'.tx = Held.tx
      BY <2>4, <2>5
    <3> QED BY <3>1, <3>2, <3>3 DEF Witnessed
  <2>9. At("update") /\ Mild' => Held'.tx \in pool' \cup OnChain'
    <3>1. Mild' => Mild
      BY FaultsGrow DEF Mild, WInv
    <3> QED BY <2>2, <2>4, <2>5, <3>1, AliveStays DEF LockInv
  <2> QED BY <1>1, <2>1, <2>2, <2>4, <2>5, <2>6, <2>7, <2>8, <2>9 DEF LockInv
<1>3. CASE lock \notin Holder
  <2>1. \A z \in Steps : ~At(z)'
    BY <1>3, HolderShape DEF WInv, At
  <2>2. /\ RowSteps \subseteq Steps
        /\ {"prepare", "requery", "invalid", "quarantine", "remove", "update"} \subseteq Steps
    BY DEF RowSteps, Steps
  <2>3. lock # Free /\ lock.mode = "RequestReplay" => lock.todo = {}
    BY DEF WInv, LockInv
  <2> QED BY <1>1, <2>1, <2>2, <2>3 DEF LockInv
<1> QED BY <1>2, <1>3

\* What the recovery has left to do is never removed.
LEMMA TodoStays ==
    ASSUME WInv, Next, lock # Free, NEW r \in lock.todo
    PROVE  Present(r)'
<1>1. r \in Requests /\ Present(r) /\ lock.mode # "RequestReplay"
  BY HolderShape DEF WInv, LockInv
<1>2. records[r] \in Record /\ records \in [Requests -> Record \cup {None}]
  BY <1>1 DEF WInv, TypeOK, Present
<1>3. ASSUME NEW q, NEW s, records' = [records EXCEPT ![q].state = s] PROVE Present(r)'
  BY <1>1, <1>2, <1>3 DEF Present, Record, None
<1>4. ASSUME NEW q, records' = [records EXCEPT ![q].intact = FALSE] PROVE Present(r)'
  BY <1>1, <1>2, <1>4 DEF Present, Record, None
<1>5. CASE records' = records
  BY <1>1, <1>5 DEF Present
<1>6. ~Prepare /\ ~Remove /\ \A s : ~Requery(s)
  BY <1>1 DEF Prepare, Remove, Requery, WInv, LockInv
<1>7. CASE Quarantine
  BY <1>3, <1>5, <1>7 DEF Quarantine, UpdateInflight
<1>8. CASE Update
  BY <1>3, <1>5, <1>8 DEF Update, UpdateInflight
<1>9. ASSUME NEW q \in Requests, NEW s \in TxStates, WaitForReceipt(q, s) PROVE Present(r)'
  BY <1>3, <1>5, <1>9 DEF WaitForReceipt, UpdateInflight
<1>10. ASSUME NEW q \in Requests, Damage(q) PROVE Present(r)'
  BY <1>4, <1>10 DEF Damage
<1>11. \/ records' = records \/ Prepare \/ Quarantine \/ Remove \/ Update
       \/ \E s \in TxStates : Requery(s)
       \/ \E q \in Requests, s \in TxStates : WaitForReceipt(q, s)
       \/ \E q \in Requests : Damage(q)
  BY DEF Next, Step, Faults, Call, ReplayFinished, WaitForReceipt, Prepare,
     SendAccepted, SendRefused, QuerySubmitted, Recover, Invalid, RecoverNext, PrepareFails,
     PrepareUnanswered, SendReplyLost, SendFails, QuerySubmittedFails, RecoverUnanswered,
     LookupFails, Restart, Cancel, Forget, Mine, Arrive
<1> QED BY <1>5, <1>6, <1>7, <1>8, <1>9, <1>10, <1>11

LEMMA LockStep ==
    ASSUME WInv, Next
    PROVE  LockTyped' /\ LockInv'
<1> USE DEF LockTyped
<1>1. TypeOK /\ LockInv
  BY DEF WInv
<1>2. \A z \in Steps : At(z) => lock \in Holder /\ lock # Free
  BY HolderShape DEF WInv
<1>3. lock # Free => \A r \in lock.todo : Present(r)'
  BY TodoStays
<1>4. /\ {"prepare", "recover", "invalid", "quarantine", "remove", "requery", "send", "query",
         "update"} = Steps
      /\ RowSteps = Steps \ {"prepare"}
  BY DEF Steps, RowSteps
<1>5. ASSUME NEW z \in Steps, At(z), Finish PROVE LockTyped' /\ LockInv'
  BY <1>1, <1>2, <1>3, <1>5, Finished
<1>6. Mild' => Mild
  BY FaultsGrow DEF Mild, WInv
<1>7. ASSUME NEW z \in RowSteps, At(z), records' = records, NodeKept,
             NEW v \in Answers(Held.tx), v # "NotFound",
             lock' = [lock EXCEPT !.step = "update", !.seen = v]
      PROVE  LockTyped' /\ LockInv'
  <2>1. lock \in Holder /\ Present(lock.req)
    BY <1>7, HeldRow
  <2>2. v \in {"Pending"} \cup Receipts /\ (v \in Receipts => Witnessed(Held.tx, v))
        /\ (Mild => Held.tx \in pool \cup OnChain)
    BY <1>1, <1>7, AnswerType DEF TxStates, WInv
  <2>3. v \in Receipts => \E i \in DOMAIN mined' : /\ mined'[i].tx = records'[lock.req].tx
                                                   /\ mined'[i].status = v
    BY <1>7, <2>2 DEF Witnessed, NodeKept, Held
  <2>4. Mild' => records'[lock.req].tx \in pool' \cup OnChain'
    BY <1>6, <1>7, <2>2 DEF NodeKept, Held, OnChain
  <2>5. records'[lock.req] # None /\ lock # Free
    BY <1>7, <2>1 DEF Present, At
  <2>6. "update" \in Steps /\ "update" \notin {"requery", "prepare", "invalid", "quarantine", "remove"}
    BY <1>4
  <2> QED BY <1>1, <1>3, <1>7, <2>1, <2>2, <2>3, <2>4, <2>5, <2>6, Moved
<1>8. ASSUME NEW z \in RowSteps, At(z), records' = records, NEW s \in {"send", "query"}, Goto(s)
      PROVE  LockTyped' /\ LockInv'
  <2>1. lock \in Holder /\ Present(lock.req) /\ lock # Free
    BY <1>8, HeldRow DEF At
  <2>2. s \in Steps /\ s \notin {"requery", "prepare", "invalid", "quarantine", "remove", "update"}
    BY <1>4
  <2>3. PICK v \in {"Pending"} \cup Receipts : lock' = [lock EXCEPT !.step = s, !.seen = v]
    BY <1>8, <2>1, <2>2, GotoKeeps
  <2>4. records'[lock.req] # None
    BY <1>8, <2>1 DEF Present
  <2> QED BY <1>1, <1>3, <2>1, <2>2, <2>3, <2>4, Moved
<1>9. ASSUME NEW r \in Requests, NEW p \in Payloads, Call(r, p) PROVE LockTyped' /\ LockInv'
  <2> DEFINE l == [mode |-> "RequestReplay", todo |-> {}, req |-> r, payload |-> p,
                   step |-> FirstStep(r), seen |-> "Pending"]
  <2>1. lock' = l /\ records' = records /\ records[r].state \notin Receipts
    BY <1>9 DEF Call
  <2>2. records[r] \in Record \cup {None}
    BY <1>1 DEF TypeOK
  <2>3. records[r].state \in {"None", "Sending", "Pending", "Failed"}
    BY <2>1, <2>2 DEF Record, None, InflightStates
  <2>4. records[r].state # "None" => Present(r)
    BY DEF Present, None
  <2>5. records[r].state = "None" => ~Present(r)
    BY <2>2 DEF Present, None, Record, InflightStates, Receipts
  <2>6. \/ FirstStep(r) = "prepare" /\ ~Present(r)
        \/ FirstStep(r) = "recover" /\ Present(r)
        \/ FirstStep(r) = "requery" /\ records[r].state = "Failed"
    BY <2>3, <2>4, <2>5 DEF FirstStep, InflightStates
  <2>7. FirstStep(r) \in Steps
    BY <1>4, <2>6
  <2>8. l \in Holder
    BY <2>7 DEF Holder
  <2>9. l.step = FirstStep(r) /\ l.req = r /\ l.mode = "RequestReplay" /\ l.todo = {}
    OBVIOUS
  <2> HIDE DEF l
  <2> QED BY <2>1, <2>6, <2>8, <2>9, Entered
<1>10. ASSUME NEW r \in Requests, ReplayFinished(r) PROVE LockTyped' /\ LockInv'
  BY <1>3, <1>10, LockKept DEF ReplayFinished
<1>11. ASSUME NEW r \in Requests, NEW v \in TxStates, WaitForReceipt(r, v)
       PROVE  LockTyped' /\ LockInv'
  <2>1. lock' = lock /\ Inflight(r)
        /\ (records' = records \/ records' = [records EXCEPT ![r].state = v])
    BY <1>11 DEF WaitForReceipt, UpdateInflight
  <2>2. lock \in Holder => lock.req \in Requests
    BY DEF Holder
  <2>3. ASSUME lock \in Holder, lock.req = r
        PROVE  /\ records'[r] # None /\ records'[r].tx = records[r].tx
               /\ records'[r].intact = records[r].intact
    <3>1. records[r] \in Record /\ records \in [Requests -> Record \cup {None}]
      BY <1>1, <2>1 DEF TypeOK, Inflight, InflightStates, None
    <3> QED BY <2>1, <3>1 DEF Record, None
  <2>4. ASSUME lock \in Holder, lock.req # r PROVE records'[lock.req] = records[lock.req]
    BY <1>1, <2>1, <2>2, <2>4 DEF TypeOK
  <2> QED BY <1>3, <2>1, <2>3, <2>4, LockKept
<1>12. ASSUME NEW r \in Requests, Damage(r) PROVE LockTyped' /\ LockInv'
  <2>1. lock' = lock /\ lock = Free
    BY <1>12 DEF Damage
  <2>2. lock \notin Holder
    BY <2>1 DEF Holder, Free
  <2> QED BY <2>1, <2>2, LockKept
<1>13. CASE Mine \/ Arrive \/ Forget
  <2>1. lock' = lock /\ records' = records
    BY <1>13 DEF Mine, Arrive, Forget
  <2> QED BY <1>3, <2>1, LockKept
<1>14. CASE Prepare
  <2>1. At("prepare") /\ Goto("send") /\ lock \in Holder /\ lock.req \in Requests
        /\ records' = [records EXCEPT ![lock.req] =
                         [state |-> "Sending", tx |-> NewTx, intact |-> TRUE]]
    BY <1>14, Prepared DEF Prepare
  <2>2. records'[lock.req] # None
    BY <1>1, <2>1 DEF TypeOK, None
  <2>3. PICK v \in {"Pending"} \cup Receipts : lock' = [lock EXCEPT !.step = "send", !.seen = v]
    BY <1>4, <2>1, GotoKeeps
  <2>4. lock # Free
    BY <2>1 DEF At
  <2>5. /\ "send" \in Steps
        /\ "send" \notin {"requery", "prepare", "invalid", "quarantine", "remove", "update"}
    BY <1>4
  <2> QED BY <1>1, <1>3, <2>1, <2>2, <2>3, <2>4, <2>5, Moved
<1>15. CASE PrepareFails \/ PrepareUnanswered \/ QuerySubmittedFails \/ LookupFails \/ Update
  <2>1. (At("prepare") \/ At("query") \/ At("invalid") \/ At("requery") \/ At("update")) /\ Finish
    BY <1>15 DEF PrepareFails, PrepareUnanswered, QuerySubmittedFails, LookupFails, Update
  <2> QED BY <1>4, <1>5, <2>1
<1>16. CASE SendAccepted
  <2>1. At("send") /\ records' = records /\ pool' = pool \cup {Held.tx}
        /\ lock' = [lock EXCEPT !.step = "update", !.seen = "Pending"]
    BY <1>16 DEF SendAccepted, SubmissionState
  <2>2. lock \in Holder /\ Present(lock.req) /\ lock # Free
    BY <1>4, <2>1, HeldRow DEF At
  <2>3. records'[lock.req] # None /\ records'[lock.req].tx \in pool'
    BY <2>1, <2>2 DEF Present, Held
  <2>4. "update" \in Steps /\ "update" \notin {"requery", "prepare", "invalid", "quarantine", "remove"}
        /\ "Pending" \notin Receipts
    BY <1>4 DEF Receipts
  <2> QED BY <1>1, <1>3, <2>1, <2>2, <2>3, <2>4, Moved
<1>17. CASE SendReplyLost \/ SendRefused \/ SendFails
  <2>1. At("send") /\ records' = records /\ Goto("query")
    BY <1>17 DEF SendReplyLost, SendRefused, SendFails
  <2> QED BY <1>4, <1>8, <2>1
<1>18. ASSUME NEW v \in TxStates, QuerySubmitted(v) PROVE LockTyped' /\ LockInv'
  <2>1. At("query") /\ records' = records /\ NodeKept /\ v \in Answers(Held.tx)
    BY <1>18 DEF QuerySubmitted, NodeKept
  <2>2. CASE v = "NotFound"
    BY <1>4, <1>5, <1>18, <2>1, <2>2 DEF QuerySubmitted, AfterFailedSubmit
  <2>3. CASE v # "NotFound"
    <3>1. lock' = [lock EXCEPT !.step = "update", !.seen = v]
      BY <1>18, <2>3 DEF QuerySubmitted, AfterFailedSubmit
    <3> QED BY <1>4, <1>7, <2>1, <2>3, <3>1
  <2> QED BY <2>2, <2>3
<1>19. ASSUME At("recover"), records' = records, Rebroadcast PROVE LockTyped' /\ LockInv'
  <2>1. lock \in Holder /\ Present(lock.req) /\ lock # Free
    BY <1>4, <1>19, HeldRow DEF At
  <2>2. CASE Held.intact
    <3>1. Goto("send")
      BY <1>19, <2>2 DEF Rebroadcast
    <3> QED BY <1>4, <1>8, <1>19, <3>1
  <2>3. CASE ~Held.intact
    <3>1. Goto("invalid") /\ "invalid" \in Steps
      BY <1>4, <1>19, <2>3 DEF Rebroadcast
    <3>2. PICK v \in {"Pending"} \cup Receipts :
             lock' = [lock EXCEPT !.step = "invalid", !.seen = v]
      BY <2>1, <3>1, GotoKeeps
    <3>3. records'[lock.req] # None /\ ~records'[lock.req].intact
      BY <1>19, <2>1, <2>3 DEF Present, Held
    <3>4. "invalid" \notin {"requery", "prepare", "update", "remove"}
      OBVIOUS
    <3> QED BY <1>1, <1>3, <2>1, <3>1, <3>2, <3>3, <3>4, Moved
  <2> QED BY <2>2, <2>3
<1>20. ASSUME NEW v \in TxStates, Recover(v) PROVE LockTyped' /\ LockInv'
  <2>1. At("recover") /\ records' = records /\ NodeKept /\ v \in Answers(Held.tx)
    BY <1>20 DEF Recover, NodeKept
  <2>2. CASE v = "NotFound"
    BY <1>19, <1>20, <2>1, <2>2 DEF Recover
  <2>3. CASE v # "NotFound"
    <3>1. lock' = [lock EXCEPT !.step = "update", !.seen = v]
      BY <1>20, <2>3 DEF Recover
    <3> QED BY <1>4, <1>7, <2>1, <2>3, <3>1
  <2> QED BY <2>2, <2>3
<1>21. CASE RecoverUnanswered
  BY <1>19, <1>21 DEF RecoverUnanswered
<1>22. CASE Remove
  <2>1. /\ At("remove") /\ Goto("prepare") /\ lock.mode = "RequestReplay"
        /\ records' = [records EXCEPT ![lock.req] = None]
    BY <1>1, <1>22 DEF Remove, LockInv
  <2>2. lock \in Holder /\ lock.req \in Requests /\ lock # Free
    BY <1>4, <2>1, HeldRow DEF At
  <2>3. PICK v \in {"Pending"} \cup Receipts :
           lock' = [lock EXCEPT !.step = "prepare", !.seen = v]
    BY <1>4, <2>1, <2>2, GotoKeeps
  <2>4. records'[lock.req] = None
    BY <1>1, <2>1, <2>2 DEF TypeOK
  <2>5. "prepare" \in Steps /\ "prepare" \notin RowSteps
        /\ "prepare" \notin {"requery", "invalid", "quarantine", "remove", "update"}
    BY <1>4
  <2> QED BY <1>1, <1>3, <2>1, <2>2, <2>3, <2>4, <2>5, Moved
<1>23. ASSUME NEW v \in TxStates, Invalid(v) PROVE LockTyped' /\ LockInv'
  <2>1. At("invalid") /\ NodeKept /\ records' = records /\ v \in Answers(Held.tx)
    BY <1>23 DEF Invalid, NodeKept
  <2>2. CASE v # "NotFound"
    <3>1. lock' = [lock EXCEPT !.step = "update", !.seen = v]
      BY <1>23, <2>2 DEF Invalid
    <3> QED BY <1>4, <1>7, <2>1, <2>2, <3>1
  <2>3. CASE v = "NotFound"
    <3>1. Goto("quarantine") /\ "quarantine" \in Steps
      BY <1>4, <1>23, <2>3 DEF Invalid
    <3>2. lock \in Holder /\ Present(lock.req) /\ lock # Free /\ ~Held.intact
      BY <1>1, <1>4, <2>1, HeldRow DEF At, LockInv
    <3>3. PICK w \in {"Pending"} \cup Receipts :
             lock' = [lock EXCEPT !.step = "quarantine", !.seen = w]
      BY <3>1, <3>2, GotoKeeps
    <3>4. records'[lock.req] # None /\ ~records'[lock.req].intact
      BY <2>1, <3>2 DEF Present, Held
    <3>5. "quarantine" \notin {"requery", "prepare", "update", "remove"}
      OBVIOUS
    <3> QED BY <1>1, <1>3, <3>1, <3>2, <3>3, <3>4, <3>5, Moved
  <2> QED BY <2>2, <2>3
<1>28. ASSUME NEW z \in RowSteps, At(z), lock.mode = "RequestReplay", Goto("remove"),
              records'[lock.req] # None, records'[lock.req].state = "Failed"
       PROVE  LockTyped' /\ LockInv'
  <2>1. lock \in Holder /\ lock # Free
    BY <1>28, HeldRow DEF At
  <2>2. PICK v \in {"Pending"} \cup Receipts : lock' = [lock EXCEPT !.step = "remove", !.seen = v]
    BY <1>4, <1>28, <2>1, GotoKeeps
  <2>3. "remove" \in Steps /\ "remove" \notin {"requery", "prepare", "invalid", "quarantine", "update"}
    BY <1>4
  <2> QED BY <1>1, <1>3, <1>28, <2>1, <2>2, <2>3, Moved
<1>29. CASE Quarantine
  <2>1. At("quarantine") /\ UpdateInflight(lock.req, "Failed")
        /\ (Finish \/ (lock.mode = "RequestReplay" /\ Inflight(lock.req) /\ Goto("remove")))
    BY <1>29 DEF Quarantine
  <2>2. lock.req \in Requests /\ Present(lock.req)
    BY <1>4, <2>1, HeldRow
  <2>3. CASE Finish
    BY <1>4, <1>5, <2>1, <2>3
  <2>4. CASE lock.mode = "RequestReplay" /\ Inflight(lock.req) /\ Goto("remove")
    <3>1. records' = [records EXCEPT ![lock.req].state = "Failed"]
      BY <2>1, <2>4 DEF UpdateInflight
    <3>2. records[lock.req] \in Record /\ records \in [Requests -> Record \cup {None}]
      BY <1>1, <2>2 DEF TypeOK, Present
    <3>3. records'[lock.req] # None /\ records'[lock.req].state = "Failed"
      BY <2>2, <3>1, <3>2 DEF Record, None
    <3> QED BY <1>4, <1>28, <2>1, <2>4, <3>3
  <2> QED BY <2>1, <2>3, <2>4
<1>24. ASSUME NEW v \in TxStates, Requery(v) PROVE LockTyped' /\ LockInv'
  <2>1. At("requery") /\ lock.mode = "RequestReplay" /\ lock \in Holder /\ lock # Free
        /\ lock.req \in Requests /\ Held.state = "Failed" /\ Present(lock.req)
    BY <1>1, <1>4, <1>24, HeldRow DEF Requery, LockInv, At
  <2>2. CASE v = "NotFound"
    <3>1. Goto("remove") /\ records' = records
      BY <1>24, <2>2 DEF Requery
    <3>2. records'[lock.req] # None /\ records'[lock.req].state = "Failed"
      BY <2>1, <3>1 DEF Held, Present
    <3> QED BY <1>4, <1>28, <2>1, <3>1, <3>2
  <2>3. CASE v \notin {"NotFound", "Pending"}
    BY <1>4, <1>5, <1>24, <2>1, <2>3 DEF Requery
  <2>4. CASE v = "Pending"
    <3>1. Goto("recover") /\ records' = [records EXCEPT ![lock.req].state = "Pending"]
      BY <1>24, <2>4 DEF Requery, ResolveFailed
    <3>2. records'[lock.req] # None
      <4>1. records[lock.req] \in Record /\ records \in [Requests -> Record \cup {None}]
        BY <1>1, <1>4, <2>1, HeldRow DEF Held, TypeOK
      <4> QED BY <2>1, <3>1, <4>1 DEF Record, None
    <3>3. PICK w \in {"Pending"} \cup Receipts :
             lock' = [lock EXCEPT !.step = "recover", !.seen = w]
      BY <1>4, <2>1, <3>1, GotoKeeps
    <3>4. "recover" \in Steps
          /\ "recover" \notin {"requery", "prepare", "invalid", "quarantine", "remove", "update"}
      BY <1>4
    <3> QED BY <1>1, <1>3, <2>1, <3>2, <3>3, <3>4, Moved
  <2> QED BY <2>2, <2>3, <2>4
<1>25. CASE Restart
  <2>1. lock' = Recovery({r \in Requests : Inflight(r)}) /\ records' = records
    BY <1>25 DEF Restart
  <2>2. lock'.mode = "Startup" /\ lock'.todo = {r \in Requests : Inflight(r)} /\ lock'.step = "next"
    BY <2>1 DEF Recovery
  <2>3. \A r \in lock'.todo : Present(r)'
    BY <2>1, <2>2 DEF Inflight, Present, None, InflightStates
  <2>4. \A z \in Steps : ~At(z)'
    BY <1>4, <2>2 DEF At
  <2>5. LockTyped'
    BY <2>1
  <2> QED BY <1>4, <2>2, <2>3, <2>4, <2>5 DEF LockInv
<1>26. CASE RecoverNext
  <2>1. PICK R \in SUBSET Requests : lock = Recovery(R)
    BY <1>1, <1>26, HolderShape DEF RecoverNext
  <2>2. lock.todo = R /\ lock # Free /\ records' = records
    BY <1>26, <2>1 DEF Recovery, RecoverNext, At
  <2>3. CASE R = {}
    <3>1. lock' = Free
      BY <1>26, <2>2, <2>3 DEF RecoverNext
    <3> QED BY <3>1 DEF LockInv, At
  <2>4. CASE R # {}
    <3>1. PICK r \in R : lock' = [mode |-> "Startup", todo |-> R \ {r}, req |-> r,
                                  payload |-> records[r].tx.payload, step |-> "recover",
                                  seen |-> "Pending"]
      BY <1>26, <2>2, <2>4 DEF RecoverNext
    <3> DEFINE l == [mode |-> "Startup", todo |-> R \ {r}, req |-> r,
                     payload |-> records[r].tx.payload, step |-> "recover", seen |-> "Pending"]
    <3>2. \A q \in R : Present(q)
      BY <1>1, <2>2 DEF LockInv
    <3>3. records[r] \in Record
      BY <1>1, <3>2 DEF TypeOK, Present
    <3>4. records[r].tx.payload \in Payloads
      BY <3>3 DEF Record, Tx
    <3>5. l \in Holder
      BY <1>4, <3>4 DEF Holder
    <3>6. l.step = "recover" /\ l.req = r /\ l.todo = R \ {r} /\ l.mode # "RequestReplay" /\ lock' = l
      BY <3>1
    <3> HIDE DEF l
    <3> QED BY <2>2, <3>2, <3>5, <3>6, Entered
  <2> QED BY <2>3, <2>4
<1>27. CASE Cancel
  <2>1. lock' = Free
    BY <1>27 DEF Cancel
  <2> QED BY <2>1 DEF LockInv, At
<1> QED
  BY <1>9, <1>10, <1>11, <1>12, <1>13, <1>14, <1>15, <1>16, <1>17, <1>18, <1>20, <1>21, <1>22,
     <1>23, <1>24, <1>25, <1>26, <1>27, <1>29 DEF Next, Step, Faults

(***************************************************************************)
(* Theorems                                                                *)
(***************************************************************************)
LEMMA InitHolds ==
    ASSUME Init
    PROVE  WInv
<1>1. TypeOK
  <2>1. {} \subseteq Nat /\ Cardinality({}) <= 1
    BY FS_EmptySet
  <2>2. world \in Worlds /\ faults \in 0..MaxFaults
        /\ signed \in [Requests -> 0..(MaxFaults + 1)]
    BY ConstantsAssumption DEF Init
  <2>3. mined \in Seq([tx: Tx, status: Receipts])
    <3> DEFINE B == [tx: Tx, status: Receipts]
    <3>1. mined = <<>>
      BY DEF Init
    <3> HIDE DEF B
    <3>2. mined \in Seq(B)
      BY <3>1
    <3> QED BY <3>2 DEF B
  <2> QED BY <2>1, <2>2, <2>3 DEF Init, TypeOK
<1>2. \A r \in Requests : ~Present(r) /\ records[r].state = "None"
  BY DEF Init, Present, None
<1>3. DOMAIN mined = {} /\ OnChain = {}
  BY DEF Init, OnChain
<1>4. RowInv /\ CountInv /\ CachedInv /\ NonceInv /\ CacheOne /\ CacheAbove /\ NonceUnique
  BY <1>2, <1>3 DEF Init, RowInv, CountInv, CachedInv, NonceInv, CacheOne, CacheAbove, NonceUnique,
     Present
<1>5. PoolFinite
  <2>1. PoolNonces = {}
    BY DEF Init, PoolNonces
  <2> QED BY <2>1, FS_EmptySet DEF PoolFinite
<1>6. LockInv
  BY DEF Init, LockInv, At
<1>7. RecordTruth
  <2>1. "None" \notin Receipts
    BY DEF Receipts
  <2> QED BY <1>2, <2>1 DEF RecordTruth
<1>8. BroadcastIsRecorded /\ AckedIsAlive
  BY <1>3 DEF Init, BroadcastIsRecorded, AckedIsAlive
<1> QED BY <1>1, <1>4, <1>5, <1>6, <1>7, <1>8 DEF WInv

LEMMA NextHolds ==
    ASSUME WInv, [Next]_vars
    PROVE  WInv'
<1>1. CASE Next
  <2>1. TypeOK'
    <3>1. world' \in Worlds /\ faults' \in 0..MaxFaults
      BY <1>1, FaultsGrow DEF WInv, TypeOK
    <3>2. records' \in [Requests -> Record \cup {None}]
      <4>1. CASE Requests = {}
        <5>1. ~Prepare /\ ~(\E r \in Requests : RowChanged(r))
          BY <4>1, Prepared
        <5> QED BY <1>1, <5>1, RowsFollow DEF RowEffect, RowsKept, WInv, TypeOK
      <4> QED BY <1>1, <4>1, RowAfter
    <3>3. nextNonce' \subseteq Nat /\ Cardinality(nextNonce') <= 1
      BY <1>1, CacheStep
    <3>4. lock' \in Holder \cup {Recovery(R) : R \in SUBSET Requests} \cup {Free}
      BY <1>1, LockStep DEF LockTyped
    <3>5. pool' \subseteq Tx /\ wire' \subseteq Tx /\ acked' \subseteq Tx
      BY <1>1, NodeTypes, AckedStep
    <3>8. orphans' \subseteq Tx /\ cached' \subseteq CachedLookup
      BY <1>1, OrphansGrow, CachedStep
    <3>6. mined' \in Seq([tx: Tx, status: Receipts])
      BY <1>1, ChainGrows
    <3>7. signed' \in [Requests -> 0..(MaxFaults + 1)]
      BY <1>1, RowStep
    <3> QED BY <3>1, <3>2, <3>3, <3>4, <3>5, <3>6, <3>7, <3>8 DEF TypeOK
  <2> QED
    BY <1>1, <2>1, RowStep, CachedStep, NonceStep, FiniteStep, CacheStep, LockStep, TruthStep,
       RecordedStep, AckedStep DEF WInv
<1>2. CASE UNCHANGED vars
  <2> USE <1>2 DEF vars, WInv
  <2>1. TypeOK' /\ CacheOne' /\ NonceInv'
    BY DEF TypeOK, CacheOne, NonceInv
  <2>7. CachedInv'
    BY DEF CachedInv, OnChain, Mild
  <2>2. PoolFinite'
    BY DEF PoolFinite, PoolNonces
  <2>3. RowInv' /\ CountInv'
    BY DEF RowInv, CountInv, Present
  <2>4. RecordTruth' /\ BroadcastIsRecorded' /\ AckedIsAlive'
    BY DEF RecordTruth, BroadcastIsRecorded, AckedIsAlive, OnChain, Mild
  <2>5. CacheAbove' /\ NonceUnique'
    BY DEF CacheAbove, NonceUnique, Present, Mild
  <2>6. LockInv'
    BY DEF LockInv, Present, Witnessed, At, Held, OnChain, Mild
  <2> QED BY <2>1, <2>2, <2>3, <2>4, <2>5, <2>6, <2>7
<1> QED BY <1>1, <1>2

\* WInv holds in every reachable state of the write path.
THEOREM WriteInvariance == Spec => []WInv
<1>1. Init => WInv
  BY InitHolds
<1>2. WInv /\ [Next]_vars => WInv'
  BY NextHolds
<1> QED BY <1>1, <1>2, PTL DEF Spec

\* The chain never holds two transactions of one request that are no orphans: both
\* are the one its row stores, so they have one nonce, and the chain takes a nonce
\* once.
LEMMA OnceOnly ==
    ASSUME WInv
    PROVE  AtMostOnce
<1> SUFFICES ASSUME NEW i \in DOMAIN mined, NEW j \in DOMAIN mined,
                    mined[i].tx.req = mined[j].tx.req,
                    mined[i].tx \notin orphans, mined[j].tx \notin orphans
             PROVE  i = j
  BY DEF AtMostOnce
<1>1. mined[i].tx = records[mined[i].tx.req].tx /\ mined[j].tx = records[mined[j].tx.req].tx
  BY DEF WInv, BroadcastIsRecorded, OnChain
<1>2. mined[i].tx.nonce = i - 1 /\ mined[j].tx.nonce = j - 1
  BY DEF WInv, NonceInv
<1>3. i \in Nat /\ j \in Nat
  <2>1. i \in 1..Len(mined) /\ j \in 1..Len(mined) /\ Len(mined) \in Nat
    BY MinedType DEF WInv, TypeOK
  <2> QED BY <2>1
<1>4. mined[i].tx = mined[j].tx
  BY <1>1
<1>5. i - 1 = j - 1
  BY <1>2, <1>4
<1> QED BY <1>3, <1>5

\* For any requests, payloads and faults, lookups from the BNS server's cache and
\* bytes that arrive late included: rows tell the truth; a request is executed at
\* most once and what the node has is stored, unless a row that does not decode was
\* removed although its transaction was alive; and while the process stays up no Ok
\* is lost and no two rows share a nonce (run_idempotent, persist_and_submit,
\* recover_prepared_tx, reconcile_invalid_record).
THEOREM WritesAlwaysSafe == Spec => []WritesSafe
<1>1. WInv => WritesSafe
  BY OnceOnly DEF WInv, WritesSafe
<1> QED BY <1>1, WriteInvariance, PTL

\* No step writes over a receipt: neither a replay, nor the recovery, nor a receipt
\* waiter that runs without the lock (update_inflight, resolve_recovery_failed).
THEOREM ReceiptsAreFinal == Spec => FinalIsFinal
<1>1. WInv /\ [Next]_vars =>
        [\A r \in Requests : records[r].state \in Receipts => records'[r] = records[r]]_vars
  BY FinalStep
<1> QED BY <1>1, WriteInvariance, PTL DEF Spec, FinalIsFinal

=============================================================================

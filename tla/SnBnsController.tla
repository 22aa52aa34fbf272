--------------------------- MODULE SnBnsController ---------------------------
(***************************************************************************)
(* The write path of the SN's BNS controller: run_idempotent and the       *)
(* recovery functions of bns-client/src/sn_bns_controller.rs, its sqlite   *)
(* store (sn_bns_store.rs) and the prepare / submit / recover operations   *)
(* of the EVM client (evm.rs), for one signing key.                        *)
(*                                                                         *)
(* A write request is signed once and its raw transaction is stored before *)
(* it is broadcast; whatever fails afterwards, a replay of the same        *)
(* request_id or the recovery at start-up asks for the stored hash and     *)
(* sends the stored bytes again.  The store's execution lock makes         *)
(* requests take turns, but the chain, messages already sent,              *)
(* wait_for_evm_receipt and crashes do not wait for it; and lookups go     *)
(* through the BNS server, which answers them from a cache for a while     *)
(* (transaction_lookup of bns-evm/src/chain_client.rs).                    *)
(***************************************************************************)
EXTENDS Integers, FiniteSets, Sequences

CONSTANTS Requests,   \* request ids
          Payloads,   \* payload hashes
          MaxFaults,  \* bound: faults in a behaviour of any world
          Worlds      \* which kinds of fault may happen together, how many faults, and
                      \* which requests are made

Kinds == {"crash",    \* the SN process restarts
          "store",    \* try_begin fails
          "transport",\* a request to the node fails before it is accepted
          "reply",    \* the node accepts a transaction, its reply is lost
          "late",     \* a request that failed here reaches the node later
          "cancel",   \* the caller of a request goes away: its future is dropped
          "forget",   \* the node drops a transaction from its pool
          "damage"}   \* a stored raw transaction no longer decodes

ASSUME ConstantsAssumption ==
    /\ MaxFaults \in Nat
    /\ Worlds \subseteq [kinds: SUBSET Kinds, limit: 0..MaxFaults, requests: SUBSET Requests]

VARIABLES world,      \* the faults and the requests of this behaviour
          records,    \* sn_bns_write_requests, by request id
          nextNonce,  \* BnsEvmControllerClient.next_nonces of the signer: at most one value
          lock,       \* holder of execution_lock, with the state of its future
          pool,       \* the node's transaction pool
          wire,       \* transactions on their way to the node after a failed request
          mined,      \* the chain: the signer's transactions with their receipt status
          cached,     \* ChainClient.transaction_cache of the BNS server, receipts left out
          signed,     \* transactions signed so far, by request
          acked,      \* transactions some caller was answered Ok for
          orphans,    \* transactions whose row was removed although they were alive
          faults      \* faults so far

vars == <<world, records, nextNonce, lock, pool, wire, mined, cached, signed, acked,
          orphans, faults>>

Tx == [req: Requests, payload: Payloads, nonce: Nat, serial: 1..(MaxFaults + 1)]

None == [state |-> "None"]
Free == [mode |-> "Free"]

Receipts == {"Succeeded", "Reverted"}
InflightStates == {"Sending", "Pending"}

Record == [state: InflightStates \cup Receipts \cup {"Failed"}, tx: Tx, intact: BOOLEAN]

Steps == {"prepare", "recover", "invalid", "quarantine", "remove", "requery", "send",
          "query", "update"}

Holder == [mode: {"Startup", "RequestReplay"}, todo: SUBSET Requests, req: Requests,
           payload: Payloads, step: Steps, seen: {"Pending"} \cup Receipts]

\* recover_inflight_requests between two records.
Recovery(rest) == [mode |-> "Startup", todo |-> rest, step |-> "next"]

Inflight(r) == records[r].state \in InflightStates

(***************************************************************************)
(* The node, as the code sees it: eth_getTransactionCount(pending), the    *)
(* transaction lookup and eth_sendRawTransaction.                          *)
(***************************************************************************)
ChainNonce == Len(mined)

PoolNonces == {t.nonce : t \in pool}

\* prepare_tx suggests the pending count: the first nonce the node misses.
Suggested ==
    CHOOSE n \in ChainNonce..(ChainNonce + Cardinality(PoolNonces)) :
        /\ n \notin PoolNonces
        /\ \A k \in ChainNonce..(n - 1) : k \in PoolNonces

MinedStatus(t) == {mined[i].status : i \in {j \in DOMAIN mined : mined[j].tx = t}}

\* What the node answers about a hash: a receipt, a pool entry, or nothing.
ChainState(t) ==
    IF MinedStatus(t) # {} THEN CHOOSE s \in MinedStatus(t) : TRUE
    ELSE IF t \in pool THEN "Pending" ELSE "NotFound"

TxStates == {"NotFound", "Pending"} \cup Receipts

CachedLookup == [tx: Tx, state: {"NotFound", "Pending"}]

\* query_tx_state of the BNS server: what the node says, or what it said the last
\* time.  A cached answer lasts 5 s (NotFound) or 2 s (Pending) and is not dropped
\* by submit_raw_tx; a lookup either meets it or finds it expired.  A cached receipt
\* is what the node says.
Answers(t) == {ChainState(t)} \cup {c.state : c \in {d \in cached : d.tx = t}}

Remember(t, s) ==
    cached' = {c \in cached : c.tx # t}
              \cup {c \in {[tx |-> t, state |-> s]} : s \notin Receipts}

\* A lookup that fails on the way there, or on the way back.
LookupLost(t) == UNCHANGED cached \/ Remember(t, ChainState(t))

\* The node takes a transaction with a fresh nonce; it refuses "nonce too low",
\* "already known" and a second transaction of the same nonce and price.
Acceptable(t) == t.nonce >= ChainNonce /\ t.nonce \notin PoolNonces

Fault(kind) ==
    /\ kind \in world.kinds
    /\ faults < world.limit
    /\ faults' = faults + 1

Init ==
    /\ world \in Worlds
    /\ records = [r \in Requests |-> None]
    /\ nextNonce = {}
    /\ lock = Free
    /\ pool = {}
    /\ wire = {}
    /\ mined = <<>>
    /\ cached = {}
    /\ signed = [r \in Requests |-> 0]
    /\ acked = {}
    /\ orphans = {}
    /\ faults = 0

(***************************************************************************)
(* run_idempotent takes the lock and looks the request up.  A payload that *)
(* differs from the stored one is refused with nothing changed.           *)
(***************************************************************************)
\* Mutant: a request that is still Sending is executed anew.
FirstStepMutant(r) ==
    CASE records[r].state \in {"None", "Sending"} -> "prepare"
      [] records[r].state = "Failed"  -> "requery"
      [] records[r].state = "Pending" -> "recover"

FirstStep(r) ==
    CASE records[r].state = "None"         -> "prepare"
      [] records[r].state = "Failed"       -> "requery"
      [] records[r].state \in InflightStates -> "recover"

Call(r, p) ==
    /\ lock = Free
    /\ r \in world.requests
    /\ records[r] # None => records[r].tx.payload = p
    /\ records[r].state \notin Receipts
    /\ lock' = [mode |-> "RequestReplay", todo |-> {}, req |-> r, payload |-> p,
                step |-> FirstStep(r), seen |-> "Pending"]
    /\ UNCHANGED <<world, records, nextNonce, pool, wire, mined, cached, signed, acked,
                   orphans, faults>>

\* A replay of a finished request is answered from the store.
ReplayFinished(r) ==
    /\ lock = Free
    /\ records[r].state \in Receipts
    /\ acked' = IF records[r].state = "Succeeded" THEN acked \cup {records[r].tx} ELSE acked
    /\ UNCHANGED <<world, records, nextNonce, lock, pool, wire, mined, cached, signed,
                   orphans, faults>>

At(step) == lock # Free /\ lock.step = step

Held == records[lock.req]

Goto(step) == lock' = [lock EXCEPT !.step = step]

\* The future ends: a request gives the lock back, the recovery takes its next record.
Finish ==
    lock' = IF lock.mode = "Startup" THEN Recovery(lock.todo) ELSE Free

\* reserve_nonce: the cached nonce, or the node's if that is higher.
ReserveNonce ==
    IF \E n \in nextNonce : n > Suggested THEN CHOOSE n \in nextNonce : TRUE ELSE Suggested

NewTx ==
    [req |-> lock.req, payload |-> lock.payload, nonce |-> ReserveNonce,
     serial |-> signed[lock.req] + 1]

(***************************************************************************)
(* prepare_with_request and the first half of persist_and_submit.  After   *)
(* prepare_tx has answered, the nonce is reserved, the transaction signed  *)
(* and the Sending row inserted without a suspension point.                *)
(***************************************************************************)
Persist(t) ==
    records' = [records EXCEPT ![t.req] = [state |-> "Sending", tx |-> t, intact |-> TRUE]]

\* next_nonces holds one entry per signer.
CacheNonce(n) == nextNonce' = {n}

Prepare ==
    /\ At("prepare")
    /\ Persist(NewTx)
    /\ CacheNonce(ReserveNonce + 1)
    /\ signed' = [signed EXCEPT ![lock.req] = @ + 1]
    /\ Goto("send")
    /\ UNCHANGED <<world, pool, wire, mined, cached, acked, orphans, faults>>

\* try_begin fails: abandon_prepared_tx forgets the cached nonce.
PrepareFails ==
    /\ At("prepare")
    /\ Fault("store")
    /\ nextNonce' = {}
    /\ Finish
    /\ UNCHANGED <<world, records, pool, wire, mined, cached, signed, acked, orphans>>

\* prepare_tx itself fails: nothing was reserved.
PrepareUnanswered ==
    /\ At("prepare")
    /\ Fault("transport")
    /\ Finish
    /\ UNCHANGED <<world, records, nextNonce, pool, wire, mined, cached, signed, acked,
                   orphans>>

(***************************************************************************)
(* submit_prepared_tx: one eth_sendRawTransaction, and when it fails one   *)
(* lookup of the hash.                                                     *)
(***************************************************************************)
\* submission_state of a submission without a receipt.
SubmissionState == "Pending"

SendAccepted ==
    /\ At("send")
    /\ Acceptable(Held.tx)
    /\ pool' = pool \cup {Held.tx}
    /\ lock' = [lock EXCEPT !.step = "update", !.seen = SubmissionState]
    /\ UNCHANGED <<world, records, nextNonce, wire, mined, cached, signed, acked,
                   orphans, faults>>

SendReplyLost ==
    /\ At("send")
    /\ Acceptable(Held.tx)
    /\ Fault("reply")
    /\ pool' = pool \cup {Held.tx}
    /\ Goto("query")
    /\ UNCHANGED <<world, records, nextNonce, wire, mined, cached, signed, acked,
                   orphans>>

SendRefused ==
    /\ At("send")
    /\ ~Acceptable(Held.tx)
    /\ Goto("query")
    /\ UNCHANGED <<world, records, nextNonce, pool, wire, mined, cached, signed, acked,
                   orphans, faults>>

SendFails ==
    /\ At("send")
    /\ \/ Fault("transport") /\ UNCHANGED wire
       \/ Fault("late") /\ wire' = wire \cup {Held.tx}
    /\ Goto("query")
    /\ UNCHANGED <<world, records, nextNonce, pool, mined, cached, signed, acked,
                   orphans>>

\* After a failed submission only a state the chain reports counts; a transaction
\* that is not found ends the request with the submission's error and leaves the
\* row Sending.
AfterFailedSubmit(state) ==
    IF state = "NotFound" THEN Finish
    ELSE lock' = [lock EXCEPT !.step = "update", !.seen = state]

QuerySubmitted(s) ==
    /\ At("query")
    /\ s \in Answers(Held.tx)
    /\ Remember(Held.tx, s)
    /\ AfterFailedSubmit(s)
    /\ UNCHANGED <<world, records, nextNonce, pool, wire, mined, signed, acked,
                   orphans, faults>>

QuerySubmittedFails ==
    /\ At("query")
    /\ Fault("transport")
    /\ LookupLost(Held.tx)
    /\ Finish
    /\ UNCHANGED <<world, records, nextNonce, pool, wire, mined, signed, acked, orphans>>

(***************************************************************************)
(* recover_prepared_tx for a Sending or Pending row: look the hash up and  *)
(* send the stored bytes when the node does not know it, or cannot be      *)
(* asked.  Bytes that do not decode lead to reconcile_invalid_record.      *)
(***************************************************************************)
\* Mutant: a transaction the node does not know is left alone.
RebroadcastMutant == Finish

Rebroadcast == Goto(IF Held.intact THEN "send" ELSE "invalid")

Recover(s) ==
    /\ At("recover")
    /\ s \in Answers(Held.tx)
    /\ Remember(Held.tx, s)
    /\ IF s = "NotFound" THEN Rebroadcast
       ELSE lock' = [lock EXCEPT !.step = "update", !.seen = s]
    /\ UNCHANGED <<world, records, nextNonce, pool, wire, mined, signed, acked,
                   orphans, faults>>

RecoverUnanswered ==
    /\ At("recover")
    /\ Fault("transport")
    /\ LookupLost(Held.tx)
    /\ Rebroadcast
    /\ UNCHANGED <<world, records, nextNonce, pool, wire, mined, signed, acked, orphans>>

\* reconcile_invalid_record: a hash the chain knows decides.
Invalid(s) ==
    /\ At("invalid")
    /\ s \in Answers(Held.tx)
    /\ Remember(Held.tx, s)
    /\ IF s = "NotFound" THEN Goto("quarantine")
       ELSE lock' = [lock EXCEPT !.step = "update", !.seen = s]
    /\ UNCHANGED <<world, records, nextNonce, pool, wire, mined, signed, acked,
                   orphans, faults>>

\* update_inflight: compare-and-set from Sending or Pending.
\* Mutant: the update is not conditional on the row's state.
UpdateInflightMutant(r, state) == records' = [records EXCEPT ![r].state = state]

UpdateInflight(r, state) ==
    records' = IF Inflight(r) THEN [records EXCEPT ![r].state = state] ELSE records

\* A row whose hash the chain does not know is quarantined as Failed.  At start-up
\* it stays so; a request goes on to remove it.  A receipt waiter may have been
\* faster: then the request ends with an error.
Quarantine ==
    /\ At("quarantine")
    /\ UpdateInflight(lock.req, "Failed")
    /\ IF lock.mode = "RequestReplay" /\ Inflight(lock.req) THEN Goto("remove") ELSE Finish
    /\ UNCHANGED <<world, nextNonce, pool, wire, mined, cached, signed, acked, orphans,
                   faults>>

OnChain == {mined[i].tx : i \in DOMAIN mined}

\* remove_recovery_failed: the request is executed anew.  The removed transaction
\* is an orphan when the node has it after all, or is still to receive it.
Remove ==
    /\ At("remove")
    /\ records' = [records EXCEPT ![lock.req] = None]
    /\ orphans' = orphans \cup ({Held.tx} \cap (pool \cup wire \cup OnChain))
    /\ Goto("prepare")
    /\ UNCHANGED <<world, nextNonce, pool, wire, mined, cached, signed, acked, faults>>

\* resolve_recovery_failed.
ResolveFailed(state) == records' = [records EXCEPT ![lock.req].state = state]

\* retry_recovery_failed_record: a quarantined row is looked up once more.
Requery(s) ==
    /\ At("requery")
    /\ s \in Answers(Held.tx)
    /\ Remember(Held.tx, s)
    /\ IF s = "NotFound"
         THEN Goto("remove") /\ UNCHANGED records
         ELSE /\ ResolveFailed(s)
              /\ IF s = "Pending" THEN Goto("recover") ELSE Finish
    /\ acked' = IF s = "Succeeded" THEN acked \cup {Held.tx} ELSE acked
    /\ UNCHANGED <<world, nextNonce, pool, wire, mined, signed, orphans, faults>>

LookupFails ==
    /\ At("invalid") \/ At("requery")
    /\ Fault("transport")
    /\ LookupLost(Held.tx)
    /\ Finish
    /\ UNCHANGED <<world, records, nextNonce, pool, wire, mined, signed, acked, orphans>>

(***************************************************************************)
(* transition_from_chain_state.  When the update loses, the caller is      *)
(* answered Ok only if the row is where it wanted it.                      *)
(***************************************************************************)
Update ==
    /\ At("update")
    /\ UpdateInflight(lock.req, lock.seen)
    /\ acked' = IF /\ lock.mode = "RequestReplay"
                   /\ records'[lock.req].state = lock.seen
                   /\ lock.seen # "Reverted"
                THEN acked \cup {Held.tx} ELSE acked
    /\ Finish
    /\ UNCHANGED <<world, nextNonce, pool, wire, mined, cached, signed, orphans, faults>>

\* wait_for_evm_receipt of a hash its caller was given, which does not take the lock:
\* the hash is looked up again and again, and once it has a receipt the in-flight row
\* that carries it is updated.
WaitForReceipt(r, s) ==
    /\ Inflight(r)
    /\ records[r].tx \in acked
    /\ s \in Answers(records[r].tx)
    /\ Remember(records[r].tx, s)
    /\ IF s \in Receipts THEN UpdateInflight(r, s) ELSE UNCHANGED records
    /\ UNCHANGED <<world, nextNonce, lock, pool, wire, mined, signed, acked, orphans,
                   faults>>

(***************************************************************************)
(* Start-up: the process comes back without its nonce cache and runs       *)
(* recover_inflight_requests, one record after the other, before it serves *)
(* requests.  A record that fails is left as it is.                        *)
(***************************************************************************)
\* A request cut off while sending may have put its bytes on the wire.
CutOff ==
    IF At("send") /\ "late" \in world.kinds
      THEN wire' \in {wire, wire \cup {Held.tx}} ELSE wire' = wire

Restart ==
    /\ Fault("crash")
    /\ nextNonce' = {}
    /\ CutOff
    /\ lock' = Recovery({r \in Requests : Inflight(r)})
    /\ UNCHANGED <<world, records, pool, mined, cached, signed, acked, orphans>>

RecoverNext ==
    /\ At("next")
    /\ IF lock.todo = {} THEN lock' = Free
       ELSE \E r \in lock.todo :
              lock' = [mode |-> "Startup", todo |-> lock.todo \ {r}, req |-> r,
                       payload |-> records[r].tx.payload, step |-> "recover",
                       seen |-> "Pending"]
    /\ UNCHANGED <<world, records, nextNonce, pool, wire, mined, cached, signed, acked,
                   orphans, faults>>

\* The caller goes away while its future is suspended: the future is dropped with
\* its guard of the lock.  It is not suspended between the answer to the lookup of a
\* damaged row and the removal of the row.
Cancel ==
    /\ lock # Free
    /\ lock.mode = "RequestReplay"
    /\ lock.step \notin {"quarantine", "remove"}
    /\ Fault("cancel")
    /\ CutOff
    /\ lock' = Free
    /\ UNCHANGED <<world, records, nextNonce, pool, mined, cached, signed, acked,
                   orphans>>

\* A row whose raw transaction no longer decodes, found the next time it is read.
Damage(r) ==
    /\ lock = Free
    /\ Inflight(r)
    /\ records[r].intact
    /\ Fault("damage")
    /\ records' = [records EXCEPT ![r].intact = FALSE]
    /\ UNCHANGED <<world, nextNonce, lock, pool, wire, mined, cached, signed, acked,
                   orphans>>

(***************************************************************************)
(* The chain.                                                              *)
(***************************************************************************)
Mine ==
    \E t \in pool, s \in Receipts :
        /\ t.nonce = ChainNonce
        /\ mined' = Append(mined, [tx |-> t, status |-> s])
        /\ pool' = pool \ {t}
        /\ UNCHANGED <<world, records, nextNonce, lock, wire, cached, signed, acked,
                       orphans, faults>>

Arrive ==
    \E t \in wire :
        /\ wire' = wire \ {t}
        /\ pool' = IF Acceptable(t) THEN pool \cup {t} ELSE pool
        /\ UNCHANGED <<world, records, nextNonce, lock, mined, cached, signed, acked,
                       orphans, faults>>

Forget ==
    \E t \in pool :
        /\ Fault("forget")
        /\ pool' = pool \ {t}
        /\ UNCHANGED <<world, records, nextNonce, lock, wire, mined, cached, signed,
                       acked, orphans>>

\* The steps of the future that holds the lock.
Step ==
    \/ Prepare \/ SendAccepted \/ SendRefused \/ Quarantine \/ Remove \/ Update \/ RecoverNext
    \/ \E s \in TxStates : QuerySubmitted(s) \/ Recover(s) \/ Invalid(s) \/ Requery(s)

Faults ==
    \/ PrepareFails \/ PrepareUnanswered \/ SendReplyLost \/ SendFails
    \/ QuerySubmittedFails \/ RecoverUnanswered \/ LookupFails
    \/ Restart \/ Cancel \/ Forget
    \/ \E r \in Requests : Damage(r)

Next ==
    \/ \E r \in Requests : (\E p \in Payloads : Call(r, p)) \/ ReplayFinished(r)
    \/ \E r \in Requests, s \in TxStates : WaitForReceipt(r, s)
    \/ Step
    \/ Faults
    \/ Mine
    \/ Arrive

Spec == Init /\ [][Next]_vars

\* The node itself is asked about the request's hash: cached answers expire.
RecoverFresh(r) == At("recover") /\ lock.req = r /\ Recover(ChainState(Held.tx))

\* A client that has no final answer replays its request, and the lock, a fair
\* queue, lets it in again and again; not every replay falls into the seconds an
\* answer is cached; futures run; the node includes what it can.
Fairness ==
    /\ \A r \in Requests : SF_vars(\E p \in Payloads : Call(r, p))
    /\ \A r \in Requests : SF_vars(RecoverFresh(r))
    /\ WF_vars(Step)
    /\ WF_vars(Mine)
    /\ WF_vars(Arrive)

FairSpec == Spec /\ Fairness

(***************************************************************************)
(* Properties                                                              *)
(***************************************************************************)

\* Every variable has its type; nextNonces holds at most one entry for the signer.
TypeOK ==
    /\ world \in Worlds
    /\ records \in [Requests -> Record \cup {None}]
    /\ nextNonce \subseteq Nat /\ Cardinality(nextNonce) <= 1
    /\ lock \in Holder \cup {Recovery(R) : R \in SUBSET Requests} \cup {Free}
    /\ pool \subseteq Tx /\ wire \subseteq Tx /\ acked \subseteq Tx /\ orphans \subseteq Tx
    /\ cached \subseteq CachedLookup
    /\ mined \in Seq([tx: Tx, status: Receipts])
    /\ signed \in [Requests -> 0..(MaxFaults + 1)]
    /\ faults \in 0..MaxFaults

\* A request is executed at most once: the chain never holds two transactions of
\* the same request_id, whatever was lost, repeated, cancelled or restarted
\* (persist-before-broadcast and byte-for-byte replay).  The condition is that no row
\* was removed whose transaction was alive, which takes a row that does not decode.
AtMostOnce ==
    \A i, j \in DOMAIN mined :
        mined[i].tx.req = mined[j].tx.req =>
            i = j \/ mined[i].tx \in orphans \/ mined[j].tx \in orphans

\* A row says Succeeded or Reverted only if its own transaction was mined with
\* that receipt, although the state is read from the chain before the row is
\* updated and a receipt waiter updates rows without the lock.
RecordTruth ==
    \A r \in Requests :
        records[r].state \in Receipts =>
            \E i \in DOMAIN mined :
                mined[i].tx = records[r].tx /\ mined[i].status = records[r].state

\* Whatever the node knows or may still receive is the transaction its request's
\* row stores: no transaction of the signer is on its way that a restart would
\* not find again.  Only damaged rows leave orphans behind.
BroadcastIsRecorded ==
    /\ \A t \in (pool \cup wire \cup OnChain) \ orphans :
          records[t.req] # None /\ records[t.req].tx = t
    /\ "damage" \notin world.kinds => orphans = {}

\* The node's RPC and callers fail; the process, the store and the node's pool last.
Mild == world.kinds \subseteq {"transport", "reply", "late", "cancel"}

\* Under mild faults a transaction a caller was answered Ok for is in the pool or on the chain: an
\* error of the submission is turned into Ok only by a lookup that found it.
AckedIsAlive == Mild => acked \subseteq pool \cup OnChain

\* Under mild faults two requests never hold transactions of the same nonce, so that none of them
\* can be shut out by the other (nonce cache of the controller client).
NonceUnique ==
    \A r, s \in Requests :
        /\ Mild /\ r # s
        /\ records[r] # None
        /\ records[s] # None
        => records[r].tx.nonce # records[s].tx.nonce

\* What holds of the rows, the node and the answers in every state.
WritesSafe ==
    /\ TypeOK
    /\ AtMostOnce
    /\ RecordTruth
    /\ BroadcastIsRecorded
    /\ AckedIsAlive
    /\ NonceUnique

\* A finished row never changes again: neither a replay, nor the recovery, nor a
\* receipt waiter that lost the race writes over a receipt.
FinalIsFinal ==
    [][\A r \in Requests : records[r].state \in Receipts => records'[r] = records[r]]_vars

\* Under mild faults a stored request converges: replayed until it has an answer, it ends with the
\* receipt of its transaction.
ReplayConverges ==
    \A r \in Requests : Mild /\ records[r].state = "Sending" ~> records[r].state \in Receipts

(***************************************************************************)
(* A statement the code does not keep                                      *)
(***************************************************************************)

\* A request is executed once, damaged rows included: a row that does not decode is
\* only removed, and its request executed anew, when its transaction is no more.  The
\* lookup says NotFound while the bytes are still on their way, and for 5 s after it
\* said so once, even if they were accepted meanwhile.
ExecutedOnce ==
    \A i, j \in DOMAIN mined : mined[i].tx.req = mined[j].tx.req => i = j

=============================================================================

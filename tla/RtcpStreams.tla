----------------------------- MODULE RtcpStreams -----------------------------
(***************************************************************************)
(* Streams over one RTCP tunnel (rtcp.rs, impl RTcpTunnel, and             *)
(* stream_helper.rs).  The dialer of the tunnel can reach the acceptor's   *)
(* listener (can_direct), so every new stream leg is a connection from the *)
(* dialer that starts with a HelloStream: the dialer asks with Open, the   *)
(* acceptor with ROpen.  The acceptor keeps a slot per expected            *)
(* HelloStream in the wait map of its stack.                               *)
(*                                                                         *)
(* Every element of Requests is one call of request_open_stream or         *)
(* ping_rtt and stands for its sequence number, which fetch_add makes      *)
(* unique; the work the peer does for it is the job of the request, and    *)
(* the leg that is built for it carries its name.  One action is what a    *)
(* future does between two awaits, so callers, jobs, the read loops, the   *)
(* two close() calls and the listener interleave at every lock.            *)
(***************************************************************************)
EXTENDS Naturals, FiniteSets, Sequences

CONSTANTS
    Requests,    \* calls that ask for a stream or for a Pong
    Opens,       \* request_open_stream of the dialer
    ROpens,      \* request_open_stream of the acceptor
    Pings,       \* ping_rtt of either end
    PingHome,    \* the end that sends a Ping
    Ids,         \* 16-byte stream ids
    MaxIds,      \* max_stream_ids_per_tunnel
    MaxBuilds,   \* max_pending_stream_builds_per_tunnel
    AgingEnds,   \* ends that may see MAX_RTCP_TUNNEL_AGE pass
    ClosingEnds, \* ends whose tunnel map may close the tunnel
    Bootstrap,   \* the tunnel and its legs run over a bootstrap URL
    CallersDrop, \* may a caller drop the future of its request?
    None         \* the absent value

ASSUME RequestAssumption ==
    /\ Requests = Opens \cup ROpens \cup Pings
    /\ Opens \cap ROpens = {}
    /\ (Opens \cup ROpens) \cap Pings = {}
    /\ PingHome \in [Pings -> {"dialer", "acceptor"}]

ASSUME BoundAssumption ==
    /\ MaxIds \in Nat
    /\ MaxBuilds \in Nat
    /\ IsFiniteSet(Ids)
    /\ IsFiniteSet(Requests)

ASSUME FlagAssumption ==
    /\ AgingEnds \subseteq {"dialer", "acceptor"}
    /\ ClosingEnds \subseteq {"dialer", "acceptor"}
    /\ Bootstrap \in BOOLEAN
    /\ CallersDrop \in BOOLEAN

ASSUME AbsentAssumption ==
    /\ None \notin Requests
    /\ None \notin Ids
    /\ "waiting" \notin Requests

VARIABLES
    closed,   \* the closed flag of an end
    aged,     \* created_at is MAX_RTCP_TUNNEL_AGE ago
    running,  \* the read loop of an end has not left its loop
    closer,   \* how far close() has come
    used,     \* used_stream_ids
    pc,       \* where a request stands
    sid,      \* the stream id a request has reserved
    rx,       \* the oneshot receiver of a request
    leg,      \* the stream leg a request has taken from its slot
    out,      \* what a request has returned
    waiters,  \* open_resp_waiters, ropen_resp_waiters and pong_waiters
    job,      \* where the peer's work for a request stands
    jleg,     \* the stream leg a job has taken from its slot
    slot,     \* wait_ropen_stream_map of the acceptor's stack
    pending,  \* pending_wait_stream_keys of the acceptor
    draining, \* keys that close() has drained and not yet removed
    ctl,      \* control packages on their way to an end
    hello,    \* legs whose HelloStream is on its way to the acceptor
    keyed     \* every EncryptedStream made so far: [end, req, leg]

endVars  == <<closed, aged, running, closer, used>>
reqVars  == <<pc, sid, rx, leg, out, waiters>>
jobVars  == <<job, jleg>>
slotVars == <<slot, pending, draining>>
netVars  == <<ctl, hello, keyed>>
vars == <<endVars, reqVars, jobVars, slotVars, netVars>>

-----------------------------------------------------------------------------
(* State *)

Ends == {"dialer", "acceptor"}
Other(e) == IF e = "dialer" THEN "acceptor" ELSE "dialer"

\* The end that makes a request, and the end that serves it.
Home(r) == IF r \in Pings THEN PingHome[r]
           ELSE IF r \in Opens THEN "dialer" ELSE "acceptor"
Peer(r) == Other(Home(r))

\* Result codes of OpenResp and ROpenResp, as far as callers tell them apart.
Codes == {"ok", "refused", "exhausted"}

RequestStates == {"idle", "reserve", "waiter", "slot", "key", "unkey", "post",
                  "await", "build", "built", "select", "take", "wait", "retake",
                  "done", "dropped"}
InFlight(r) == pc[r] \notin {"idle", "done", "dropped"}

\* on_open runs inside the read loop up to its response.
InlineStates == {"slot", "key", "unkey", "respond"}
JobStates == InlineStates \cup {"none", "wait", "take", "build", "built", "deliver", "ended"}
CloserStates == {"none", "ids", "waiters", "keys", "slots", "done"}
Busy(e) == \E r \in Requests : Peer(r) = e /\ job[r] \in InlineStates

\* Jobs that hold one of the inbound_build_slots of an end.
Builds(e) == {r \in Requests : Peer(r) = e /\ job[r] \notin {"none", "ended"}}

Messages == [kind : {"request"}, req : Requests, code : {"ok"}]
            \cup [kind : {"answer"}, req : Requests, code : Codes]
RequestOf(r) == [kind |-> "request", req |-> r, code |-> "ok"]
AnswerTo(r, c) == [kind |-> "answer", req |-> r, code |-> c]

Init ==
    /\ closed = [e \in Ends |-> FALSE]
    /\ aged = [e \in Ends |-> FALSE]
    /\ running = [e \in Ends |-> TRUE]
    /\ closer = [e \in Ends |-> "none"]
    /\ used = [e \in Ends |-> {}]
    /\ pc = [r \in Requests |-> "idle"]
    /\ sid = [r \in Requests |-> None]
    /\ rx = [r \in Requests |-> "empty"]
    /\ leg = [r \in Requests |-> None]
    /\ out = [r \in Requests |-> "none"]
    /\ waiters = {}
    /\ job = [r \in Requests |-> "none"]
    /\ jleg = [r \in Requests |-> None]
    /\ slot = [i \in Ids |-> None]
    /\ pending = {}
    /\ draining = {}
    /\ ctl = [e \in Ends |-> <<>>]
    /\ hello = {}
    /\ keyed = {}

-----------------------------------------------------------------------------
(* Parts of actions *)

Goto(r, next) == pc' = [pc EXCEPT ![r] = next]
Return(r, result) ==
    /\ Goto(r, "done")
    /\ out' = [out EXCEPT ![r] = result]

JobTo(r, next) == job' = [job EXCEPT ![r] = next]

\* The synchronous half of close(); the read loop wakes up and runs close().
MarkClosed(e) ==
    /\ closed' = [closed EXCEPT ![e] = TRUE]
    /\ UNCHANGED <<aged, running, closer, used>>

\* close() begins: from here on CloseStep runs.
BeginClose(e) ==
    /\ closed' = [closed EXCEPT ![e] = TRUE]
    /\ closer' = [closer EXCEPT ![e] = IF @ = "none" THEN "ids" ELSE @]

\* The read loop of an end breaks and goes on with close(); what it has not
\* read is lost.
LeaveLoop(e) ==
    /\ running' = [running EXCEPT ![e] = FALSE]
    /\ ctl' = [ctl EXCEPT ![e] = <<>>]
    /\ BeginClose(e)
    /\ UNCHANGED <<aged, used>>

\* A package on the wire reaches a read loop that is still there.
Wire(c, e, m) == IF running[e] THEN [c EXCEPT ![e] = Append(@, m)] ELSE c

\* remove_wait_stream of the tunnel: its own key set, then the stack's map.
RemoveWaitStream(i) ==
    /\ pending' = pending \ {i}
    /\ slot' = [slot EXCEPT ![i] = None]
    /\ UNCHANGED draining

KeyStream(e, r, l) == keyed' = keyed \cup {[end |-> e, req |-> r, leg |-> l]}

-----------------------------------------------------------------------------
(* A request *)

\* request_open_stream and ping_rtt begin.  Only streams have an age limit.
Start(r) ==
    /\ pc[r] = "idle"
    /\ \/ /\ closed[Home(r)]
          /\ Return(r, "failed")
          /\ UNCHANGED endVars
       \/ /\ ~closed[Home(r)]
          /\ r \notin Pings
          /\ aged[Home(r)]
          /\ Return(r, "failed")
          /\ MarkClosed(Home(r))
       \/ /\ ~closed[Home(r)]
          /\ r \in Pings \/ ~aged[Home(r)]
          /\ Goto(r, IF r \in Pings THEN "waiter" ELSE "reserve")
          /\ UNCHANGED <<endVars, out>>
    /\ UNCHANGED <<sid, rx, leg, waiters, jobVars, slotVars, netVars>>

\* reserve_outbound_stream_id under the lock of used_stream_ids.
Reserve(r) ==
    LET e == Home(r) IN
    /\ pc[r] = "reserve"
    /\ \/ /\ closed[e]
          /\ Return(r, "failed")
          /\ UNCHANGED <<endVars, sid>>
       \/ /\ ~closed[e]
          /\ aged[e]
          /\ Return(r, "failed")
          /\ MarkClosed(e)
          /\ UNCHANGED sid
       \/ /\ ~closed[e]
          /\ ~aged[e]
          /\ Cardinality(used[e]) >= MaxIds
          /\ Return(r, "failed")
          /\ BeginClose(e)
          /\ UNCHANGED <<aged, running, used, sid>>
       \/ /\ ~closed[e]
          /\ ~aged[e]
          /\ Cardinality(used[e]) < MaxIds
          /\ \E i \in Ids \ used[e] :
                /\ used' = [used EXCEPT ![e] = @ \cup {i}]
                /\ sid' = [sid EXCEPT ![r] = i]
          /\ Goto(r, "waiter")
          /\ UNCHANGED <<closed, aged, running, closer, out>>
    /\ UNCHANGED <<rx, leg, waiters, jobVars, slotVars, netVars>>

\* The waiter for the answer is registered before anything is sent.  ROpen
\* does not look at the closed flag here: register_wait_stream does.
InsertWaiter(r) ==
    /\ pc[r] = "waiter"
    /\ \/ /\ r \in ROpens
          /\ waiters' = waiters \cup {r}
          /\ Goto(r, "slot")
          /\ UNCHANGED out
       \/ /\ r \notin ROpens
          /\ ~closed[Home(r)]
          /\ waiters' = waiters \cup {r}
          /\ Goto(r, "post")
          /\ UNCHANGED out
       \/ /\ r \notin ROpens
          /\ closed[Home(r)]
          /\ Return(r, "failed")
          /\ UNCHANGED waiters
    /\ UNCHANGED <<endVars, sid, rx, leg, jobVars, slotVars, netVars>>

\* register_wait_stream, first lock: the slot in the stack's wait map.
RegisterSlot(r) ==
    /\ pc[r] = "slot"
    /\ \/ /\ closed["acceptor"] \/ slot[sid[r]] # None
          /\ Return(r, "failed")
          /\ waiters' = waiters \ {r}
          /\ UNCHANGED slot
       \/ /\ ~closed["acceptor"]
          /\ slot[sid[r]] = None
          /\ slot' = [slot EXCEPT ![sid[r]] = "waiting"]
          /\ Goto(r, "key")
          /\ UNCHANGED <<waiters, out>>
    /\ UNCHANGED <<endVars, sid, rx, leg, jobVars, pending, draining, netVars>>

\* register_wait_stream, second lock: the tunnel's own key, and the re-check.
RegisterKey(r) ==
    /\ pc[r] = "key"
    /\ pending' = pending \cup {sid[r]}
    /\ Goto(r, IF closed["acceptor"] THEN "unkey" ELSE "post")
    /\ UNCHANGED <<endVars, sid, rx, leg, out, waiters, jobVars, slot, draining, netVars>>

\* What a request that ends before its stream leaves behind is removed.
CleanUp(r) ==
    /\ waiters' = waiters \ {r}
    /\ IF r \in ROpens THEN RemoveWaitStream(sid[r]) ELSE UNCHANGED slotVars

UnregisterKey(r) ==
    /\ pc[r] = "unkey"
    /\ CleanUp(r)
    /\ Return(r, "failed")
    /\ UNCHANGED <<endVars, sid, rx, leg, jobVars, netVars>>

\* post_open, post_ropen and the Ping of ping_rtt.
Post(r) ==
    /\ pc[r] = "post"
    /\ ~closed[Home(r)]
    /\ ctl' = Wire(ctl, Peer(r), RequestOf(r))
    /\ Goto(r, IF r \in ROpens THEN "select" ELSE "await")
    /\ UNCHANGED <<endVars, sid, rx, leg, out, waiters, jobVars, slotVars, hello, keyed>>

\* The send fails, because the tunnel is closed or the transport is broken.
PostFails(r) ==
    /\ pc[r] = "post"
    /\ CleanUp(r)
    /\ Return(r, "failed")
    /\ UNCHANGED <<endVars, sid, rx, leg, jobVars, netVars>>

\* The deadline passes inside the write: a partial frame may be on the wire.
PostTimesOut(r) ==
    /\ pc[r] = "post"
    /\ r \notin Pings
    /\ CleanUp(r)
    /\ Return(r, "failed")
    /\ MarkClosed(Home(r))
    /\ UNCHANGED <<sid, rx, leg, jobVars, netVars>>

\* Open and Ping wait for the answer alone.
Answered(r) ==
    /\ pc[r] = "await"
    /\ rx[r] # "empty"
    /\ \/ /\ rx[r] = "ok"
          /\ IF r \in Pings THEN Return(r, "ok")
             ELSE Goto(r, "build") /\ UNCHANGED out
          /\ UNCHANGED waiters
       \/ /\ rx[r] # "ok"
          /\ waiters' = waiters \ {r}
          /\ Return(r, "failed")
    /\ UNCHANGED <<endVars, sid, rx, leg, jobVars, slotVars, netVars>>

\* Mutant: no deadline for the wait that follows an accepted ROpen.
DeadlineMutant(r) ==
    /\ pc[r] \in {"await", "build", "built", "select", "take"}
    /\ CleanUp(r)
    /\ Return(r, "failed")
    /\ leg' = [leg EXCEPT ![r] = None]
    /\ UNCHANGED <<endVars, sid, rx, jobVars, netVars>>

\* The deadline passes while the request waits or builds its leg.
Deadline(r) ==
    /\ pc[r] \in {"await", "build", "built", "select", "take", "wait", "retake"}
    /\ CleanUp(r)
    /\ Return(r, "failed")
    /\ leg' = [leg EXCEPT ![r] = None]
    /\ UNCHANGED <<endVars, sid, rx, jobVars, netVars>>

\* build_reconnect_stream: a connection to the acceptor and its HelloStream.
BuildLeg(r) ==
    /\ pc[r] = "build"
    /\ \/ /\ ~closed["dialer"]
          /\ hello' = hello \cup {r}
          /\ Goto(r, "built")
          /\ UNCHANGED out
       \/ /\ Return(r, "failed")
          /\ UNCHANGED hello
    /\ UNCHANGED <<endVars, sid, rx, leg, waiters, jobVars, slotVars, ctl, keyed>>

\* A direct leg is checked again after the HelloStream, a bootstrapped one
\* only before it.
OpenDone(r) ==
    /\ pc[r] = "built"
    /\ \/ /\ Bootstrap \/ ~closed["dialer"]
          /\ KeyStream("dialer", r, r)
          /\ Return(r, "ok")
       \/ /\ ~Bootstrap
          /\ closed["dialer"]
          /\ Return(r, "failed")
          /\ UNCHANGED keyed
    /\ UNCHANGED <<endVars, sid, rx, leg, waiters, jobVars, slotVars, ctl, hello>>

\* ROpen polls its slot while it also listens for the answer ("select"), and
\* afterwards alone ("wait").  The slot is emptied under one lock; the key is
\* removed under another one ("take", "retake").
PollSlot(r) ==
    /\ pc[r] \in {"select", "wait"}
    /\ slot[sid[r]] # "waiting"
    /\ leg' = [leg EXCEPT ![r] = slot[sid[r]]]
    /\ slot' = [slot EXCEPT ![sid[r]] = None]
    /\ Goto(r, IF pc[r] = "select" THEN "take" ELSE "retake")
    /\ UNCHANGED <<endVars, sid, rx, out, waiters, jobVars, pending, draining, netVars>>

ROpenDone(r) ==
    /\ pc[r] \in {"take", "retake"}
    /\ pending' = pending \ {sid[r]}
    /\ waiters' = waiters \ {r}
    /\ \/ /\ leg[r] = None
          /\ Return(r, "interrupted")
          /\ UNCHANGED keyed
       \/ /\ leg[r] # None
          /\ closed["acceptor"]
          /\ Return(r, "failed")
          /\ UNCHANGED keyed
       \/ /\ leg[r] # None
          /\ ~closed["acceptor"]
          /\ KeyStream("acceptor", r, leg[r])
          /\ Return(r, "ok")
    /\ UNCHANGED <<endVars, sid, rx, leg, jobVars, slot, draining, ctl, hello>>

\* The answer wins the select!: the other branch is dropped where it stands,
\* and with it a leg that it has already taken out of the slot.
AnswerWins(r) ==
    /\ pc[r] \in {"select", "take"}
    /\ rx[r] # "empty"
    /\ leg' = [leg EXCEPT ![r] = None]
    /\ \/ /\ rx[r] = "ok"
          /\ Goto(r, "wait")
          /\ UNCHANGED <<out, slotVars>>
       \/ /\ rx[r] # "ok"
          /\ RemoveWaitStream(sid[r])
          /\ Return(r, "failed")
    /\ UNCHANGED <<endVars, sid, rx, waiters, jobVars, netVars>>

\* The caller drops the future of its request at one of its awaits.
DropRequest(r) ==
    /\ CallersDrop
    /\ InFlight(r)
    /\ Goto(r, "dropped")
    /\ UNCHANGED <<endVars, sid, rx, leg, out, waiters, jobVars, slotVars, netVars>>

-----------------------------------------------------------------------------
(* The read loop *)

Reading(e) == running[e] /\ ~closed[e] /\ ~Busy(e) /\ ctl[e] # <<>>
Consumed(e) == [ctl EXCEPT ![e] = Tail(@)]

\* A Ping is answered in the loop.
ReadPing(e) ==
    LET m == Head(ctl[e]) IN
    /\ Reading(e)
    /\ m.kind = "request"
    /\ m.req \in Pings
    /\ ctl' = Wire(Consumed(e), Other(e), AnswerTo(m.req, "ok"))
    /\ UNCHANGED <<endVars, reqVars, jobVars, slotVars, hello, keyed>>

\* Mutant: the epoch has room for one id too many.
AdmissibleOneMore(e, i) ==
    /\ i \notin used[e]
    /\ Cardinality(used[e]) <= MaxIds
    /\ Cardinality(Builds(e)) < MaxBuilds

\* admit_inbound_stream_build, last lock: the id is new, the epoch has room
\* and one of the build slots is free.
Admissible(e, i) ==
    /\ i \notin used[e]
    /\ Cardinality(used[e]) < MaxIds
    /\ Cardinality(Builds(e)) < MaxBuilds

\* Mutant: an admitted id is not recorded.
AdmitMutant(e) ==
    LET m == Head(ctl[e]) IN
    /\ Reading(e)
    /\ m.kind = "request"
    /\ m.req \notin Pings
    /\ ~aged[e]
    /\ Admissible(e, sid[m.req])
    /\ JobTo(m.req, IF m.req \in ROpens THEN "build" ELSE "slot")
    /\ ctl' = Consumed(e)
    /\ UNCHANGED <<endVars, reqVars, jleg, slotVars, hello, keyed>>

\* Open and ROpen are admitted: Open goes on in the loop, ROpen in a task.
Admit(e) ==
    LET m == Head(ctl[e]) IN
    /\ Reading(e)
    /\ m.kind = "request"
    /\ m.req \notin Pings
    /\ ~aged[e]
    /\ Admissible(e, sid[m.req])
    /\ used' = [used EXCEPT ![e] = @ \cup {sid[m.req]}]
    /\ JobTo(m.req, IF m.req \in ROpens THEN "build" ELSE "slot")
    /\ ctl' = Consumed(e)
    /\ UNCHANGED <<closed, aged, running, closer, reqVars, jleg, slotVars, hello, keyed>>

\* A duplicate id, no permit, or no token.  The level of the token bucket
\* depends on the time that has passed, so it may run dry at any request.
Refuse(e) ==
    LET m == Head(ctl[e]) IN
    /\ Reading(e)
    /\ m.kind = "request"
    /\ m.req \notin Pings
    /\ ~aged[e]
    /\ ctl' = Wire(Consumed(e), Other(e), AnswerTo(m.req, "refused"))
    /\ UNCHANGED <<endVars, reqVars, jobVars, slotVars, hello, keyed>>

\* The key epoch is used up: the peer is told and the tunnel is closed.
RefuseExhausted(e) ==
    LET m == Head(ctl[e]) IN
    /\ Reading(e)
    /\ m.kind = "request"
    /\ m.req \notin Pings
    /\ ~aged[e]
    /\ sid[m.req] \notin used[e]
    /\ Cardinality(used[e]) >= MaxIds
    /\ Cardinality(Builds(e)) < MaxBuilds
    /\ ctl' = Wire(Consumed(e), Other(e), AnswerTo(m.req, "exhausted"))
    /\ BeginClose(e)
    /\ UNCHANGED <<aged, running, used, reqVars, jobVars, slotVars, hello, keyed>>

\* The age limit marks the tunnel closed, so the refusal cannot be sent any
\* more and the read loop ends with its error.
RefuseAged(e) ==
    LET m == Head(ctl[e]) IN
    /\ Reading(e)
    /\ m.kind = "request"
    /\ m.req \notin Pings
    /\ aged[e]
    /\ LeaveLoop(e)
    /\ UNCHANGED <<reqVars, jobVars, slotVars, hello, keyed>>

\* OpenResp, ROpenResp and Pong complete the waiter of their request.
ReadAnswer(e) ==
    LET m == Head(ctl[e]) IN
    /\ Reading(e)
    /\ m.kind = "answer"
    /\ ctl' = Consumed(e)
    /\ waiters' = waiters \ {m.req}
    /\ rx' = IF m.req \in waiters THEN [rx EXCEPT ![m.req] = m.code] ELSE rx
    /\ IF m.code = "exhausted"
       THEN BeginClose(e) /\ UNCHANGED <<aged, running, used>>
       ELSE UNCHANGED endVars
    /\ UNCHANGED <<pc, sid, leg, out, jobVars, slotVars, hello, keyed>>

\* The loop sees the closed flag, or the peer's FIN behind its last package.
LoopEnds(e) ==
    /\ running[e]
    /\ ~Busy(e)
    /\ closed[e] \/ (closer[Other(e)] = "done" /\ ctl[e] = <<>>)
    /\ LeaveLoop(e)
    /\ UNCHANGED <<reqVars, jobVars, slotVars, hello, keyed>>

\* A read, a decryption or an answer fails.
LoopFails(e) ==
    /\ running[e]
    /\ ~Busy(e)
    /\ LeaveLoop(e)
    /\ UNCHANGED <<reqVars, jobVars, slotVars, hello, keyed>>

-----------------------------------------------------------------------------
(* Jobs: on_open and finish_open at the acceptor, on_ropen at the dialer *)

\* on_open registers the slot; an error ends the read loop.
OpenSlot(r) ==
    /\ job[r] = "slot"
    /\ \/ /\ closed["acceptor"] \/ slot[sid[r]] # None
          /\ JobTo(r, "ended")
          /\ LeaveLoop("acceptor")
          /\ UNCHANGED slot
       \/ /\ ~closed["acceptor"]
          /\ slot[sid[r]] = None
          /\ slot' = [slot EXCEPT ![sid[r]] = "waiting"]
          /\ JobTo(r, "key")
          /\ UNCHANGED <<endVars, ctl>>
    /\ UNCHANGED <<reqVars, jleg, pending, draining, hello, keyed>>

OpenKey(r) ==
    /\ job[r] = "key"
    /\ pending' = pending \cup {sid[r]}
    /\ JobTo(r, IF closed["acceptor"] THEN "unkey" ELSE "respond")
    /\ UNCHANGED <<endVars, reqVars, jleg, slot, draining, netVars>>

OpenUnkey(r) ==
    /\ job[r] = "unkey" \/ (job[r] = "respond" /\ closed["acceptor"])
    /\ RemoveWaitStream(sid[r])
    /\ JobTo(r, "ended")
    /\ LeaveLoop("acceptor")
    /\ UNCHANGED <<reqVars, jleg, hello, keyed>>

\* OpenResp is sent and finish_open spawned.  If the send fails the slot and
\* its key stay behind for the close() at the end of the read loop.
OpenRespond(r) ==
    /\ job[r] = "respond"
    /\ ~closed["acceptor"]
    /\ \/ /\ ctl' = Wire(ctl, "dialer", AnswerTo(r, "ok"))
          /\ JobTo(r, "wait")
          /\ UNCHANGED endVars
       \/ /\ JobTo(r, "ended")
          /\ LeaveLoop("acceptor")
    /\ UNCHANGED <<reqVars, jleg, slotVars, hello, keyed>>

\* finish_open finds a leg, a slot that somebody else removed, or gives up
\* after STREAM_WAIT_TIMEOUT.
FinishPoll(r) ==
    /\ job[r] = "wait"
    /\ jleg' = [jleg EXCEPT ![r] = IF slot[sid[r]] = "waiting" THEN None ELSE slot[sid[r]]]
    /\ slot' = [slot EXCEPT ![sid[r]] = None]
    /\ JobTo(r, "take")
    /\ UNCHANGED <<endVars, reqVars, pending, draining, netVars>>

FinishOpen(r) ==
    /\ job[r] = "take"
    /\ pending' = pending \ {sid[r]}
    /\ IF jleg[r] # None /\ ~closed["acceptor"]
       THEN KeyStream("acceptor", r, jleg[r])
       ELSE UNCHANGED keyed
    /\ JobTo(r, "ended")
    /\ UNCHANGED <<endVars, reqVars, jleg, slot, draining, ctl, hello>>

\* on_ropen builds the leg, or reports that it could not.
ROpenBuild(r) ==
    /\ job[r] = "build"
    /\ \/ /\ ~closed["dialer"]
          /\ hello' = hello \cup {r}
          /\ JobTo(r, "built")
          /\ UNCHANGED ctl
       \/ /\ ~closed["dialer"]
          /\ ctl' = Wire(ctl, "acceptor", AnswerTo(r, "refused"))
          /\ JobTo(r, "ended")
          /\ UNCHANGED hello
       \/ /\ JobTo(r, "ended")
          /\ UNCHANGED <<ctl, hello>>
    /\ UNCHANGED <<endVars, reqVars, jleg, slotVars, keyed>>

\* ROpenResp follows the HelloStream; then the stream goes to the listener.
ROpenRespond(r) ==
    /\ job[r] = "built"
    /\ \/ /\ ~closed["dialer"]
          /\ ctl' = Wire(ctl, "acceptor", AnswerTo(r, "ok"))
          /\ JobTo(r, "deliver")
       \/ /\ JobTo(r, "ended")
          /\ UNCHANGED ctl
    /\ UNCHANGED <<endVars, reqVars, jleg, slotVars, hello, keyed>>

ROpenDeliver(r) ==
    /\ job[r] = "deliver"
    /\ KeyStream("dialer", r, r)
    /\ JobTo(r, "ended")
    /\ UNCHANGED <<endVars, reqVars, jleg, slotVars, ctl, hello>>

\* Shutdown, which has closed the tunnel before, refuses or aborts the task.
JobAborted(r) ==
    /\ job[r] \notin InlineStates \cup {"none", "ended"}
    /\ closed[Peer(r)]
    /\ JobTo(r, "ended")
    /\ UNCHANGED <<endVars, reqVars, jleg, slotVars, netVars>>

-----------------------------------------------------------------------------
(* The listener, close() and the tunnel map *)

\* notify_ropen_stream: the leg goes into the slot, or is shut down when
\* nobody waits for it any more.
HelloStream(l) ==
    /\ l \in hello
    /\ hello' = hello \ {l}
    /\ slot' = IF slot[sid[l]] = None THEN slot ELSE [slot EXCEPT ![sid[l]] = l]
    /\ UNCHANGED <<endVars, reqVars, jobVars, pending, draining, ctl, keyed>>

\* The stages of close() after the flag, one lock each.
ClearIds(e) ==
    /\ closer[e] = "ids"
    /\ used' = [used EXCEPT ![e] = {}]
    /\ closer' = [closer EXCEPT ![e] = "waiters"]
    /\ UNCHANGED <<closed, aged, running, reqVars, jobVars, slotVars, netVars>>

ClearWaiters(e) ==
    LET mine == {r \in waiters : Home(r) = e} IN
    /\ closer[e] = "waiters"
    /\ waiters' = waiters \ mine
    /\ rx' = [r \in Requests |-> IF r \in mine THEN "dropped" ELSE rx[r]]
    /\ closer' = [closer EXCEPT ![e] = "keys"]
    /\ UNCHANGED <<closed, aged, running, used, pc, sid, leg, out, jobVars, slotVars, netVars>>

DrainKeys(e) ==
    /\ closer[e] = "keys"
    /\ IF e = "acceptor"
       THEN draining' = pending /\ pending' = {}
       ELSE UNCHANGED <<draining, pending>>
    /\ closer' = [closer EXCEPT ![e] = "slots"]
    /\ UNCHANGED <<closed, aged, running, used, reqVars, jobVars, slot, netVars>>

\* Mutant: the drained keys are not removed from the stack's wait map.
RemoveSlotsMutant(e) ==
    /\ closer[e] = "slots"
    /\ draining' = {}
    /\ closer' = [closer EXCEPT ![e] = "done"]
    /\ UNCHANGED <<closed, aged, running, used, reqVars, jobVars, slot, pending, netVars>>

\* The drained slots are removed and the write side is shut down: FIN.
RemoveSlots(e) ==
    /\ closer[e] = "slots"
    /\ IF e = "acceptor"
       THEN /\ slot' = [i \in Ids |-> IF i \in draining THEN None ELSE slot[i]]
            /\ draining' = {}
       ELSE UNCHANGED <<slot, draining>>
    /\ closer' = [closer EXCEPT ![e] = "done"]
    /\ UNCHANGED <<closed, aged, running, used, reqVars, jobVars, pending, netVars>>

\* The tunnel map replaces, revokes or shuts down the tunnel.
CloseTunnel(e) ==
    /\ e \in ClosingEnds
    /\ closer[e] = "none"
    /\ BeginClose(e)
    /\ UNCHANGED <<aged, running, used, reqVars, jobVars, slotVars, netVars>>

ReachAge(e) ==
    /\ e \in AgingEnds
    /\ ~aged[e]
    /\ ~closed[e]
    /\ aged' = [aged EXCEPT ![e] = TRUE]
    /\ UNCHANGED <<closed, running, closer, used, reqVars, jobVars, slotVars, netVars>>

-----------------------------------------------------------------------------
(* Specification *)

RequestStep(r) ==
    \/ Start(r) \/ Reserve(r) \/ InsertWaiter(r)
    \/ RegisterSlot(r) \/ RegisterKey(r) \/ UnregisterKey(r)
    \/ Post(r) \/ PostFails(r) \/ PostTimesOut(r)
    \/ Answered(r) \/ Deadline(r) \/ BuildLeg(r) \/ OpenDone(r)
    \/ PollSlot(r) \/ ROpenDone(r) \/ AnswerWins(r)

LoopStep(e) ==
    \/ ReadPing(e) \/ Admit(e) \/ Refuse(e) \/ RefuseExhausted(e) \/ RefuseAged(e)
    \/ ReadAnswer(e) \/ LoopEnds(e)

JobStep(r) ==
    \/ OpenSlot(r) \/ OpenKey(r) \/ OpenUnkey(r) \/ OpenRespond(r)
    \/ FinishPoll(r) \/ FinishOpen(r)
    \/ ROpenBuild(r) \/ ROpenRespond(r) \/ ROpenDeliver(r) \/ JobAborted(r)

CloseStep(e) == ClearIds(e) \/ ClearWaiters(e) \/ DrainKeys(e) \/ RemoveSlots(e)

Next ==
    \/ \E r \in Requests : RequestStep(r) \/ DropRequest(r) \/ JobStep(r) \/ HelloStream(r)
    \/ \E e \in Ends : LoopStep(e) \/ LoopFails(e) \/ CloseStep(e) \/ CloseTunnel(e) \/ ReachAge(e)

Spec == Init /\ [][Next]_vars

\* Spawned futures are polled and every wait of them has a deadline.  Nothing
\* is assumed of the network, of callers, of the tunnel map or of the clock
\* except that timeouts fire and that a FIN is read.
Fairness ==
    /\ \A r \in Requests : WF_vars(InFlight(r) /\ RequestStep(r)) /\ WF_vars(JobStep(r))
    /\ \A e \in Ends : WF_vars(LoopStep(e)) /\ WF_vars(CloseStep(e))

FairSpec == Spec /\ Fairness

-----------------------------------------------------------------------------
(* Properties *)

\* Every variable has its type.
TypeOK ==
    /\ closed \in [Ends -> BOOLEAN]
    /\ aged \in [Ends -> BOOLEAN]
    /\ running \in [Ends -> BOOLEAN]
    /\ closer \in [Ends -> CloserStates]
    /\ used \in [Ends -> SUBSET Ids]
    /\ pc \in [Requests -> RequestStates]
    /\ sid \in [Requests -> Ids \cup {None}]
    /\ rx \in [Requests -> Codes \cup {"empty", "dropped"}]
    /\ leg \in [Requests -> Requests \cup {None}]
    /\ out \in [Requests -> {"none", "ok", "failed", "interrupted"}]
    /\ waiters \subseteq Requests
    /\ job \in [Requests -> JobStates]
    /\ jleg \in [Requests -> Requests \cup {None}]
    /\ slot \in [Ids -> Requests \cup {None, "waiting"}]
    /\ pending \subseteq Ids
    /\ draining \subseteq Ids
    /\ ctl \in [Ends -> Seq(Messages)]
    /\ hello \subseteq Requests
    /\ keyed \subseteq [end : Ends, req : Requests, leg : Requests]

\* The keys of a stream depend on the tunnel key and the stream id alone: at
\* either end a stream id keys one stream only, its own requests and those of
\* the peer taken together, also when both ends draw the same id at once.
OneStreamPerId ==
    \A k, l \in keyed : k.end = l.end /\ sid[k.req] = sid[l.req] => k = l

\* A stream runs over the leg that was built for its request: a late or
\* foreign HelloStream never ends up in the slot of another stream.
LegsMatch == \A k \in keyed : k.leg = k.req

\* max_stream_ids_per_tunnel bounds the streams that the tunnel key ever
\* encrypts at an end, although close() forgets the ids.
KeyEpochBounded ==
    \A e \in Ends : Cardinality({k \in keyed : k.end = e}) <= MaxIds

\* No reservation survives a concurrent close(): once the ids are cleared
\* neither a caller nor the read loop puts one back.
ReservationsEnd ==
    \A e \in Ends : closer[e] \notin {"none", "ids"} => used[e] = {}

\* A waiter belongs to a request that is still there to remove it: neither a
\* late answer, a deadline nor a close() that runs next to the registration
\* leaves a sender behind in the waiter maps.
WaitersOwned == \A r \in waiters : InFlight(r)

\* Somebody will remove the key or the slot of an id without help of close().
Owner(i) ==
    \E r \in Requests :
        /\ sid[r] = i
        /\ \/ r \in ROpens /\ pc[r] \in {"key", "unkey", "post", "select", "take", "wait", "retake"}
           \/ r \in Opens /\ job[r] \in {"key", "unkey", "respond", "wait", "take"}

\* A slot of the stack-wide wait map always has an owner, or the close() of
\* this tunnel has it still ahead of it: register_wait_stream, a read loop
\* that fails half-way, an aborted task and close() itself never leave a slot
\* that only a restart would free.
SlotsOwned ==
    \A i \in Ids :
        slot[i] # None =>
            \/ Owner(i)
            \/ i \in pending /\ closer["acceptor"] \in {"none", "ids", "waiters", "keys"}
            \/ i \in draining

\* As long as no caller has dropped its request, which leaves its slot, its key and
\* its waiter to close(), all of them have an owner.
ResourcesOwned ==
    (\A r \in Requests : pc[r] # "dropped") => SlotsOwned /\ WaitersOwned

\* The streams of a tunnel, over every race of requests, jobs and close(): one
\* stream per id and end, over its own leg, and no reservation behind a close().
StreamsSound == TypeOK /\ OneStreamPerId /\ LegsMatch /\ ReservationsEnd

\* Every request returns, and a wait for a HelloStream is reclaimed whether or not
\* the peer ever sends it (stream_helper.rs:8, STREAM_WAIT_TIMEOUT), unless a caller
\* dropped its request.  A request starts once, so the tunnel comes to rest.
ComesToRest ==
    []<>(/\ \A r \in Requests : ~InFlight(r)
         /\ (\A i \in Ids : slot[i] = None) \/ (\E r \in Requests : pc[r] = "dropped"))

\* When one end is closed the other one follows, so after an exhausted key
\* epoch both ends end up closed.
BothEndsClose == (\E e \in Ends : closed[e]) ~> (\A e \in Ends : closer[e] = "done")

\* Everything that a tunnel begins ends.
StreamsEnd == ComesToRest /\ BothEndsClose

\* "HelloStream arrives -> success path": a request of a tunnel that is not
\* closed never fails because its slot is gone.
HelloIsNotLost == \A r \in Requests : out[r] = "interrupted" => closed["acceptor"]

=============================================================================

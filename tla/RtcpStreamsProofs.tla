------------------------- MODULE RtcpStreamsProofs -------------------------
(***************************************************************************)
(* Proofs about RtcpStreams, for every set of requests and stream ids and  *)
(* every choice of the limits: a stream id keys one stream at each end and *)
(* a stream runs over the leg that was built for it.                       *)
(*                                                                         *)
(* The argument: an end knows the id of a request from the moment it       *)
(* reserves or admits it; reservation and admission both look at the ids   *)
(* the end has recorded, and the record is only cleared behind the closed  *)
(* flag, which both check under the same lock.  So the ids that an end     *)
(* knows are pairwise different, and a leg found under an id can only be   *)
(* the one of the request that waits for it.                               *)
(***************************************************************************)
EXTENDS RtcpStreams, FiniteSetTheorems, TLAPS

-----------------------------------------------------------------------------
(* The inductive invariant *)

\* The requests whose stream id an end knows: its own, from the reservation
\* on, and those of the peer that it has admitted.
Here(e) == {r \in Requests : sid[r] # None /\ (Home(r) = e \/ job[r] # "none")}

\* close() begins with the flag.
ClosedFirst == \A e \in Ends : closer[e] # "none" => closed[e]

\* Where a request or a job stands says of which kind it is and whether it
\* has its id.
Place(r) ==
    /\ pc[r] \in {"idle", "reserve"} => sid[r] = None /\ job[r] = "none"
    /\ pc[r] = "reserve" => r \notin Pings
    /\ pc[r] \notin {"idle", "reserve", "done", "dropped"} => sid[r] # None \/ r \in Pings
    /\ pc[r] \in {"slot", "key", "unkey", "select", "take", "wait", "retake"} => r \in ROpens
    /\ pc[r] = "await" => r \notin ROpens
    /\ pc[r] \in {"build", "built"} => r \in Opens /\ job[r] # "none"
    /\ job[r] # "none" => sid[r] # None /\ r \notin Pings
    /\ job[r] \in {"build", "built", "deliver"} => r \in ROpens
    /\ job[r] \in InlineStates \cup {"wait", "take"} => r \in Opens
    /\ r \in Opens /\ rx[r] = "ok" => job[r] # "none"
PlacesMatch == \A r \in Requests : Place(r)

\* A package in flight: a request goes to its peer with its id, and an Open
\* is answered "ok" after it has been admitted.
MessageMatch(e, m) ==
    /\ m.kind = "request" => Peer(m.req) = e /\ (m.req \notin Pings => sid[m.req] # None)
    /\ m.kind = "answer" /\ m.code = "ok" /\ m.req \in Opens => job[m.req] # "none"
Holds(s, m) == \E n \in 1..Len(s) : s[n] = m
MessagesMatch == \A e \in Ends : \A m \in Messages : Holds(ctl[e], m) => MessageMatch(e, m)

\* A leg, wherever it is, was built for a request that the acceptor knows,
\* and it is kept under the id of that request.
LegOf(i, l) == l \in Here("acceptor") /\ sid[l] = i
LegsInPlace ==
    /\ hello \subseteq Here("acceptor")
    /\ \A i \in Ids : slot[i] \in Requests => LegOf(i, slot[i])
    /\ \A r \in Requests : leg[r] # None => r \in Here("acceptor") /\ LegOf(sid[r], leg[r])
    /\ \A r \in Requests : jleg[r] # None => r \in Here("acceptor") /\ LegOf(sid[r], jleg[r])

\* The ids that an end knows are pairwise different, and recorded until
\* close() clears them.
IdsDistinct == \A e \in Ends : \A q, r \in Here(e) : sid[q] = sid[r] => q = r
IdsRecorded ==
    \A e \in Ends : closer[e] \in {"none", "ids"} => \A r \in Here(e) : sid[r] \in used[e]

\* A keyed stream belongs to a request that its end knows.
KeyedIsHere == \A k \in keyed : k.req \in Here(k.end) /\ k.leg = k.req

StreamInv ==
    /\ TypeOK
    /\ ClosedFirst
    /\ PlacesMatch
    /\ MessagesMatch
    /\ LegsInPlace
    /\ IdsDistinct
    /\ IdsRecorded
    /\ ReservationsEnd
    /\ KeyedIsHere

-----------------------------------------------------------------------------
(* Sequences of packages *)

(* What a queue holds after a package is appended, the first one is taken, *)
(* or nothing is left, and that its first package is one of them.          *)
LEMMA QueueFacts ==
    ASSUME NEW s \in Seq(Messages), NEW m \in Messages
    PROVE  /\ Append(s, m) \in Seq(Messages)
           /\ \A x \in Messages : Holds(Append(s, m), x) => Holds(s, x) \/ x = m
           /\ s # <<>> => /\ Tail(s) \in Seq(Messages)
                          /\ Head(s) \in Messages
                          /\ Holds(s, Head(s))
                          /\ \A x \in Messages : Holds(Tail(s), x) => Holds(s, x)
           /\ \A x \in Messages : ~Holds(<<>>, x)
  <1>1. Append(s, m) \in Seq(Messages) /\ Len(Append(s, m)) = Len(s) + 1
    OBVIOUS
  <1>2. ASSUME NEW x \in Messages, Holds(Append(s, m), x)
        PROVE  Holds(s, x) \/ x = m
    <2>1. PICK n \in 1..Len(Append(s, m)) : Append(s, m)[n] = x
      BY <1>2 DEF Holds
    <2>2. CASE n = Len(s) + 1
      BY <2>1, <2>2
    <2>3. CASE n # Len(s) + 1
      <3>1. n \in 1..Len(s)
        BY <1>1, <2>3
      <3> QED BY <2>1, <3>1 DEF Holds
    <2> QED BY <2>2, <2>3
  <1>3. ASSUME s # <<>>
        PROVE  /\ Tail(s) \in Seq(Messages)
               /\ Head(s) \in Messages
               /\ Holds(s, Head(s))
               /\ \A x \in Messages : Holds(Tail(s), x) => Holds(s, x)
    <2>1. Len(s) \in Nat /\ Len(s) >= 1
      BY <1>3
    <2>2. Head(s) = s[1] /\ 1 \in 1..Len(s)
      BY <1>3, <2>1
    <2>3. Tail(s) \in Seq(Messages) /\ Len(Tail(s)) = Len(s) - 1
      BY <1>3
    <2>4. ASSUME NEW x \in Messages, Holds(Tail(s), x)
          PROVE  Holds(s, x)
      <3>1. PICK n \in 1..Len(Tail(s)) : Tail(s)[n] = x
        BY <2>4 DEF Holds
      <3>2. n + 1 \in 1..Len(s) /\ s[n + 1] = x
        BY <1>3, <2>1, <2>3, <3>1
      <3> QED BY <3>2 DEF Holds
    <2> QED BY <2>2, <2>3, <2>4 DEF Holds
  <1>4. \A x \in Messages : ~Holds(<<>>, x)
    BY DEF Holds
  <1> QED BY <1>1, <1>2, <1>3, <1>4, Zenon

(* What the queues hold after a package goes on the wire. *)
LEMMA WireFacts ==
    ASSUME NEW c \in [Ends -> Seq(Messages)], NEW e \in Ends, NEW m \in Messages,
           running \in [Ends -> BOOLEAN]
    PROVE  /\ Wire(c, e, m) \in [Ends -> Seq(Messages)]
           /\ \A f \in Ends : \A x \in Messages :
                Holds(Wire(c, e, m)[f], x) => Holds(c[f], x) \/ (f = e /\ x = m)
  <1>1. CASE running[e]
    <2>1. Wire(c, e, m) = [c EXCEPT ![e] = Append(c[e], m)]
      BY <1>1 DEF Wire
    <2>2. /\ Append(c[e], m) \in Seq(Messages)
          /\ \A x \in Messages : Holds(Append(c[e], m), x) => Holds(c[e], x) \/ x = m
      BY QueueFacts
    <2> QED BY <2>1, <2>2
  <1>2. CASE ~running[e]
    BY <1>2 DEF Wire
  <1> QED BY <1>1, <1>2

(* What the queues hold after a read loop takes its next package. *)
LEMMA ConsumedFacts ==
    ASSUME ctl \in [Ends -> Seq(Messages)], NEW e \in Ends, ctl[e] # <<>>
    PROVE  /\ Consumed(e) \in [Ends -> Seq(Messages)]
           /\ Head(ctl[e]) \in Messages
           /\ Holds(ctl[e], Head(ctl[e]))
           /\ \A f \in Ends : \A x \in Messages : Holds(Consumed(e)[f], x) => Holds(ctl[f], x)
  <1>1. ctl[e] \in Seq(Messages)
    OBVIOUS
  <1>2. \A m \in Messages :
          /\ Tail(ctl[e]) \in Seq(Messages)
          /\ Head(ctl[e]) \in Messages
          /\ Holds(ctl[e], Head(ctl[e]))
          /\ \A x \in Messages : Holds(Tail(ctl[e]), x) => Holds(ctl[e], x)
    BY <1>1, QueueFacts
  <1>3. Head(ctl[e]) \in Messages
    BY <1>1
  <1> QED BY <1>2, <1>3 DEF Consumed

(* What the queues hold after a read loop is left. *)
LEMMA LeaveFacts ==
    ASSUME ctl \in [Ends -> Seq(Messages)], NEW e \in Ends,
           ctl' = [ctl EXCEPT ![e] = <<>>]
    PROVE  /\ ctl' \in [Ends -> Seq(Messages)]
           /\ \A f \in Ends : \A x \in Messages : Holds(ctl'[f], x) => Holds(ctl[f], x)
  <1>1. <<>> \in Seq(Messages)
    OBVIOUS
  <1>2. \A x \in Messages : ~Holds(<<>>, x)
    BY DEF Holds
  <1> QED BY <1>1, <1>2

(* A request and an answer are packages; so is whatever a request sends.   *)
LEMMA MessageFacts ==
    ASSUME NEW r \in Requests, NEW c \in Codes
    PROVE  /\ RequestOf(r) \in Messages /\ RequestOf(r).kind = "request" /\ RequestOf(r).req = r
           /\ AnswerTo(r, c) \in Messages /\ AnswerTo(r, c).kind = "answer"
           /\ AnswerTo(r, c).req = r /\ AnswerTo(r, c).code = c
  BY DEF RequestOf, AnswerTo, Messages, Codes

(* A request is of one of the three kinds. *)
LEMMA KindFacts ==
    /\ \A r \in Requests :
         /\ r \in Opens \/ r \in ROpens \/ r \in Pings
         /\ ~(r \in Opens /\ r \in ROpens)
         /\ r \in Pings => r \notin Opens /\ r \notin ROpens
    /\ \A r \in Requests : r # None /\ r # "waiting"
  BY RequestAssumption, AbsentAssumption

(* The ends of a request. *)
LEMMA EndFacts ==
    /\ \A r \in Requests : Home(r) \in Ends /\ Peer(r) \in Ends
    /\ \A r \in Opens : r \in Requests /\ Home(r) = "dialer" /\ Peer(r) = "acceptor"
    /\ \A r \in ROpens : r \in Requests /\ Home(r) = "acceptor" /\ Peer(r) = "dialer"
    /\ \A e \in Ends : Other(e) \in Ends
    /\ "dialer" \in Ends /\ "acceptor" \in Ends
  BY RequestAssumption DEF Home, Peer, Other, Ends

-----------------------------------------------------------------------------
(* Steps that neither reserve nor admit an id *)

(* Such a step does not change which requests an end knows. *)
LEMMA Frame ==
    ASSUME sid' = sid, \A q \in Requests : (job'[q] = "none") <=> (job[q] = "none")
    PROVE  /\ \A e \in Ends : Here(e)' = Here(e)
           /\ \A i, l : LegOf(i, l)' = LegOf(i, l)
           /\ IdsDistinct => IdsDistinct'
  <1>1. \A e \in Ends : Here(e)' = Here(e)
    BY DEF Here
  <1>2. \A i, l : LegOf(i, l)' = LegOf(i, l)
    BY <1>1 DEF LegOf, Ends
  <1> QED BY <1>1, <1>2 DEF IdsDistinct

(* A step that closes an end, or none, keeps the flag before the stages of *)
(* close() and the record of the ids.                                      *)
Closes(e) ==
    /\ closed' = [closed EXCEPT ![e] = TRUE]
    /\ closer' = closer \/ closer' = [closer EXCEPT ![e] = IF @ = "none" THEN "ids" ELSE @]
LEMMA CloseFrame ==
    ASSUME StreamInv, sid' = sid, used' = used, \A f \in Ends : Here(f)' = Here(f),
           (closed' = closed /\ closer' = closer) \/ (\E e \in Ends : Closes(e))
    PROVE  /\ closed' \in [Ends -> BOOLEAN] /\ closer' \in [Ends -> CloserStates]
           /\ used' \in [Ends -> SUBSET Ids]
           /\ ClosedFirst' /\ IdsRecorded' /\ ReservationsEnd'
  <1>1. /\ closed \in [Ends -> BOOLEAN] /\ closer \in [Ends -> CloserStates]
        /\ used \in [Ends -> SUBSET Ids]
        /\ ClosedFirst /\ IdsRecorded /\ ReservationsEnd
    BY DEF StreamInv, TypeOK
  <1>2. CASE closed' = closed /\ closer' = closer
    BY <1>1, <1>2 DEF ClosedFirst, IdsRecorded, ReservationsEnd
  <1>3. ASSUME NEW e \in Ends, Closes(e)
        PROVE  /\ closed' \in [Ends -> BOOLEAN] /\ closer' \in [Ends -> CloserStates]
               /\ used' \in [Ends -> SUBSET Ids]
               /\ ClosedFirst' /\ IdsRecorded' /\ ReservationsEnd'
    <2>1. closed' \in [Ends -> BOOLEAN] /\ closer' \in [Ends -> CloserStates]
      BY <1>1, <1>3 DEF Closes, CloserStates
    <2>2. \A f \in Ends :
            /\ closed[f] => closed'[f]
            /\ \/ closer'[f] = closer[f]
               \/ closer[f] = "none" /\ closer'[f] = "ids" /\ closed'[f]
      BY <1>1, <1>3 DEF Closes
    <2>3. ClosedFirst'
      BY <1>1, <2>2 DEF ClosedFirst
    <2>4. IdsRecorded' /\ ReservationsEnd'
      BY <1>1, <2>2 DEF IdsRecorded, ReservationsEnd
    <2> QED BY <1>1, <2>1, <2>3, <2>4
  <1> QED BY <1>2, <1>3

(* The packages on the wire keep what is said of them, and those that such a *)
(* step adds need only be looked at in the state before it.                  *)
LEMMA MessagesFrame ==
    ASSUME MessagesMatch,
           sid' = sid, \A q \in Requests : (job'[q] = "none") <=> (job[q] = "none"),
           \A f \in Ends : \A x \in Messages :
             Holds(ctl'[f], x) => Holds(ctl[f], x) \/ MessageMatch(f, x)
    PROVE  MessagesMatch'
  <1> SUFFICES ASSUME NEW f \in Ends, NEW x \in Messages, Holds(ctl'[f], x)
               PROVE  MessageMatch(f, x)'
    BY DEF MessagesMatch, Holds
  <1>1. MessageMatch(f, x)
    BY DEF MessagesMatch
  <1>2. x.req \in Requests
    BY DEF Messages
  <1> QED BY <1>1, <1>2 DEF MessageMatch

(* Start: the begin of request_open_stream and ping_rtt preserves the invariant. *)
LEMMA StartStep ==
    ASSUME StreamInv, NEW r \in Requests, Start(r)
    PROVE  StreamInv'
  <1>1. TypeOK /\ r \in Requests
    BY DEF StreamInv
  <1>2. sid' = sid /\ \A q \in Requests : (job'[q] = "none") <=> (job[q] = "none")
    BY <1>1
       DEF TypeOK, Start, Return, Goto, MarkClosed, endVars, reqVars, jobVars, slotVars, netVars,
           InlineStates, JobStates
  <1>3. /\ \A f \in Ends : Here(f)' = Here(f)
        /\ \A i, l : LegOf(i, l)' = LegOf(i, l)
        /\ IdsDistinct'
    BY <1>2, Frame DEF StreamInv
  <1>4. ctl' = ctl
    BY DEF Start, Return, Goto, MarkClosed, endVars, reqVars, jobVars, slotVars, netVars
  <1>5. ctl' \in [Ends -> Seq(Messages)] /\ MessagesMatch'
    BY <1>1, <1>2, <1>4, MessagesFrame DEF TypeOK, StreamInv
  <1>6. used' = used /\ ((closed' = closed /\ closer' = closer) \/ (\E f \in Ends : Closes(f)))
    BY EndFacts DEF Start, MarkClosed, endVars, Closes
  <1>7. /\ closed' \in [Ends -> BOOLEAN] /\ closer' \in [Ends -> CloserStates]
        /\ used' \in [Ends -> SUBSET Ids]
        /\ ClosedFirst' /\ IdsRecorded' /\ ReservationsEnd'
    BY <1>2, <1>3, <1>6, CloseFrame
  <1>8. TypeOK'
    <2>1. UNCHANGED <<sid, aged, running, rx, leg, waiters, job, jleg, slot, pending, draining,
                     hello, keyed>>
      BY <1>2 DEF Start, MarkClosed, endVars, reqVars, jobVars, slotVars, netVars
    <2>2. pc' \in [Requests -> RequestStates]
      <3>1. \E n \in RequestStates : pc' = [pc EXCEPT ![r] = n]
        BY DEF Start, Return, Goto, reqVars, RequestStates
      <3> QED BY <1>1, <3>1 DEF TypeOK
    <2>3. out' \in [Requests -> {"none", "ok", "failed", "interrupted"}]
      BY <1>1, EndFacts DEF TypeOK, Start, Return, reqVars
    <2> QED BY <1>1, <1>5, <1>7, <2>1, <2>2, <2>3 DEF TypeOK
  <1>9. PlacesMatch'
    <2> SUFFICES ASSUME NEW q \in Requests
                 PROVE  Place(q)'
      BY DEF PlacesMatch
    <2>1. Place(q)
      BY DEF StreamInv, PlacesMatch
    <2> QED BY <1>1, <1>2, <2>1, KindFacts
           DEF Place,  TypeOK, Start, Return, Goto, reqVars, jobVars, InlineStates, Codes
  <1>10. LegsInPlace'
    <2>1. LegsInPlace /\ UNCHANGED <<hello, slot, leg, jleg>>
      BY DEF StreamInv, Start, reqVars, jobVars, slotVars, netVars
    <2> QED BY <1>2, <1>3, <2>1, EndFacts DEF LegsInPlace
  <1>11. KeyedIsHere'
    <2>1. KeyedIsHere /\ keyed' = keyed /\ TypeOK
      BY DEF StreamInv, Start, netVars
    <2> QED BY <1>3, <2>1 DEF KeyedIsHere, TypeOK
  <1> QED BY <1>3, <1>5, <1>8, <1>9, <1>10, <1>11, <1>7 DEF StreamInv

(* InsertWaiter: registering the response waiter preserves the invariant. *)
LEMMA InsertWaiterStep ==
    ASSUME StreamInv, NEW r \in Requests, InsertWaiter(r)
    PROVE  StreamInv'
  <1>1. TypeOK /\ r \in Requests
    BY DEF StreamInv
  <1>2. sid' = sid /\ \A q \in Requests : (job'[q] = "none") <=> (job[q] = "none")
    BY <1>1
       DEF TypeOK, InsertWaiter, Return, Goto, endVars, reqVars, jobVars, slotVars, netVars,
           InlineStates, JobStates
  <1>3. /\ \A f \in Ends : Here(f)' = Here(f)
        /\ \A i, l : LegOf(i, l)' = LegOf(i, l)
        /\ IdsDistinct'
    BY <1>2, Frame DEF StreamInv
  <1>4. ctl' = ctl
    BY DEF InsertWaiter, Return, Goto, endVars, reqVars, jobVars, slotVars, netVars
  <1>5. ctl' \in [Ends -> Seq(Messages)] /\ MessagesMatch'
    BY <1>1, <1>2, <1>4, MessagesFrame DEF TypeOK, StreamInv
  <1>6. used' = used /\ ((closed' = closed /\ closer' = closer) \/ (\E f \in Ends : Closes(f)))
    BY EndFacts DEF InsertWaiter, endVars, Closes
  <1>7. /\ closed' \in [Ends -> BOOLEAN] /\ closer' \in [Ends -> CloserStates]
        /\ used' \in [Ends -> SUBSET Ids]
        /\ ClosedFirst' /\ IdsRecorded' /\ ReservationsEnd'
    BY <1>2, <1>3, <1>6, CloseFrame
  <1>8. TypeOK'
    <2>1. UNCHANGED <<sid, aged, running, rx, leg, job, jleg, slot, pending, draining, hello,
                     keyed>>
      BY <1>2 DEF InsertWaiter, endVars, reqVars, jobVars, slotVars, netVars
    <2>2. pc' \in [Requests -> RequestStates]
      <3>1. \E n \in RequestStates : pc' = [pc EXCEPT ![r] = n]
        BY DEF InsertWaiter, Return, Goto, reqVars, RequestStates
      <3> QED BY <1>1, <3>1 DEF TypeOK
    <2>3. out' \in [Requests -> {"none", "ok", "failed", "interrupted"}]
      BY <1>1, EndFacts DEF TypeOK, InsertWaiter, Return, reqVars
    <2>4. waiters' \subseteq Requests
      BY <1>1, EndFacts DEF TypeOK, InsertWaiter, reqVars
    <2> QED BY <1>1, <1>5, <1>7, <2>1, <2>2, <2>3, <2>4 DEF TypeOK
  <1>9. PlacesMatch'
    <2> SUFFICES ASSUME NEW q \in Requests
                 PROVE  Place(q)'
      BY DEF PlacesMatch
    <2>1. Place(q)
      BY DEF StreamInv, PlacesMatch
    <2> QED BY <1>1, <1>2, <2>1, KindFacts
           DEF Place,  TypeOK, InsertWaiter, Return, Goto, reqVars, jobVars, InlineStates, Codes
  <1>10. LegsInPlace'
    <2>1. LegsInPlace /\ UNCHANGED <<hello, slot, leg, jleg>>
      BY DEF StreamInv, InsertWaiter, reqVars, jobVars, slotVars, netVars
    <2> QED BY <1>2, <1>3, <2>1, EndFacts DEF LegsInPlace
  <1>11. KeyedIsHere'
    <2>1. KeyedIsHere /\ keyed' = keyed /\ TypeOK
      BY DEF StreamInv, InsertWaiter, netVars
    <2> QED BY <1>3, <2>1 DEF KeyedIsHere, TypeOK
  <1> QED BY <1>3, <1>5, <1>8, <1>9, <1>10, <1>11, <1>7 DEF StreamInv

(* RegisterSlot: the first lock of register_wait_stream preserves the invariant. *)
LEMMA RegisterSlotStep ==
    ASSUME StreamInv, NEW r \in Requests, RegisterSlot(r)
    PROVE  StreamInv'
  <1>1. TypeOK /\ r \in Requests
    BY DEF StreamInv
  <1>2. sid' = sid /\ \A q \in Requests : (job'[q] = "none") <=> (job[q] = "none")
    BY <1>1
       DEF TypeOK, RegisterSlot, Return, Goto, endVars, reqVars, jobVars, slotVars, netVars,
           InlineStates, JobStates
  <1>3. /\ \A f \in Ends : Here(f)' = Here(f)
        /\ \A i, l : LegOf(i, l)' = LegOf(i, l)
        /\ IdsDistinct'
    BY <1>2, Frame DEF StreamInv
  <1>4. sid[r] \in Ids
    <2>1. Place(r)
      BY DEF StreamInv, PlacesMatch
    <2>2. sid[r] \in Ids \cup {None}
      BY <1>1 DEF TypeOK
    <2> QED BY <2>1, <2>2, KindFacts DEF Place, RegisterSlot, InlineStates
  <1>5. ctl' = ctl
    BY DEF RegisterSlot, Return, Goto, endVars, reqVars, jobVars, slotVars, netVars
  <1>6. ctl' \in [Ends -> Seq(Messages)] /\ MessagesMatch'
    BY <1>1, <1>2, <1>5, MessagesFrame DEF TypeOK, StreamInv
  <1>7. used' = used /\ ((closed' = closed /\ closer' = closer) \/ (\E f \in Ends : Closes(f)))
    BY EndFacts DEF RegisterSlot, endVars, Closes
  <1>8. /\ closed' \in [Ends -> BOOLEAN] /\ closer' \in [Ends -> CloserStates]
        /\ used' \in [Ends -> SUBSET Ids]
        /\ ClosedFirst' /\ IdsRecorded' /\ ReservationsEnd'
    BY <1>2, <1>3, <1>7, CloseFrame
  <1>9. TypeOK'
    <2>1. UNCHANGED <<sid, aged, running, rx, leg, job, jleg, pending, draining, hello, keyed>>
      BY <1>2 DEF RegisterSlot, endVars, reqVars, jobVars, slotVars, netVars
    <2>2. pc' \in [Requests -> RequestStates]
      <3>1. \E n \in RequestStates : pc' = [pc EXCEPT ![r] = n]
        BY DEF RegisterSlot, Return, Goto, reqVars, RequestStates
      <3> QED BY <1>1, <3>1 DEF TypeOK
    <2>3. out' \in [Requests -> {"none", "ok", "failed", "interrupted"}]
      BY <1>1, EndFacts DEF TypeOK, RegisterSlot, Return, reqVars
    <2>4. waiters' \subseteq Requests
      BY <1>1, EndFacts DEF TypeOK, RegisterSlot, reqVars
    <2>5. slot' \in [Ids -> Requests \cup {None, "waiting"}]
      <3>1. slot' = slot \/ slot' = [slot EXCEPT ![sid[r]] = "waiting"]
        BY DEF RegisterSlot, slotVars
      <3> QED BY <1>4, <1>1, <3>1 DEF TypeOK
    <2> QED BY <1>1, <1>6, <1>8, <2>1, <2>2, <2>3, <2>4, <2>5 DEF TypeOK
  <1>10. PlacesMatch'
    <2> SUFFICES ASSUME NEW q \in Requests
                 PROVE  Place(q)'
      BY DEF PlacesMatch
    <2>1. Place(q)
      BY DEF StreamInv, PlacesMatch
    <2> QED BY <1>1, <1>2, <2>1, KindFacts
           DEF Place,  TypeOK, RegisterSlot, Return, Goto, reqVars, jobVars, InlineStates, Codes
  <1>11. LegsInPlace'
    <2>1. LegsInPlace
      BY DEF StreamInv
    <2>2. (hello \subseteq Here("acceptor"))'
      BY <1>1, <1>3, <2>1, EndFacts DEF LegsInPlace, TypeOK, RegisterSlot, netVars
    <2>3. (\A i \in Ids : slot[i] \in Requests => LegOf(i, slot[i]))'
      BY <1>1, <1>3, <2>1, <1>4, KindFacts DEF LegsInPlace, TypeOK, RegisterSlot, slotVars
    <2>4. (\A q \in Requests : leg[q] # None => q \in Here("acceptor") /\ LegOf(sid[q], leg[q]))'
      BY <1>1, <1>2, <1>3, <2>1, <1>4, EndFacts, KindFacts
         DEF LegsInPlace, TypeOK, RegisterSlot, reqVars, jobVars, slotVars
    <2>5. (\A q \in Requests : jleg[q] # None => q \in Here("acceptor") /\ LegOf(sid[q], jleg[q]))'
      BY <1>1, <1>2, <1>3, <2>1, <1>4, EndFacts, KindFacts
         DEF LegsInPlace, TypeOK, RegisterSlot, reqVars, jobVars, slotVars
    <2> QED BY <2>2, <2>3, <2>4, <2>5 DEF LegsInPlace
  <1>12. KeyedIsHere'
    <2>1. KeyedIsHere /\ keyed' = keyed /\ TypeOK
      BY DEF StreamInv, RegisterSlot, netVars
    <2> QED BY <1>3, <2>1 DEF KeyedIsHere, TypeOK
  <1> QED BY <1>3, <1>6, <1>9, <1>10, <1>11, <1>12, <1>8 DEF StreamInv

(* RegisterKey: the second lock of register_wait_stream preserves the invariant. *)
LEMMA RegisterKeyStep ==
    ASSUME StreamInv, NEW r \in Requests, RegisterKey(r)
    PROVE  StreamInv'
  <1>1. TypeOK /\ r \in Requests
    BY DEF StreamInv
  <1>2. sid' = sid /\ \A q \in Requests : (job'[q] = "none") <=> (job[q] = "none")
    BY <1>1
       DEF TypeOK, RegisterKey, Goto, endVars, reqVars, jobVars, slotVars, netVars, InlineStates,
           JobStates
  <1>3. /\ \A f \in Ends : Here(f)' = Here(f)
        /\ \A i, l : LegOf(i, l)' = LegOf(i, l)
        /\ IdsDistinct'
    BY <1>2, Frame DEF StreamInv
  <1>4. sid[r] \in Ids
    <2>1. Place(r)
      BY DEF StreamInv, PlacesMatch
    <2>2. sid[r] \in Ids \cup {None}
      BY <1>1 DEF TypeOK
    <2> QED BY <2>1, <2>2, KindFacts DEF Place, RegisterKey, InlineStates
  <1>5. ctl' = ctl
    BY DEF RegisterKey, Goto, endVars, reqVars, jobVars, slotVars, netVars
  <1>6. ctl' \in [Ends -> Seq(Messages)] /\ MessagesMatch'
    BY <1>1, <1>2, <1>5, MessagesFrame DEF TypeOK, StreamInv
  <1>7. used' = used /\ ((closed' = closed /\ closer' = closer) \/ (\E f \in Ends : Closes(f)))
    BY EndFacts DEF RegisterKey, endVars, Closes
  <1>8. /\ closed' \in [Ends -> BOOLEAN] /\ closer' \in [Ends -> CloserStates]
        /\ used' \in [Ends -> SUBSET Ids]
        /\ ClosedFirst' /\ IdsRecorded' /\ ReservationsEnd'
    BY <1>2, <1>3, <1>7, CloseFrame
  <1>9. TypeOK'
    <2>1. UNCHANGED <<sid, aged, running, rx, leg, out, waiters, job, jleg, slot, draining, hello,
                     keyed>>
      BY <1>2 DEF RegisterKey, endVars, reqVars, jobVars, slotVars, netVars
    <2>2. pc' \in [Requests -> RequestStates]
      <3>1. \E n \in RequestStates : pc' = [pc EXCEPT ![r] = n]
        BY DEF RegisterKey, Goto, reqVars, RequestStates
      <3> QED BY <1>1, <3>1 DEF TypeOK
    <2>3. pending' \subseteq Ids
      BY <1>4, <1>1, EndFacts DEF TypeOK, RegisterKey, slotVars
    <2> QED BY <1>1, <1>6, <1>8, <2>1, <2>2, <2>3 DEF TypeOK
  <1>10. PlacesMatch'
    <2> SUFFICES ASSUME NEW q \in Requests
                 PROVE  Place(q)'
      BY DEF PlacesMatch
    <2>1. Place(q)
      BY DEF StreamInv, PlacesMatch
    <2> QED BY <1>1, <1>2, <2>1, KindFacts
           DEF Place,  TypeOK, RegisterKey, Goto, reqVars, jobVars, InlineStates, Codes
  <1>11. LegsInPlace'
    <2>1. LegsInPlace /\ UNCHANGED <<hello, slot, leg, jleg>>
      BY DEF StreamInv, RegisterKey, reqVars, jobVars, slotVars, netVars
    <2> QED BY <1>2, <1>3, <2>1, EndFacts DEF LegsInPlace
  <1>12. KeyedIsHere'
    <2>1. KeyedIsHere /\ keyed' = keyed /\ TypeOK
      BY DEF StreamInv, RegisterKey, netVars
    <2> QED BY <1>3, <2>1 DEF KeyedIsHere, TypeOK
  <1> QED BY <1>3, <1>6, <1>9, <1>10, <1>11, <1>12, <1>8 DEF StreamInv

(* UnregisterKey: the clean-up of register_wait_stream behind a close() preserves the invariant. *)
LEMMA UnregisterKeyStep ==
    ASSUME StreamInv, NEW r \in Requests, UnregisterKey(r)
    PROVE  StreamInv'
  <1>1. TypeOK /\ r \in Requests
    BY DEF StreamInv
  <1>2. sid' = sid /\ \A q \in Requests : (job'[q] = "none") <=> (job[q] = "none")
    BY <1>1
       DEF TypeOK, UnregisterKey, CleanUp, RemoveWaitStream, Return, Goto, endVars, reqVars,
           jobVars, slotVars, netVars, InlineStates, JobStates
  <1>3. /\ \A f \in Ends : Here(f)' = Here(f)
        /\ \A i, l : LegOf(i, l)' = LegOf(i, l)
        /\ IdsDistinct'
    BY <1>2, Frame DEF StreamInv
  <1>4. sid[r] \in Ids
    <2>1. Place(r)
      BY DEF StreamInv, PlacesMatch
    <2>2. sid[r] \in Ids \cup {None}
      BY <1>1 DEF TypeOK
    <2> QED BY <2>1, <2>2, KindFacts DEF Place, UnregisterKey, InlineStates
  <1>5. ctl' = ctl
    BY
       DEF UnregisterKey, CleanUp, RemoveWaitStream, Return, Goto, endVars, reqVars, jobVars,
           slotVars, netVars
  <1>6. ctl' \in [Ends -> Seq(Messages)] /\ MessagesMatch'
    BY <1>1, <1>2, <1>5, MessagesFrame DEF TypeOK, StreamInv
  <1>7. used' = used /\ ((closed' = closed /\ closer' = closer) \/ (\E f \in Ends : Closes(f)))
    BY EndFacts DEF UnregisterKey, endVars, Closes
  <1>8. /\ closed' \in [Ends -> BOOLEAN] /\ closer' \in [Ends -> CloserStates]
        /\ used' \in [Ends -> SUBSET Ids]
        /\ ClosedFirst' /\ IdsRecorded' /\ ReservationsEnd'
    BY <1>2, <1>3, <1>7, CloseFrame
  <1>9. TypeOK'
    <2>1. UNCHANGED <<sid, aged, running, rx, leg, job, jleg, draining, hello, keyed>>
      BY <1>2
         DEF UnregisterKey, CleanUp, RemoveWaitStream, endVars, reqVars, jobVars, slotVars, netVars
    <2>2. pc' \in [Requests -> RequestStates]
      <3>1. \E n \in RequestStates : pc' = [pc EXCEPT ![r] = n]
        BY DEF UnregisterKey, Return, Goto, reqVars, RequestStates
      <3> QED BY <1>1, <3>1 DEF TypeOK
    <2>3. out' \in [Requests -> {"none", "ok", "failed", "interrupted"}]
      BY <1>1, EndFacts DEF TypeOK, UnregisterKey, Return, reqVars
    <2>4. waiters' \subseteq Requests
      BY <1>1, EndFacts DEF TypeOK, UnregisterKey, CleanUp, reqVars
    <2>5. slot' \in [Ids -> Requests \cup {None, "waiting"}]
      BY <1>4, <1>1, EndFacts DEF TypeOK, UnregisterKey, CleanUp, RemoveWaitStream, slotVars
    <2>6. pending' \subseteq Ids
      BY <1>4, <1>1, EndFacts DEF TypeOK, UnregisterKey, CleanUp, RemoveWaitStream, slotVars
    <2> QED BY <1>1, <1>6, <1>8, <2>1, <2>2, <2>3, <2>4, <2>5, <2>6 DEF TypeOK
  <1>10. PlacesMatch'
    <2> SUFFICES ASSUME NEW q \in Requests
                 PROVE  Place(q)'
      BY DEF PlacesMatch
    <2>1. Place(q)
      BY DEF StreamInv, PlacesMatch
    <2> QED BY <1>1, <1>2, <2>1, KindFacts
           DEF Place,  TypeOK, UnregisterKey, Return, Goto, reqVars, jobVars, InlineStates, Codes
  <1>11. LegsInPlace'
    <2>1. LegsInPlace
      BY DEF StreamInv
    <2>2. (hello \subseteq Here("acceptor"))'
      BY <1>1, <1>3, <2>1, EndFacts DEF LegsInPlace, TypeOK, UnregisterKey, netVars
    <2>3. (\A i \in Ids : slot[i] \in Requests => LegOf(i, slot[i]))'
      BY <1>1, <1>3, <2>1, <1>4, KindFacts
         DEF LegsInPlace, TypeOK, UnregisterKey, CleanUp, RemoveWaitStream, slotVars
    <2>4. (\A q \in Requests : leg[q] # None => q \in Here("acceptor") /\ LegOf(sid[q], leg[q]))'
      BY <1>1, <1>2, <1>3, <2>1, <1>4, EndFacts, KindFacts
         DEF LegsInPlace, TypeOK, UnregisterKey, CleanUp, RemoveWaitStream, reqVars, jobVars,
             slotVars
    <2>5. (\A q \in Requests : jleg[q] # None => q \in Here("acceptor") /\ LegOf(sid[q], jleg[q]))'
      BY <1>1, <1>2, <1>3, <2>1, <1>4, EndFacts, KindFacts
         DEF LegsInPlace, TypeOK, UnregisterKey, CleanUp, RemoveWaitStream, reqVars, jobVars,
             slotVars
    <2> QED BY <2>2, <2>3, <2>4, <2>5 DEF LegsInPlace
  <1>12. KeyedIsHere'
    <2>1. KeyedIsHere /\ keyed' = keyed /\ TypeOK
      BY DEF StreamInv, UnregisterKey, netVars
    <2> QED BY <1>3, <2>1 DEF KeyedIsHere, TypeOK
  <1> QED BY <1>3, <1>6, <1>9, <1>10, <1>11, <1>12, <1>8 DEF StreamInv

(* Post: sending Open, ROpen or Ping preserves the invariant. *)
LEMMA PostStep ==
    ASSUME StreamInv, NEW r \in Requests, Post(r)
    PROVE  StreamInv'
  <1>1. TypeOK /\ r \in Requests
    BY DEF StreamInv
  <1>2. sid' = sid /\ \A q \in Requests : (job'[q] = "none") <=> (job[q] = "none")
    BY <1>1
       DEF TypeOK, Post, Goto, endVars, reqVars, jobVars, slotVars, netVars, InlineStates, JobStates
  <1>3. /\ \A f \in Ends : Here(f)' = Here(f)
        /\ \A i, l : LegOf(i, l)' = LegOf(i, l)
        /\ IdsDistinct'
    BY <1>2, Frame DEF StreamInv
  <1>4. ctl' = Wire(ctl, Peer(r), RequestOf(r))
    BY DEF Post
  <1>5. RequestOf(r) \in Messages /\ RequestOf(r).kind = "request" /\ RequestOf(r).req = r
    BY MessageFacts DEF Codes
  <1>6. Peer(r) \in Ends /\ (r \notin Pings => sid[r] # None)
    BY <1>1, EndFacts DEF StreamInv, PlacesMatch, Place, Post
  <1>7. /\ ctl' \in [Ends -> Seq(Messages)]
        /\ \A f \in Ends : \A x \in Messages :
             Holds(ctl'[f], x) => Holds(ctl[f], x) \/ (f = Peer(r) /\ x = RequestOf(r))
    <2>1. ctl \in [Ends -> Seq(Messages)] /\ running \in [Ends -> BOOLEAN]
      BY <1>1 DEF TypeOK
    <2> QED BY <1>4, <1>5, <1>6, <2>1, WireFacts
  <1>8. ctl' \in [Ends -> Seq(Messages)] /\ MessagesMatch'
    <2>1. MessageMatch(Peer(r), RequestOf(r))
      BY <1>5, <1>6 DEF MessageMatch
    <2> QED BY <1>2, <1>7, <2>1, MessagesFrame DEF StreamInv
  <1>9. used' = used /\ ((closed' = closed /\ closer' = closer) \/ (\E f \in Ends : Closes(f)))
    BY EndFacts DEF Post, endVars, Closes
  <1>10. /\ closed' \in [Ends -> BOOLEAN] /\ closer' \in [Ends -> CloserStates]
         /\ used' \in [Ends -> SUBSET Ids]
         /\ ClosedFirst' /\ IdsRecorded' /\ ReservationsEnd'
    BY <1>2, <1>3, <1>9, CloseFrame
  <1>11. TypeOK'
    <2>1. UNCHANGED <<sid, aged, running, rx, leg, out, waiters, job, jleg, slot, pending,
                     draining, hello, keyed>>
      BY <1>2 DEF Post, endVars, reqVars, jobVars, slotVars, netVars
    <2>2. pc' \in [Requests -> RequestStates]
      <3>1. \E n \in RequestStates : pc' = [pc EXCEPT ![r] = n]
        BY DEF Post, Goto, reqVars, RequestStates
      <3> QED BY <1>1, <3>1 DEF TypeOK
    <2> QED BY <1>1, <1>8, <1>10, <2>1, <2>2 DEF TypeOK
  <1>12. PlacesMatch'
    <2> SUFFICES ASSUME NEW q \in Requests
                 PROVE  Place(q)'
      BY DEF PlacesMatch
    <2>1. Place(q)
      BY DEF StreamInv, PlacesMatch
    <2> QED BY <1>1, <1>2, <2>1, KindFacts
           DEF Place,  TypeOK, Post, Goto, reqVars, jobVars, InlineStates, Codes
  <1>13. LegsInPlace'
    <2>1. LegsInPlace /\ UNCHANGED <<hello, slot, leg, jleg>>
      BY DEF StreamInv, Post, reqVars, jobVars, slotVars, netVars
    <2> QED BY <1>2, <1>3, <2>1, EndFacts DEF LegsInPlace
  <1>14. KeyedIsHere'
    <2>1. KeyedIsHere /\ keyed' = keyed /\ TypeOK
      BY DEF StreamInv, Post, netVars
    <2> QED BY <1>3, <2>1 DEF KeyedIsHere, TypeOK
  <1> QED BY <1>3, <1>8, <1>11, <1>12, <1>13, <1>14, <1>10 DEF StreamInv

(* PostFails: a send of Open, ROpen or Ping that fails preserves the invariant. *)
LEMMA PostFailsStep ==
    ASSUME StreamInv, NEW r \in Requests, PostFails(r)
    PROVE  StreamInv'
  <1>1. TypeOK /\ r \in Requests
    BY DEF StreamInv
  <1>2. sid' = sid /\ \A q \in Requests : (job'[q] = "none") <=> (job[q] = "none")
    BY <1>1
       DEF TypeOK, PostFails, CleanUp, RemoveWaitStream, Return, Goto, endVars, reqVars, jobVars,
           slotVars, netVars, InlineStates, JobStates
  <1>3. /\ \A f \in Ends : Here(f)' = Here(f)
        /\ \A i, l : LegOf(i, l)' = LegOf(i, l)
        /\ IdsDistinct'
    BY <1>2, Frame DEF StreamInv
  <1>4. ctl' = ctl
    BY
       DEF PostFails, CleanUp, RemoveWaitStream, Return, Goto, endVars, reqVars, jobVars,
           slotVars, netVars
  <1>5. ctl' \in [Ends -> Seq(Messages)] /\ MessagesMatch'
    BY <1>1, <1>2, <1>4, MessagesFrame DEF TypeOK, StreamInv
  <1>6. used' = used /\ ((closed' = closed /\ closer' = closer) \/ (\E f \in Ends : Closes(f)))
    BY EndFacts DEF PostFails, endVars, Closes
  <1>7. /\ closed' \in [Ends -> BOOLEAN] /\ closer' \in [Ends -> CloserStates]
        /\ used' \in [Ends -> SUBSET Ids]
        /\ ClosedFirst' /\ IdsRecorded' /\ ReservationsEnd'
    BY <1>2, <1>3, <1>6, CloseFrame
  <1>8. TypeOK'
    <2>1. UNCHANGED <<sid, aged, running, rx, leg, job, jleg, draining, hello, keyed>>
      BY <1>2 DEF PostFails, CleanUp, RemoveWaitStream, endVars, reqVars, jobVars, slotVars, netVars
    <2>2. pc' \in [Requests -> RequestStates]
      <3>1. \E n \in RequestStates : pc' = [pc EXCEPT ![r] = n]
        BY DEF PostFails, Return, Goto, reqVars, RequestStates
      <3> QED BY <1>1, <3>1 DEF TypeOK
    <2>3. out' \in [Requests -> {"none", "ok", "failed", "interrupted"}]
      BY <1>1, EndFacts DEF TypeOK, PostFails, Return, reqVars
    <2>4. waiters' \subseteq Requests
      BY <1>1, EndFacts DEF TypeOK, PostFails, CleanUp, reqVars
    <2>5. slot' \in [Ids -> Requests \cup {None, "waiting"}]
      BY <1>1, EndFacts DEF TypeOK, PostFails, CleanUp, RemoveWaitStream, slotVars
    <2>6. pending' \subseteq Ids
      BY <1>1, EndFacts DEF TypeOK, PostFails, CleanUp, RemoveWaitStream, slotVars
    <2> QED BY <1>1, <1>5, <1>7, <2>1, <2>2, <2>3, <2>4, <2>5, <2>6 DEF TypeOK
  <1>9. PlacesMatch'
    <2> SUFFICES ASSUME NEW q \in Requests
                 PROVE  Place(q)'
      BY DEF PlacesMatch
    <2>1. Place(q)
      BY DEF StreamInv, PlacesMatch
    <2> QED BY <1>1, <1>2, <2>1, KindFacts
           DEF Place,  TypeOK, PostFails, Return, Goto, reqVars, jobVars, InlineStates, Codes
  <1>10. LegsInPlace'
    <2>1. LegsInPlace
      BY DEF StreamInv
    <2>2. (hello \subseteq Here("acceptor"))'
      BY <1>1, <1>3, <2>1, EndFacts DEF LegsInPlace, TypeOK, PostFails, netVars
    <2>3. (\A i \in Ids : slot[i] \in Requests => LegOf(i, slot[i]))'
      BY <1>1, <1>3, <2>1, KindFacts
         DEF LegsInPlace, TypeOK, PostFails, CleanUp, RemoveWaitStream, slotVars
    <2>4. (\A q \in Requests : leg[q] # None => q \in Here("acceptor") /\ LegOf(sid[q], leg[q]))'
      BY <1>1, <1>2, <1>3, <2>1, EndFacts, KindFacts
         DEF LegsInPlace, TypeOK, PostFails, CleanUp, RemoveWaitStream, reqVars, jobVars, slotVars
    <2>5. (\A q \in Requests : jleg[q] # None => q \in Here("acceptor") /\ LegOf(sid[q], jleg[q]))'
      BY <1>1, <1>2, <1>3, <2>1, EndFacts, KindFacts
         DEF LegsInPlace, TypeOK, PostFails, CleanUp, RemoveWaitStream, reqVars, jobVars, slotVars
    <2> QED BY <2>2, <2>3, <2>4, <2>5 DEF LegsInPlace
  <1>11. KeyedIsHere'
    <2>1. KeyedIsHere /\ keyed' = keyed /\ TypeOK
      BY DEF StreamInv, PostFails, netVars
    <2> QED BY <1>3, <2>1 DEF KeyedIsHere, TypeOK
  <1> QED BY <1>3, <1>5, <1>8, <1>9, <1>10, <1>11, <1>7 DEF StreamInv

(* PostTimesOut: a send that runs into its deadline and closes the tunnel preserves the invariant. *)
LEMMA PostTimesOutStep ==
    ASSUME StreamInv, NEW r \in Requests, PostTimesOut(r)
    PROVE  StreamInv'
  <1>1. TypeOK /\ r \in Requests
    BY DEF StreamInv
  <1>2. sid' = sid /\ \A q \in Requests : (job'[q] = "none") <=> (job[q] = "none")
    BY <1>1
       DEF TypeOK, PostTimesOut, CleanUp, RemoveWaitStream, Return, Goto, MarkClosed, endVars,
           reqVars, jobVars, slotVars, netVars, InlineStates, JobStates
  <1>3. /\ \A f \in Ends : Here(f)' = Here(f)
        /\ \A i, l : LegOf(i, l)' = LegOf(i, l)
        /\ IdsDistinct'
    BY <1>2, Frame DEF StreamInv
  <1>4. ctl' = ctl
    BY
       DEF PostTimesOut, CleanUp, RemoveWaitStream, Return, Goto, MarkClosed, endVars, reqVars,
           jobVars, slotVars, netVars
  <1>5. ctl' \in [Ends -> Seq(Messages)] /\ MessagesMatch'
    BY <1>1, <1>2, <1>4, MessagesFrame DEF TypeOK, StreamInv
  <1>6. used' = used /\ ((closed' = closed /\ closer' = closer) \/ (\E f \in Ends : Closes(f)))
    BY EndFacts DEF PostTimesOut, MarkClosed, endVars, Closes
  <1>7. /\ closed' \in [Ends -> BOOLEAN] /\ closer' \in [Ends -> CloserStates]
        /\ used' \in [Ends -> SUBSET Ids]
        /\ ClosedFirst' /\ IdsRecorded' /\ ReservationsEnd'
    BY <1>2, <1>3, <1>6, CloseFrame
  <1>8. TypeOK'
    <2>1. UNCHANGED <<sid, aged, running, rx, leg, job, jleg, draining, hello, keyed>>
      BY <1>2
         DEF PostTimesOut, CleanUp, RemoveWaitStream, MarkClosed, endVars, reqVars, jobVars,
             slotVars, netVars
    <2>2. pc' \in [Requests -> RequestStates]
      <3>1. \E n \in RequestStates : pc' = [pc EXCEPT ![r] = n]
        BY DEF PostTimesOut, Return, Goto, reqVars, RequestStates
      <3> QED BY <1>1, <3>1 DEF TypeOK
    <2>3. out' \in [Requests -> {"none", "ok", "failed", "interrupted"}]
      BY <1>1, EndFacts DEF TypeOK, PostTimesOut, Return, reqVars
    <2>4. waiters' \subseteq Requests
      BY <1>1, EndFacts DEF TypeOK, PostTimesOut, CleanUp, reqVars
    <2>5. slot' \in [Ids -> Requests \cup {None, "waiting"}]
      BY <1>1, EndFacts DEF TypeOK, PostTimesOut, CleanUp, RemoveWaitStream, slotVars
    <2>6. pending' \subseteq Ids
      BY <1>1, EndFacts DEF TypeOK, PostTimesOut, CleanUp, RemoveWaitStream, slotVars
    <2> QED BY <1>1, <1>5, <1>7, <2>1, <2>2, <2>3, <2>4, <2>5, <2>6 DEF TypeOK
  <1>9. PlacesMatch'
    <2> SUFFICES ASSUME NEW q \in Requests
                 PROVE  Place(q)'
      BY DEF PlacesMatch
    <2>1. Place(q)
      BY DEF StreamInv, PlacesMatch
    <2> QED BY <1>1, <1>2, <2>1, KindFacts
           DEF Place,  TypeOK, PostTimesOut, Return, Goto, reqVars, jobVars, InlineStates, Codes
  <1>10. LegsInPlace'
    <2>1. LegsInPlace
      BY DEF StreamInv
    <2>2. (hello \subseteq Here("acceptor"))'
      BY <1>1, <1>3, <2>1, EndFacts DEF LegsInPlace, TypeOK, PostTimesOut, netVars
    <2>3. (\A i \in Ids : slot[i] \in Requests => LegOf(i, slot[i]))'
      BY <1>1, <1>3, <2>1, KindFacts
         DEF LegsInPlace, TypeOK, PostTimesOut, CleanUp, RemoveWaitStream, slotVars
    <2>4. (\A q \in Requests : leg[q] # None => q \in Here("acceptor") /\ LegOf(sid[q], leg[q]))'
      BY <1>1, <1>2, <1>3, <2>1, EndFacts, KindFacts
         DEF LegsInPlace, TypeOK, PostTimesOut, CleanUp, RemoveWaitStream, reqVars, jobVars,
             slotVars
    <2>5. (\A q \in Requests : jleg[q] # None => q \in Here("acceptor") /\ LegOf(sid[q], jleg[q]))'
      BY <1>1, <1>2, <1>3, <2>1, EndFacts, KindFacts
         DEF LegsInPlace, TypeOK, PostTimesOut, CleanUp, RemoveWaitStream, reqVars, jobVars,
             slotVars
    <2> QED BY <2>2, <2>3, <2>4, <2>5 DEF LegsInPlace
  <1>11. KeyedIsHere'
    <2>1. KeyedIsHere /\ keyed' = keyed /\ TypeOK
      BY DEF StreamInv, PostTimesOut, netVars
    <2> QED BY <1>3, <2>1 DEF KeyedIsHere, TypeOK
  <1> QED BY <1>3, <1>5, <1>8, <1>9, <1>10, <1>11, <1>7 DEF StreamInv

(* Answered: the OpenResp or Pong that a request waits for preserves the invariant. *)
LEMMA AnsweredStep ==
    ASSUME StreamInv, NEW r \in Requests, Answered(r)
    PROVE  StreamInv'
  <1>1. TypeOK /\ r \in Requests
    BY DEF StreamInv
  <1>2. sid' = sid /\ \A q \in Requests : (job'[q] = "none") <=> (job[q] = "none")
    BY <1>1
       DEF TypeOK, Answered, Return, Goto, endVars, reqVars, jobVars, slotVars, netVars,
           InlineStates, JobStates
  <1>3. /\ \A f \in Ends : Here(f)' = Here(f)
        /\ \A i, l : LegOf(i, l)' = LegOf(i, l)
        /\ IdsDistinct'
    BY <1>2, Frame DEF StreamInv
  <1>4. ctl' = ctl
    BY DEF Answered, Return, Goto, endVars, reqVars, jobVars, slotVars, netVars
  <1>5. ctl' \in [Ends -> Seq(Messages)] /\ MessagesMatch'
    BY <1>1, <1>2, <1>4, MessagesFrame DEF TypeOK, StreamInv
  <1>6. used' = used /\ ((closed' = closed /\ closer' = closer) \/ (\E f \in Ends : Closes(f)))
    BY EndFacts DEF Answered, endVars, Closes
  <1>7. /\ closed' \in [Ends -> BOOLEAN] /\ closer' \in [Ends -> CloserStates]
        /\ used' \in [Ends -> SUBSET Ids]
        /\ ClosedFirst' /\ IdsRecorded' /\ ReservationsEnd'
    BY <1>2, <1>3, <1>6, CloseFrame
  <1>8. TypeOK'
    <2>1. UNCHANGED <<sid, aged, running, rx, leg, job, jleg, slot, pending, draining, hello,
                     keyed>>
      BY <1>2 DEF Answered, endVars, reqVars, jobVars, slotVars, netVars
    <2>2. pc' \in [Requests -> RequestStates]
      <3>1. \E n \in RequestStates : pc' = [pc EXCEPT ![r] = n]
        BY DEF Answered, Return, Goto, reqVars, RequestStates
      <3> QED BY <1>1, <3>1 DEF TypeOK
    <2>3. out' \in [Requests -> {"none", "ok", "failed", "interrupted"}]
      BY <1>1, EndFacts DEF TypeOK, Answered, Return, reqVars
    <2>4. waiters' \subseteq Requests
      BY <1>1, EndFacts DEF TypeOK, Answered, reqVars
    <2> QED BY <1>1, <1>5, <1>7, <2>1, <2>2, <2>3, <2>4 DEF TypeOK
  <1>9. PlacesMatch'
    <2> SUFFICES ASSUME NEW q \in Requests
                 PROVE  Place(q)'
      BY DEF PlacesMatch
    <2>1. Place(q)
      BY DEF StreamInv, PlacesMatch
    <2> QED BY <1>1, <1>2, <2>1, KindFacts
           DEF Place,  TypeOK, Answered, Return, Goto, reqVars, jobVars, InlineStates, Codes
  <1>10. LegsInPlace'
    <2>1. LegsInPlace /\ UNCHANGED <<hello, slot, leg, jleg>>
      BY DEF StreamInv, Answered, reqVars, jobVars, slotVars, netVars
    <2> QED BY <1>2, <1>3, <2>1, EndFacts DEF LegsInPlace
  <1>11. KeyedIsHere'
    <2>1. KeyedIsHere /\ keyed' = keyed /\ TypeOK
      BY DEF StreamInv, Answered, netVars
    <2> QED BY <1>3, <2>1 DEF KeyedIsHere, TypeOK
  <1> QED BY <1>3, <1>5, <1>8, <1>9, <1>10, <1>11, <1>7 DEF StreamInv

(* Deadline: the deadline of request_open_stream or ping_rtt preserves the invariant. *)
LEMMA DeadlineStep ==
    ASSUME StreamInv, NEW r \in Requests, Deadline(r)
    PROVE  StreamInv'
  <1>1. TypeOK /\ r \in Requests
    BY DEF StreamInv
  <1>2. sid' = sid /\ \A q \in Requests : (job'[q] = "none") <=> (job[q] = "none")
    BY <1>1
       DEF TypeOK, Deadline, CleanUp, RemoveWaitStream, Return, Goto, endVars, reqVars, jobVars,
           slotVars, netVars, InlineStates, JobStates
  <1>3. /\ \A f \in Ends : Here(f)' = Here(f)
        /\ \A i, l : LegOf(i, l)' = LegOf(i, l)
        /\ IdsDistinct'
    BY <1>2, Frame DEF StreamInv
  <1>4. ctl' = ctl
    BY
       DEF Deadline, CleanUp, RemoveWaitStream, Return, Goto, endVars, reqVars, jobVars, slotVars,
           netVars
  <1>5. ctl' \in [Ends -> Seq(Messages)] /\ MessagesMatch'
    BY <1>1, <1>2, <1>4, MessagesFrame DEF TypeOK, StreamInv
  <1>6. used' = used /\ ((closed' = closed /\ closer' = closer) \/ (\E f \in Ends : Closes(f)))
    BY EndFacts DEF Deadline, endVars, Closes
  <1>7. /\ closed' \in [Ends -> BOOLEAN] /\ closer' \in [Ends -> CloserStates]
        /\ used' \in [Ends -> SUBSET Ids]
        /\ ClosedFirst' /\ IdsRecorded' /\ ReservationsEnd'
    BY <1>2, <1>3, <1>6, CloseFrame
  <1>8. TypeOK'
    <2>1. UNCHANGED <<sid, aged, running, rx, job, jleg, draining, hello, keyed>>
      BY <1>2 DEF Deadline, CleanUp, RemoveWaitStream, endVars, reqVars, jobVars, slotVars, netVars
    <2>2. pc' \in [Requests -> RequestStates]
      <3>1. \E n \in RequestStates : pc' = [pc EXCEPT ![r] = n]
        BY DEF Deadline, Return, Goto, reqVars, RequestStates
      <3> QED BY <1>1, <3>1 DEF TypeOK
    <2>3. leg' \in [Requests -> Requests \cup {None}]
      BY <1>1, EndFacts DEF TypeOK, Deadline, reqVars
    <2>4. out' \in [Requests -> {"none", "ok", "failed", "interrupted"}]
      BY <1>1, EndFacts DEF TypeOK, Deadline, Return, reqVars
    <2>5. waiters' \subseteq Requests
      BY <1>1, EndFacts DEF TypeOK, Deadline, CleanUp, reqVars
    <2>6. slot' \in [Ids -> Requests \cup {None, "waiting"}]
      BY <1>1, EndFacts DEF TypeOK, Deadline, CleanUp, RemoveWaitStream, slotVars
    <2>7. pending' \subseteq Ids
      BY <1>1, EndFacts DEF TypeOK, Deadline, CleanUp, RemoveWaitStream, slotVars
    <2> QED BY <1>1, <1>5, <1>7, <2>1, <2>2, <2>3, <2>4, <2>5, <2>6, <2>7 DEF TypeOK
  <1>9. PlacesMatch'
    <2> SUFFICES ASSUME NEW q \in Requests
                 PROVE  Place(q)'
      BY DEF PlacesMatch
    <2>1. Place(q)
      BY DEF StreamInv, PlacesMatch
    <2> QED BY <1>1, <1>2, <2>1, KindFacts
           DEF Place,  TypeOK, Deadline, Return, Goto, reqVars, jobVars, InlineStates, Codes
  <1>10. LegsInPlace'
    <2>1. LegsInPlace
      BY DEF StreamInv
    <2>2. (hello \subseteq Here("acceptor"))'
      BY <1>1, <1>3, <2>1, EndFacts DEF LegsInPlace, TypeOK, Deadline, netVars
    <2>3. (\A i \in Ids : slot[i] \in Requests => LegOf(i, slot[i]))'
      BY <1>1, <1>3, <2>1, KindFacts
         DEF LegsInPlace, TypeOK, Deadline, CleanUp, RemoveWaitStream, slotVars
    <2>4. (\A q \in Requests : leg[q] # None => q \in Here("acceptor") /\ LegOf(sid[q], leg[q]))'
      BY <1>1, <1>2, <1>3, <2>1, EndFacts, KindFacts
         DEF LegsInPlace, TypeOK, Deadline, CleanUp, RemoveWaitStream, reqVars, jobVars, slotVars
    <2>5. (\A q \in Requests : jleg[q] # None => q \in Here("acceptor") /\ LegOf(sid[q], jleg[q]))'
      BY <1>1, <1>2, <1>3, <2>1, EndFacts, KindFacts
         DEF LegsInPlace, TypeOK, Deadline, CleanUp, RemoveWaitStream, reqVars, jobVars, slotVars
    <2> QED BY <2>2, <2>3, <2>4, <2>5 DEF LegsInPlace
  <1>11. KeyedIsHere'
    <2>1. KeyedIsHere /\ keyed' = keyed /\ TypeOK
      BY DEF StreamInv, Deadline, netVars
    <2> QED BY <1>3, <2>1 DEF KeyedIsHere, TypeOK
  <1> QED BY <1>3, <1>5, <1>8, <1>9, <1>10, <1>11, <1>7 DEF StreamInv

(* BuildLeg: build_reconnect_stream of an accepted Open preserves the invariant. *)
LEMMA BuildLegStep ==
    ASSUME StreamInv, NEW r \in Requests, BuildLeg(r)
    PROVE  StreamInv'
  <1>1. TypeOK /\ r \in Requests
    BY DEF StreamInv
  <1>2. sid' = sid /\ \A q \in Requests : (job'[q] = "none") <=> (job[q] = "none")
    BY <1>1
       DEF TypeOK, BuildLeg, Return, Goto, endVars, reqVars, jobVars, slotVars, netVars,
           InlineStates, JobStates
  <1>3. /\ \A f \in Ends : Here(f)' = Here(f)
        /\ \A i, l : LegOf(i, l)' = LegOf(i, l)
        /\ IdsDistinct'
    BY <1>2, Frame DEF StreamInv
  <1>4. ctl' = ctl
    BY DEF BuildLeg, Return, Goto, endVars, reqVars, jobVars, slotVars, netVars
  <1>5. ctl' \in [Ends -> Seq(Messages)] /\ MessagesMatch'
    BY <1>1, <1>2, <1>4, MessagesFrame DEF TypeOK, StreamInv
  <1>6. used' = used /\ ((closed' = closed /\ closer' = closer) \/ (\E f \in Ends : Closes(f)))
    BY EndFacts DEF BuildLeg, endVars, Closes
  <1>7. /\ closed' \in [Ends -> BOOLEAN] /\ closer' \in [Ends -> CloserStates]
        /\ used' \in [Ends -> SUBSET Ids]
        /\ ClosedFirst' /\ IdsRecorded' /\ ReservationsEnd'
    BY <1>2, <1>3, <1>6, CloseFrame
  <1>8. TypeOK'
    <2>1. UNCHANGED <<sid, aged, running, rx, leg, waiters, job, jleg, slot, pending, draining,
                     keyed>>
      BY <1>2 DEF BuildLeg, endVars, reqVars, jobVars, slotVars, netVars
    <2>2. pc' \in [Requests -> RequestStates]
      <3>1. \E n \in RequestStates : pc' = [pc EXCEPT ![r] = n]
        BY DEF BuildLeg, Return, Goto, reqVars, RequestStates
      <3> QED BY <1>1, <3>1 DEF TypeOK
    <2>3. out' \in [Requests -> {"none", "ok", "failed", "interrupted"}]
      BY <1>1, EndFacts DEF TypeOK, BuildLeg, Return, reqVars
    <2>4. hello' \subseteq Requests
      BY <1>1, EndFacts DEF TypeOK, BuildLeg, netVars
    <2> QED BY <1>1, <1>5, <1>7, <2>1, <2>2, <2>3, <2>4 DEF TypeOK
  <1>9. PlacesMatch'
    <2> SUFFICES ASSUME NEW q \in Requests
                 PROVE  Place(q)'
      BY DEF PlacesMatch
    <2>1. Place(q)
      BY DEF StreamInv, PlacesMatch
    <2> QED BY <1>1, <1>2, <2>1, KindFacts
           DEF Place,  TypeOK, BuildLeg, Return, Goto, reqVars, jobVars, InlineStates, Codes
  <1>10. LegsInPlace'
    <2>1. LegsInPlace
      BY DEF StreamInv
    <2>2. r \in Here("acceptor")
      BY <1>1, EndFacts, KindFacts DEF Here, StreamInv, PlacesMatch, Place, BuildLeg
    <2>3. (hello \subseteq Here("acceptor"))'
      BY <1>1, <1>3, <2>1, <2>2, EndFacts DEF LegsInPlace, TypeOK, BuildLeg, netVars
    <2>4. (\A i \in Ids : slot[i] \in Requests => LegOf(i, slot[i]))'
      BY <1>1, <1>3, <2>1, <2>2, KindFacts DEF LegsInPlace, TypeOK, BuildLeg, slotVars
    <2>5. (\A q \in Requests : leg[q] # None => q \in Here("acceptor") /\ LegOf(sid[q], leg[q]))'
      BY <1>1, <1>2, <1>3, <2>1, <2>2, EndFacts, KindFacts
         DEF LegsInPlace, TypeOK, BuildLeg, reqVars, jobVars, slotVars
    <2>6. (\A q \in Requests : jleg[q] # None => q \in Here("acceptor") /\ LegOf(sid[q], jleg[q]))'
      BY <1>1, <1>2, <1>3, <2>1, <2>2, EndFacts, KindFacts
         DEF LegsInPlace, TypeOK, BuildLeg, reqVars, jobVars, slotVars
    <2> QED BY <2>3, <2>4, <2>5, <2>6 DEF LegsInPlace
  <1>11. KeyedIsHere'
    <2>1. KeyedIsHere /\ keyed' = keyed /\ TypeOK
      BY DEF StreamInv, BuildLeg, netVars
    <2> QED BY <1>3, <2>1 DEF KeyedIsHere, TypeOK
  <1> QED BY <1>3, <1>5, <1>8, <1>9, <1>10, <1>11, <1>7 DEF StreamInv

(* OpenDone: the stream that an Open returns preserves the invariant. *)
LEMMA OpenDoneStep ==
    ASSUME StreamInv, NEW r \in Requests, OpenDone(r)
    PROVE  StreamInv'
  <1>1. TypeOK /\ r \in Requests
    BY DEF StreamInv
  <1>2. sid' = sid /\ \A q \in Requests : (job'[q] = "none") <=> (job[q] = "none")
    BY <1>1
       DEF TypeOK, OpenDone, Return, Goto, KeyStream, endVars, reqVars, jobVars, slotVars,
           netVars, InlineStates, JobStates
  <1>3. /\ \A f \in Ends : Here(f)' = Here(f)
        /\ \A i, l : LegOf(i, l)' = LegOf(i, l)
        /\ IdsDistinct'
    BY <1>2, Frame DEF StreamInv
  <1>4. ctl' = ctl
    BY DEF OpenDone, Return, Goto, KeyStream, endVars, reqVars, jobVars, slotVars, netVars
  <1>5. ctl' \in [Ends -> Seq(Messages)] /\ MessagesMatch'
    BY <1>1, <1>2, <1>4, MessagesFrame DEF TypeOK, StreamInv
  <1>6. used' = used /\ ((closed' = closed /\ closer' = closer) \/ (\E f \in Ends : Closes(f)))
    BY EndFacts DEF OpenDone, endVars, Closes
  <1>7. /\ closed' \in [Ends -> BOOLEAN] /\ closer' \in [Ends -> CloserStates]
        /\ used' \in [Ends -> SUBSET Ids]
        /\ ClosedFirst' /\ IdsRecorded' /\ ReservationsEnd'
    BY <1>2, <1>3, <1>6, CloseFrame
  <1>8. TypeOK'
    <2>1. UNCHANGED <<sid, aged, running, rx, leg, waiters, job, jleg, slot, pending, draining,
                     hello>>
      BY <1>2 DEF OpenDone, endVars, reqVars, jobVars, slotVars, netVars
    <2>2. pc' \in [Requests -> RequestStates]
      <3>1. \E n \in RequestStates : pc' = [pc EXCEPT ![r] = n]
        BY DEF OpenDone, Return, Goto, reqVars, RequestStates
      <3> QED BY <1>1, <3>1 DEF TypeOK
    <2>3. out' \in [Requests -> {"none", "ok", "failed", "interrupted"}]
      BY <1>1, EndFacts DEF TypeOK, OpenDone, Return, reqVars
    <2>4. keyed' \subseteq [end : Ends, req : Requests, leg : Requests]
      BY <1>1, EndFacts DEF TypeOK, OpenDone, KeyStream, netVars
    <2> QED BY <1>1, <1>5, <1>7, <2>1, <2>2, <2>3, <2>4 DEF TypeOK
  <1>9. PlacesMatch'
    <2> SUFFICES ASSUME NEW q \in Requests
                 PROVE  Place(q)'
      BY DEF PlacesMatch
    <2>1. Place(q)
      BY DEF StreamInv, PlacesMatch
    <2> QED BY <1>1, <1>2, <2>1, KindFacts
           DEF Place,  TypeOK, OpenDone, Return, Goto, reqVars, jobVars, InlineStates, Codes
  <1>10. LegsInPlace'
    <2>1. LegsInPlace /\ UNCHANGED <<hello, slot, leg, jleg>>
      BY DEF StreamInv, OpenDone, reqVars, jobVars, slotVars, netVars
    <2> QED BY <1>2, <1>3, <2>1, EndFacts DEF LegsInPlace
  <1>11. KeyedIsHere'
    BY <1>1, <1>2, <1>3, EndFacts
       DEF StreamInv, KeyedIsHere, IdsDistinct, LegsInPlace, LegOf, PlacesMatch, Place, Here,
           TypeOK, OpenDone, KeyStream, netVars, InlineStates
  <1> QED BY <1>3, <1>5, <1>8, <1>9, <1>10, <1>11, <1>7 DEF StreamInv

(* PollSlot: the poll of wait_ropen_stream that empties its slot preserves the invariant. *)
LEMMA PollSlotStep ==
    ASSUME StreamInv, NEW r \in Requests, PollSlot(r)
    PROVE  StreamInv'
  <1>1. TypeOK /\ r \in Requests
    BY DEF StreamInv
  <1>2. sid' = sid /\ \A q \in Requests : (job'[q] = "none") <=> (job[q] = "none")
    BY <1>1
       DEF TypeOK, PollSlot, Goto, endVars, reqVars, jobVars, slotVars, netVars, InlineStates,
           JobStates
  <1>3. /\ \A f \in Ends : Here(f)' = Here(f)
        /\ \A i, l : LegOf(i, l)' = LegOf(i, l)
        /\ IdsDistinct'
    BY <1>2, Frame DEF StreamInv
  <1>4. sid[r] \in Ids
    <2>1. Place(r)
      BY DEF StreamInv, PlacesMatch
    <2>2. sid[r] \in Ids \cup {None}
      BY <1>1 DEF TypeOK
    <2> QED BY <2>1, <2>2, KindFacts DEF Place, PollSlot, InlineStates
  <1>5. ctl' = ctl
    BY DEF PollSlot, Goto, endVars, reqVars, jobVars, slotVars, netVars
  <1>6. ctl' \in [Ends -> Seq(Messages)] /\ MessagesMatch'
    BY <1>1, <1>2, <1>5, MessagesFrame DEF TypeOK, StreamInv
  <1>7. used' = used /\ ((closed' = closed /\ closer' = closer) \/ (\E f \in Ends : Closes(f)))
    BY EndFacts DEF PollSlot, endVars, Closes
  <1>8. /\ closed' \in [Ends -> BOOLEAN] /\ closer' \in [Ends -> CloserStates]
        /\ used' \in [Ends -> SUBSET Ids]
        /\ ClosedFirst' /\ IdsRecorded' /\ ReservationsEnd'
    BY <1>2, <1>3, <1>7, CloseFrame
  <1>9. TypeOK'
    <2>1. UNCHANGED <<sid, aged, running, rx, out, waiters, job, jleg, pending, draining, hello,
                     keyed>>
      BY <1>2 DEF PollSlot, endVars, reqVars, jobVars, slotVars, netVars
    <2>2. pc' \in [Requests -> RequestStates]
      <3>1. \E n \in RequestStates : pc' = [pc EXCEPT ![r] = n]
        BY DEF PollSlot, Goto, reqVars, RequestStates
      <3> QED BY <1>1, <3>1 DEF TypeOK
    <2>3. leg' \in [Requests -> Requests \cup {None}]
      BY <1>4, <1>1, EndFacts DEF TypeOK, PollSlot, reqVars
    <2>4. slot' \in [Ids -> Requests \cup {None, "waiting"}]
      BY <1>4, <1>1, EndFacts DEF TypeOK, PollSlot, slotVars
    <2> QED BY <1>1, <1>6, <1>8, <2>1, <2>2, <2>3, <2>4 DEF TypeOK
  <1>10. PlacesMatch'
    <2> SUFFICES ASSUME NEW q \in Requests
                 PROVE  Place(q)'
      BY DEF PlacesMatch
    <2>1. Place(q)
      BY DEF StreamInv, PlacesMatch
    <2> QED BY <1>1, <1>2, <2>1, KindFacts
           DEF Place,  TypeOK, PollSlot, Goto, reqVars, jobVars, InlineStates, Codes
  <1>11. LegsInPlace'
    <2>1. LegsInPlace
      BY DEF StreamInv
    <2>2. r \in Here("acceptor")
      BY <1>1, <1>4, EndFacts, KindFacts DEF Here, StreamInv, PlacesMatch, Place, PollSlot
    <2>3. (hello \subseteq Here("acceptor"))'
      BY <1>1, <1>3, <2>1, <2>2, EndFacts DEF LegsInPlace, TypeOK, PollSlot, netVars
    <2>4. (\A i \in Ids : slot[i] \in Requests => LegOf(i, slot[i]))'
      BY <1>1, <1>3, <2>1, <2>2, <1>4, KindFacts DEF LegsInPlace, TypeOK, PollSlot, slotVars
    <2>5. (\A q \in Requests : leg[q] # None => q \in Here("acceptor") /\ LegOf(sid[q], leg[q]))'
      BY <1>1, <1>2, <1>3, <2>1, <2>2, <1>4, EndFacts, KindFacts
         DEF LegsInPlace, TypeOK, PollSlot, reqVars, jobVars, slotVars
    <2>6. (\A q \in Requests : jleg[q] # None => q \in Here("acceptor") /\ LegOf(sid[q], jleg[q]))'
      BY <1>1, <1>2, <1>3, <2>1, <2>2, <1>4, EndFacts, KindFacts
         DEF LegsInPlace, TypeOK, PollSlot, reqVars, jobVars, slotVars
    <2> QED BY <2>3, <2>4, <2>5, <2>6 DEF LegsInPlace
  <1>12. KeyedIsHere'
    <2>1. KeyedIsHere /\ keyed' = keyed /\ TypeOK
      BY DEF StreamInv, PollSlot, netVars
    <2> QED BY <1>3, <2>1 DEF KeyedIsHere, TypeOK
  <1> QED BY <1>3, <1>6, <1>9, <1>10, <1>11, <1>12, <1>8 DEF StreamInv

(* ROpenDone: the stream that an ROpen returns, or its interruption preserves the invariant. *)
LEMMA ROpenDoneStep ==
    ASSUME StreamInv, NEW r \in Requests, ROpenDone(r)
    PROVE  StreamInv'
  <1>1. TypeOK /\ r \in Requests
    BY DEF StreamInv
  <1>2. sid' = sid /\ \A q \in Requests : (job'[q] = "none") <=> (job[q] = "none")
    BY <1>1
       DEF TypeOK, ROpenDone, Return, Goto, KeyStream, endVars, reqVars, jobVars, slotVars,
           netVars, InlineStates, JobStates
  <1>3. /\ \A f \in Ends : Here(f)' = Here(f)
        /\ \A i, l : LegOf(i, l)' = LegOf(i, l)
        /\ IdsDistinct'
    BY <1>2, Frame DEF StreamInv
  <1>4. sid[r] \in Ids
    <2>1. Place(r)
      BY DEF StreamInv, PlacesMatch
    <2>2. sid[r] \in Ids \cup {None}
      BY <1>1 DEF TypeOK
    <2> QED BY <2>1, <2>2, KindFacts DEF Place, ROpenDone, InlineStates
  <1>5. ctl' = ctl
    BY DEF ROpenDone, Return, Goto, KeyStream, endVars, reqVars, jobVars, slotVars, netVars
  <1>6. ctl' \in [Ends -> Seq(Messages)] /\ MessagesMatch'
    BY <1>1, <1>2, <1>5, MessagesFrame DEF TypeOK, StreamInv
  <1>7. used' = used /\ ((closed' = closed /\ closer' = closer) \/ (\E f \in Ends : Closes(f)))
    BY EndFacts DEF ROpenDone, endVars, Closes
  <1>8. /\ closed' \in [Ends -> BOOLEAN] /\ closer' \in [Ends -> CloserStates]
        /\ used' \in [Ends -> SUBSET Ids]
        /\ ClosedFirst' /\ IdsRecorded' /\ ReservationsEnd'
    BY <1>2, <1>3, <1>7, CloseFrame
  <1>9. TypeOK'
    <2>1. UNCHANGED <<sid, aged, running, rx, leg, job, jleg, slot, draining, hello>>
      BY <1>2 DEF ROpenDone, endVars, reqVars, jobVars, slotVars, netVars
    <2>2. pc' \in [Requests -> RequestStates]
      <3>1. \E n \in RequestStates : pc' = [pc EXCEPT ![r] = n]
        BY DEF ROpenDone, Return, Goto, reqVars, RequestStates
      <3> QED BY <1>1, <3>1 DEF TypeOK
    <2>3. out' \in [Requests -> {"none", "ok", "failed", "interrupted"}]
      BY <1>1, EndFacts DEF TypeOK, ROpenDone, Return, reqVars
    <2>4. waiters' \subseteq Requests
      BY <1>1, EndFacts DEF TypeOK, ROpenDone, reqVars
    <2>5. pending' \subseteq Ids
      BY <1>4, <1>1, EndFacts DEF TypeOK, ROpenDone, slotVars
    <2>6. keyed' \subseteq [end : Ends, req : Requests, leg : Requests]
      BY <1>1, EndFacts DEF TypeOK, ROpenDone, KeyStream, netVars
    <2> QED BY <1>1, <1>6, <1>8, <2>1, <2>2, <2>3, <2>4, <2>5, <2>6 DEF TypeOK
  <1>10. PlacesMatch'
    <2> SUFFICES ASSUME NEW q \in Requests
                 PROVE  Place(q)'
      BY DEF PlacesMatch
    <2>1. Place(q)
      BY DEF StreamInv, PlacesMatch
    <2> QED BY <1>1, <1>2, <2>1, KindFacts
           DEF Place,  TypeOK, ROpenDone, Return, Goto, reqVars, jobVars, InlineStates, Codes
  <1>11. LegsInPlace'
    <2>1. LegsInPlace /\ UNCHANGED <<hello, slot, leg, jleg>>
      BY DEF StreamInv, ROpenDone, reqVars, jobVars, slotVars, netVars
    <2> QED BY <1>2, <1>3, <2>1, EndFacts DEF LegsInPlace
  <1>12. KeyedIsHere'
    BY <1>1, <1>2, <1>3, EndFacts
       DEF StreamInv, KeyedIsHere, IdsDistinct, LegsInPlace, LegOf, PlacesMatch, Place, Here,
           TypeOK, ROpenDone, KeyStream, netVars, InlineStates
  <1> QED BY <1>3, <1>6, <1>9, <1>10, <1>11, <1>12, <1>8 DEF StreamInv

(* AnswerWins: an ROpenResp that wins the select! preserves the invariant. *)
LEMMA AnswerWinsStep ==
    ASSUME StreamInv, NEW r \in Requests, AnswerWins(r)
    PROVE  StreamInv'
  <1>1. TypeOK /\ r \in Requests
    BY DEF StreamInv
  <1>2. sid' = sid /\ \A q \in Requests : (job'[q] = "none") <=> (job[q] = "none")
    BY <1>1
       DEF TypeOK, AnswerWins, RemoveWaitStream, Return, Goto, endVars, reqVars, jobVars,
           slotVars, netVars, InlineStates, JobStates
  <1>3. /\ \A f \in Ends : Here(f)' = Here(f)
        /\ \A i, l : LegOf(i, l)' = LegOf(i, l)
        /\ IdsDistinct'
    BY <1>2, Frame DEF StreamInv
  <1>4. sid[r] \in Ids
    <2>1. Place(r)
      BY DEF StreamInv, PlacesMatch
    <2>2. sid[r] \in Ids \cup {None}
      BY <1>1 DEF TypeOK
    <2> QED BY <2>1, <2>2, KindFacts DEF Place, AnswerWins, InlineStates
  <1>5. ctl' = ctl
    BY DEF AnswerWins, RemoveWaitStream, Return, Goto, endVars, reqVars, jobVars, slotVars, netVars
  <1>6. ctl' \in [Ends -> Seq(Messages)] /\ MessagesMatch'
    BY <1>1, <1>2, <1>5, MessagesFrame DEF TypeOK, StreamInv
  <1>7. used' = used /\ ((closed' = closed /\ closer' = closer) \/ (\E f \in Ends : Closes(f)))
    BY EndFacts DEF AnswerWins, endVars, Closes
  <1>8. /\ closed' \in [Ends -> BOOLEAN] /\ closer' \in [Ends -> CloserStates]
        /\ used' \in [Ends -> SUBSET Ids]
        /\ ClosedFirst' /\ IdsRecorded' /\ ReservationsEnd'
    BY <1>2, <1>3, <1>7, CloseFrame
  <1>9. TypeOK'
    <2>1. UNCHANGED <<sid, aged, running, rx, waiters, job, jleg, draining, hello, keyed>>
      BY <1>2 DEF AnswerWins, RemoveWaitStream, endVars, reqVars, jobVars, slotVars, netVars
    <2>2. pc' \in [Requests -> RequestStates]
      <3>1. \E n \in RequestStates : pc' = [pc EXCEPT ![r] = n]
        BY DEF AnswerWins, Return, Goto, reqVars, RequestStates
      <3> QED BY <1>1, <3>1 DEF TypeOK
    <2>3. leg' \in [Requests -> Requests \cup {None}]
      BY <1>4, <1>1, EndFacts DEF TypeOK, AnswerWins, reqVars
    <2>4. out' \in [Requests -> {"none", "ok", "failed", "interrupted"}]
      BY <1>1, EndFacts DEF TypeOK, AnswerWins, Return, reqVars
    <2>5. slot' \in [Ids -> Requests \cup {None, "waiting"}]
      BY <1>4, <1>1, EndFacts DEF TypeOK, AnswerWins, RemoveWaitStream, slotVars
    <2>6. pending' \subseteq Ids
      BY <1>4, <1>1, EndFacts DEF TypeOK, AnswerWins, RemoveWaitStream, slotVars
    <2> QED BY <1>1, <1>6, <1>8, <2>1, <2>2, <2>3, <2>4, <2>5, <2>6 DEF TypeOK
  <1>10. PlacesMatch'
    <2> SUFFICES ASSUME NEW q \in Requests
                 PROVE  Place(q)'
      BY DEF PlacesMatch
    <2>1. Place(q)
      BY DEF StreamInv, PlacesMatch
    <2> QED BY <1>1, <1>2, <2>1, KindFacts
           DEF Place,  TypeOK, AnswerWins, Return, Goto, reqVars, jobVars, InlineStates, Codes
  <1>11. LegsInPlace'
    <2>1. LegsInPlace
      BY DEF StreamInv
    <2>2. (hello \subseteq Here("acceptor"))'
      BY <1>1, <1>3, <2>1, EndFacts DEF LegsInPlace, TypeOK, AnswerWins, netVars
    <2>3. (\A i \in Ids : slot[i] \in Requests => LegOf(i, slot[i]))'
      BY <1>1, <1>3, <2>1, <1>4, KindFacts
         DEF LegsInPlace, TypeOK, AnswerWins, RemoveWaitStream, slotVars
    <2>4. (\A q \in Requests : leg[q] # None => q \in Here("acceptor") /\ LegOf(sid[q], leg[q]))'
      BY <1>1, <1>2, <1>3, <2>1, <1>4, EndFacts, KindFacts
         DEF LegsInPlace, TypeOK, AnswerWins, RemoveWaitStream, reqVars, jobVars, slotVars
    <2>5. (\A q \in Requests : jleg[q] # None => q \in Here("acceptor") /\ LegOf(sid[q], jleg[q]))'
      BY <1>1, <1>2, <1>3, <2>1, <1>4, EndFacts, KindFacts
         DEF LegsInPlace, TypeOK, AnswerWins, RemoveWaitStream, reqVars, jobVars, slotVars
    <2> QED BY <2>2, <2>3, <2>4, <2>5 DEF LegsInPlace
  <1>12. KeyedIsHere'
    <2>1. KeyedIsHere /\ keyed' = keyed /\ TypeOK
      BY DEF StreamInv, AnswerWins, netVars
    <2> QED BY <1>3, <2>1 DEF KeyedIsHere, TypeOK
  <1> QED BY <1>3, <1>6, <1>9, <1>10, <1>11, <1>12, <1>8 DEF StreamInv

(* DropRequest: a caller that drops its future preserves the invariant. *)
LEMMA DropRequestStep ==
    ASSUME StreamInv, NEW r \in Requests, DropRequest(r)
    PROVE  StreamInv'
  <1>1. TypeOK /\ r \in Requests
    BY DEF StreamInv
  <1>2. sid' = sid /\ \A q \in Requests : (job'[q] = "none") <=> (job[q] = "none")
    BY <1>1
       DEF TypeOK, DropRequest, Goto, InFlight, endVars, reqVars, jobVars, slotVars, netVars,
           InlineStates, JobStates
  <1>3. /\ \A f \in Ends : Here(f)' = Here(f)
        /\ \A i, l : LegOf(i, l)' = LegOf(i, l)
        /\ IdsDistinct'
    BY <1>2, Frame DEF StreamInv
  <1>4. ctl' = ctl
    BY DEF DropRequest, Goto, InFlight, endVars, reqVars, jobVars, slotVars, netVars
  <1>5. ctl' \in [Ends -> Seq(Messages)] /\ MessagesMatch'
    BY <1>1, <1>2, <1>4, MessagesFrame DEF TypeOK, StreamInv
  <1>6. used' = used /\ ((closed' = closed /\ closer' = closer) \/ (\E f \in Ends : Closes(f)))
    BY EndFacts DEF DropRequest, endVars, Closes
  <1>7. /\ closed' \in [Ends -> BOOLEAN] /\ closer' \in [Ends -> CloserStates]
        /\ used' \in [Ends -> SUBSET Ids]
        /\ ClosedFirst' /\ IdsRecorded' /\ ReservationsEnd'
    BY <1>2, <1>3, <1>6, CloseFrame
  <1>8. TypeOK'
    <2>1. UNCHANGED <<sid, aged, running, rx, leg, out, waiters, job, jleg, slot, pending,
                     draining, hello, keyed>>
      BY <1>2 DEF DropRequest, endVars, reqVars, jobVars, slotVars, netVars
    <2>2. pc' \in [Requests -> RequestStates]
      <3>1. \E n \in RequestStates : pc' = [pc EXCEPT ![r] = n]
        BY DEF DropRequest, Goto, reqVars, RequestStates
      <3> QED BY <1>1, <3>1 DEF TypeOK
    <2> QED BY <1>1, <1>5, <1>7, <2>1, <2>2 DEF TypeOK
  <1>9. PlacesMatch'
    <2> SUFFICES ASSUME NEW q \in Requests
                 PROVE  Place(q)'
      BY DEF PlacesMatch
    <2>1. Place(q)
      BY DEF StreamInv, PlacesMatch
    <2> QED BY <1>1, <1>2, <2>1, KindFacts
           DEF Place,  TypeOK, DropRequest, Goto, reqVars, jobVars, InlineStates, Codes
  <1>10. LegsInPlace'
    <2>1. LegsInPlace /\ UNCHANGED <<hello, slot, leg, jleg>>
      BY DEF StreamInv, DropRequest, reqVars, jobVars, slotVars, netVars
    <2> QED BY <1>2, <1>3, <2>1, EndFacts DEF LegsInPlace
  <1>11. KeyedIsHere'
    <2>1. KeyedIsHere /\ keyed' = keyed /\ TypeOK
      BY DEF StreamInv, DropRequest, netVars
    <2> QED BY <1>3, <2>1 DEF KeyedIsHere, TypeOK
  <1> QED BY <1>3, <1>5, <1>8, <1>9, <1>10, <1>11, <1>7 DEF StreamInv

(* ReadPing: a Ping answered by the read loop preserves the invariant. *)
LEMMA ReadPingStep ==
    ASSUME StreamInv, NEW e \in Ends, ReadPing(e)
    PROVE  StreamInv'
  <1>1. TypeOK /\ e \in Ends
    BY DEF StreamInv
  <1>2. sid' = sid /\ \A q \in Requests : (job'[q] = "none") <=> (job[q] = "none")
    BY <1>1
       DEF TypeOK, ReadPing, Reading, Consumed, endVars, reqVars, jobVars, slotVars, netVars,
           InlineStates, JobStates
  <1>3. /\ \A f \in Ends : Here(f)' = Here(f)
        /\ \A i, l : LegOf(i, l)' = LegOf(i, l)
        /\ IdsDistinct'
    BY <1>2, Frame DEF StreamInv
  <1> DEFINE m == Head(ctl[e])
             a == AnswerTo(m.req, "ok")
  <1>4. ctl[e] # <<>> /\ ctl' = Wire(Consumed(e), Other(e), a)
    BY DEF ReadPing, Reading
  <1>5. /\ Consumed(e) \in [Ends -> Seq(Messages)]
        /\ m \in Messages
        /\ \A f \in Ends : \A x \in Messages : Holds(Consumed(e)[f], x) => Holds(ctl[f], x)
    BY <1>1, <1>4, ConsumedFacts DEF TypeOK
  <1>6. m.req \in Requests /\ m.req \in Pings
    BY <1>5 DEF Messages, ReadPing
  <1>7. a \in Messages /\ a.kind = "answer" /\ a.req = m.req /\ a.code = "ok"
    BY <1>6, MessageFacts DEF Codes
  <1>8. Other(e) \in Ends /\ running \in [Ends -> BOOLEAN]
    BY <1>1, EndFacts DEF TypeOK
  <1>9. /\ ctl' \in [Ends -> Seq(Messages)]
        /\ \A f \in Ends : \A x \in Messages : Holds(ctl'[f], x) => Holds(ctl[f], x) \/ x = a
    <2> HIDE DEF m, a
    <2>1. /\ Wire(Consumed(e), Other(e), a) \in [Ends -> Seq(Messages)]
          /\ \A f \in Ends : \A x \in Messages :
               Holds(Wire(Consumed(e), Other(e), a)[f], x)
                 => Holds(Consumed(e)[f], x) \/ (f = Other(e) /\ x = a)
      BY <1>5, <1>7, <1>8, WireFacts
    <2> QED BY <1>4, <1>5, <2>1, Zenon
  <1>10. ctl' \in [Ends -> Seq(Messages)] /\ MessagesMatch'
    <2> HIDE DEF m, a
    <2>1. \A f \in Ends : MessageMatch(f, a)
      BY <1>6, <1>7, KindFacts DEF MessageMatch
    <2> QED BY <1>2, <1>9, <2>1, MessagesFrame DEF StreamInv
  <1>11. used' = used /\ ((closed' = closed /\ closer' = closer) \/ (\E f \in Ends : Closes(f)))
    BY EndFacts DEF ReadPing, endVars, Closes
  <1>12. /\ closed' \in [Ends -> BOOLEAN] /\ closer' \in [Ends -> CloserStates]
         /\ used' \in [Ends -> SUBSET Ids]
         /\ ClosedFirst' /\ IdsRecorded' /\ ReservationsEnd'
    BY <1>2, <1>3, <1>11, CloseFrame
  <1>13. TypeOK'
    <2>1. UNCHANGED <<sid, aged, running, pc, rx, leg, out, waiters, job, jleg, slot, pending,
                     draining, hello, keyed>>
      BY <1>2 DEF ReadPing, endVars, reqVars, jobVars, slotVars, netVars
    <2> QED BY <1>1, <1>10, <1>12, <2>1 DEF TypeOK
  <1>14. PlacesMatch'
    <2>1. PlacesMatch /\ UNCHANGED <<pc, sid, rx, job>>
      BY <1>2 DEF StreamInv, ReadPing, reqVars, jobVars
    <2> QED BY <2>1 DEF PlacesMatch, Place
  <1>15. LegsInPlace'
    <2>1. LegsInPlace /\ UNCHANGED <<hello, slot, leg, jleg>>
      BY DEF StreamInv, ReadPing, reqVars, jobVars, slotVars, netVars
    <2> QED BY <1>2, <1>3, <2>1, EndFacts DEF LegsInPlace
  <1>16. KeyedIsHere'
    <2>1. KeyedIsHere /\ keyed' = keyed /\ TypeOK
      BY DEF StreamInv, ReadPing, netVars
    <2> QED BY <1>3, <2>1 DEF KeyedIsHere, TypeOK
  <1> QED BY <1>3, <1>10, <1>13, <1>14, <1>15, <1>16, <1>12 DEF StreamInv

(* Refuse: a refusal of reserve_inbound_build preserves the invariant. *)
LEMMA RefuseStep ==
    ASSUME StreamInv, NEW e \in Ends, Refuse(e)
    PROVE  StreamInv'
  <1>1. TypeOK /\ e \in Ends
    BY DEF StreamInv
  <1>2. sid' = sid /\ \A q \in Requests : (job'[q] = "none") <=> (job[q] = "none")
    BY <1>1
       DEF TypeOK, Refuse, Reading, Consumed, endVars, reqVars, jobVars, slotVars, netVars,
           InlineStates, JobStates
  <1>3. /\ \A f \in Ends : Here(f)' = Here(f)
        /\ \A i, l : LegOf(i, l)' = LegOf(i, l)
        /\ IdsDistinct'
    BY <1>2, Frame DEF StreamInv
  <1> DEFINE m == Head(ctl[e])
             a == AnswerTo(m.req, "refused")
  <1>4. ctl[e] # <<>> /\ ctl' = Wire(Consumed(e), Other(e), a)
    BY DEF Refuse, Reading
  <1>5. /\ Consumed(e) \in [Ends -> Seq(Messages)]
        /\ m \in Messages
        /\ \A f \in Ends : \A x \in Messages : Holds(Consumed(e)[f], x) => Holds(ctl[f], x)
    BY <1>1, <1>4, ConsumedFacts DEF TypeOK
  <1>6. m.req \in Requests
    BY <1>5 DEF Messages, Refuse
  <1>7. a \in Messages /\ a.kind = "answer" /\ a.req = m.req /\ a.code = "refused"
    BY <1>6, MessageFacts DEF Codes
  <1>8. Other(e) \in Ends /\ running \in [Ends -> BOOLEAN]
    BY <1>1, EndFacts DEF TypeOK
  <1>9. /\ ctl' \in [Ends -> Seq(Messages)]
        /\ \A f \in Ends : \A x \in Messages : Holds(ctl'[f], x) => Holds(ctl[f], x) \/ x = a
    <2> HIDE DEF m, a
    <2>1. /\ Wire(Consumed(e), Other(e), a) \in [Ends -> Seq(Messages)]
          /\ \A f \in Ends : \A x \in Messages :
               Holds(Wire(Consumed(e), Other(e), a)[f], x)
                 => Holds(Consumed(e)[f], x) \/ (f = Other(e) /\ x = a)
      BY <1>5, <1>7, <1>8, WireFacts
    <2> QED BY <1>4, <1>5, <2>1, Zenon
  <1>10. ctl' \in [Ends -> Seq(Messages)] /\ MessagesMatch'
    <2> HIDE DEF m, a
    <2>1. \A f \in Ends : MessageMatch(f, a)
      BY <1>6, <1>7, KindFacts DEF MessageMatch
    <2> QED BY <1>2, <1>9, <2>1, MessagesFrame DEF StreamInv
  <1>11. used' = used /\ ((closed' = closed /\ closer' = closer) \/ (\E f \in Ends : Closes(f)))
    BY EndFacts DEF Refuse, endVars, Closes
  <1>12. /\ closed' \in [Ends -> BOOLEAN] /\ closer' \in [Ends -> CloserStates]
         /\ used' \in [Ends -> SUBSET Ids]
         /\ ClosedFirst' /\ IdsRecorded' /\ ReservationsEnd'
    BY <1>2, <1>3, <1>11, CloseFrame
  <1>13. TypeOK'
    <2>1. UNCHANGED <<sid, aged, running, pc, rx, leg, out, waiters, job, jleg, slot, pending,
                     draining, hello, keyed>>
      BY <1>2 DEF Refuse, endVars, reqVars, jobVars, slotVars, netVars
    <2> QED BY <1>1, <1>10, <1>12, <2>1 DEF TypeOK
  <1>14. PlacesMatch'
    <2>1. PlacesMatch /\ UNCHANGED <<pc, sid, rx, job>>
      BY <1>2 DEF StreamInv, Refuse, reqVars, jobVars
    <2> QED BY <2>1 DEF PlacesMatch, Place
  <1>15. LegsInPlace'
    <2>1. LegsInPlace /\ UNCHANGED <<hello, slot, leg, jleg>>
      BY DEF StreamInv, Refuse, reqVars, jobVars, slotVars, netVars
    <2> QED BY <1>2, <1>3, <2>1, EndFacts DEF LegsInPlace
  <1>16. KeyedIsHere'
    <2>1. KeyedIsHere /\ keyed' = keyed /\ TypeOK
      BY DEF StreamInv, Refuse, netVars
    <2> QED BY <1>3, <2>1 DEF KeyedIsHere, TypeOK
  <1> QED BY <1>3, <1>10, <1>13, <1>14, <1>15, <1>16, <1>12 DEF StreamInv

(* RefuseExhausted: a refusal that ends the key epoch preserves the invariant. *)
LEMMA RefuseExhaustedStep ==
    ASSUME StreamInv, NEW e \in Ends, RefuseExhausted(e)
    PROVE  StreamInv'
  <1>1. TypeOK /\ e \in Ends
    BY DEF StreamInv
  <1>2. sid' = sid /\ \A q \in Requests : (job'[q] = "none") <=> (job[q] = "none")
    BY <1>1
       DEF TypeOK, RefuseExhausted, Reading, Consumed, BeginClose, endVars, reqVars, jobVars,
           slotVars, netVars, InlineStates, JobStates
  <1>3. /\ \A f \in Ends : Here(f)' = Here(f)
        /\ \A i, l : LegOf(i, l)' = LegOf(i, l)
        /\ IdsDistinct'
    BY <1>2, Frame DEF StreamInv
  <1> DEFINE m == Head(ctl[e])
             a == AnswerTo(m.req, "exhausted")
  <1>4. ctl[e] # <<>> /\ ctl' = Wire(Consumed(e), Other(e), a)
    BY DEF RefuseExhausted, Reading
  <1>5. /\ Consumed(e) \in [Ends -> Seq(Messages)]
        /\ m \in Messages
        /\ \A f \in Ends : \A x \in Messages : Holds(Consumed(e)[f], x) => Holds(ctl[f], x)
    BY <1>1, <1>4, ConsumedFacts DEF TypeOK
  <1>6. m.req \in Requests
    BY <1>5 DEF Messages, RefuseExhausted
  <1>7. a \in Messages /\ a.kind = "answer" /\ a.req = m.req /\ a.code = "exhausted"
    BY <1>6, MessageFacts DEF Codes
  <1>8. Other(e) \in Ends /\ running \in [Ends -> BOOLEAN]
    BY <1>1, EndFacts DEF TypeOK
  <1>9. /\ ctl' \in [Ends -> Seq(Messages)]
        /\ \A f \in Ends : \A x \in Messages : Holds(ctl'[f], x) => Holds(ctl[f], x) \/ x = a
    <2> HIDE DEF m, a
    <2>1. /\ Wire(Consumed(e), Other(e), a) \in [Ends -> Seq(Messages)]
          /\ \A f \in Ends : \A x \in Messages :
               Holds(Wire(Consumed(e), Other(e), a)[f], x)
                 => Holds(Consumed(e)[f], x) \/ (f = Other(e) /\ x = a)
      BY <1>5, <1>7, <1>8, WireFacts
    <2> QED BY <1>4, <1>5, <2>1, Zenon
  <1>10. ctl' \in [Ends -> Seq(Messages)] /\ MessagesMatch'
    <2> HIDE DEF m, a
    <2>1. \A f \in Ends : MessageMatch(f, a)
      BY <1>6, <1>7, KindFacts DEF MessageMatch
    <2> QED BY <1>2, <1>9, <2>1, MessagesFrame DEF StreamInv
  <1>11. used' = used /\ ((closed' = closed /\ closer' = closer) \/ (\E f \in Ends : Closes(f)))
    BY EndFacts DEF RefuseExhausted, BeginClose, endVars, Closes
  <1>12. /\ closed' \in [Ends -> BOOLEAN] /\ closer' \in [Ends -> CloserStates]
         /\ used' \in [Ends -> SUBSET Ids]
         /\ ClosedFirst' /\ IdsRecorded' /\ ReservationsEnd'
    BY <1>2, <1>3, <1>11, CloseFrame
  <1>13. TypeOK'
    <2>1. UNCHANGED <<sid, aged, running, pc, rx, leg, out, waiters, job, jleg, slot, pending,
                     draining, hello, keyed>>
      BY <1>2 DEF RefuseExhausted, endVars, reqVars, jobVars, slotVars, netVars
    <2> QED BY <1>1, <1>10, <1>12, <2>1 DEF TypeOK
  <1>14. PlacesMatch'
    <2>1. PlacesMatch /\ UNCHANGED <<pc, sid, rx, job>>
      BY <1>2 DEF StreamInv, RefuseExhausted, reqVars, jobVars
    <2> QED BY <2>1 DEF PlacesMatch, Place
  <1>15. LegsInPlace'
    <2>1. LegsInPlace /\ UNCHANGED <<hello, slot, leg, jleg>>
      BY DEF StreamInv, RefuseExhausted, reqVars, jobVars, slotVars, netVars
    <2> QED BY <1>2, <1>3, <2>1, EndFacts DEF LegsInPlace
  <1>16. KeyedIsHere'
    <2>1. KeyedIsHere /\ keyed' = keyed /\ TypeOK
      BY DEF StreamInv, RefuseExhausted, netVars
    <2> QED BY <1>3, <2>1 DEF KeyedIsHere, TypeOK
  <1> QED BY <1>3, <1>10, <1>13, <1>14, <1>15, <1>16, <1>12 DEF StreamInv

(* RefuseAged: a request read after the age limit preserves the invariant. *)
LEMMA RefuseAgedStep ==
    ASSUME StreamInv, NEW e \in Ends, RefuseAged(e)
    PROVE  StreamInv'
  <1>1. TypeOK /\ e \in Ends
    BY DEF StreamInv
  <1>2. sid' = sid /\ \A q \in Requests : (job'[q] = "none") <=> (job[q] = "none")
    BY <1>1
       DEF TypeOK, RefuseAged, Reading, LeaveLoop, BeginClose, endVars, reqVars, jobVars,
           slotVars, netVars, InlineStates, JobStates
  <1>3. /\ \A f \in Ends : Here(f)' = Here(f)
        /\ \A i, l : LegOf(i, l)' = LegOf(i, l)
        /\ IdsDistinct'
    BY <1>2, Frame DEF StreamInv
  <1>4. ctl' = [ctl EXCEPT ![e] = <<>>]
    BY DEF RefuseAged, Reading, LeaveLoop, BeginClose, endVars, reqVars, jobVars, slotVars, netVars
  <1>5. /\ ctl' \in [Ends -> Seq(Messages)]
        /\ \A f \in Ends : \A x \in Messages : Holds(ctl'[f], x) => Holds(ctl[f], x)
    BY <1>1, <1>4, LeaveFacts DEF TypeOK, Ends
  <1>6. ctl' \in [Ends -> Seq(Messages)] /\ MessagesMatch'
    BY <1>1, <1>2, <1>5, MessagesFrame DEF StreamInv
  <1>7. used' = used /\ ((closed' = closed /\ closer' = closer) \/ (\E f \in Ends : Closes(f)))
    BY EndFacts DEF RefuseAged, LeaveLoop, BeginClose, endVars, Closes
  <1>8. /\ closed' \in [Ends -> BOOLEAN] /\ closer' \in [Ends -> CloserStates]
        /\ used' \in [Ends -> SUBSET Ids]
        /\ ClosedFirst' /\ IdsRecorded' /\ ReservationsEnd'
    BY <1>2, <1>3, <1>7, CloseFrame
  <1>9. TypeOK'
    <2>1. UNCHANGED <<sid, aged, pc, rx, leg, out, waiters, job, jleg, slot, pending, draining,
                     hello, keyed>>
      BY <1>2 DEF RefuseAged, LeaveLoop, endVars, reqVars, jobVars, slotVars, netVars
    <2>2. running' \in [Ends -> BOOLEAN]
      BY <1>1, EndFacts DEF TypeOK, RefuseAged, LeaveLoop, endVars
    <2> QED BY <1>1, <1>6, <1>8, <2>1, <2>2 DEF TypeOK
  <1>10. PlacesMatch'
    <2>1. PlacesMatch /\ UNCHANGED <<pc, sid, rx, job>>
      BY <1>2 DEF StreamInv, RefuseAged, reqVars, jobVars
    <2> QED BY <2>1 DEF PlacesMatch, Place
  <1>11. LegsInPlace'
    <2>1. LegsInPlace /\ UNCHANGED <<hello, slot, leg, jleg>>
      BY DEF StreamInv, RefuseAged, reqVars, jobVars, slotVars, netVars
    <2> QED BY <1>2, <1>3, <2>1, EndFacts DEF LegsInPlace
  <1>12. KeyedIsHere'
    <2>1. KeyedIsHere /\ keyed' = keyed /\ TypeOK
      BY DEF StreamInv, RefuseAged, netVars
    <2> QED BY <1>3, <2>1 DEF KeyedIsHere, TypeOK
  <1> QED BY <1>3, <1>6, <1>9, <1>10, <1>11, <1>12, <1>8 DEF StreamInv

(* ReadAnswer: an OpenResp, ROpenResp or Pong read by the loop preserves the invariant. *)
LEMMA ReadAnswerStep ==
    ASSUME StreamInv, NEW e \in Ends, ReadAnswer(e)
    PROVE  StreamInv'
  <1>1. TypeOK /\ e \in Ends
    BY DEF StreamInv
  <1>2. sid' = sid /\ \A q \in Requests : (job'[q] = "none") <=> (job[q] = "none")
    BY <1>1
       DEF TypeOK, ReadAnswer, Reading, Consumed, BeginClose, endVars, reqVars, jobVars, slotVars,
           netVars, InlineStates, JobStates
  <1>3. /\ \A f \in Ends : Here(f)' = Here(f)
        /\ \A i, l : LegOf(i, l)' = LegOf(i, l)
        /\ IdsDistinct'
    BY <1>2, Frame DEF StreamInv
  <1>4. /\ Head(ctl[e]) \in Messages
        /\ Head(ctl[e]).req \in Requests
        /\ Head(ctl[e]).code \in Codes
        /\ MessageMatch(e, Head(ctl[e]))
    <2>1. Head(ctl[e]) \in Messages /\ Holds(ctl[e], Head(ctl[e]))
      BY <1>1, ConsumedFacts DEF TypeOK, ReadAnswer, Reading
    <2>2. MessageMatch(e, Head(ctl[e]))
      BY <2>1 DEF StreamInv, MessagesMatch
    <2> QED BY <2>1, <2>2 DEF Messages, Codes
  <1>5. ctl[e] # <<>> /\ ctl' = Consumed(e)
    BY DEF ReadAnswer, Reading
  <1>6. /\ ctl' \in [Ends -> Seq(Messages)]
        /\ \A f \in Ends : \A x \in Messages : Holds(ctl'[f], x) => Holds(ctl[f], x)
    BY <1>1, <1>5, ConsumedFacts DEF TypeOK
  <1>7. ctl' \in [Ends -> Seq(Messages)] /\ MessagesMatch'
    BY <1>1, <1>2, <1>6, MessagesFrame DEF StreamInv
  <1>8. used' = used /\ ((closed' = closed /\ closer' = closer) \/ (\E f \in Ends : Closes(f)))
    BY EndFacts DEF ReadAnswer, BeginClose, endVars, Closes
  <1>9. /\ closed' \in [Ends -> BOOLEAN] /\ closer' \in [Ends -> CloserStates]
        /\ used' \in [Ends -> SUBSET Ids]
        /\ ClosedFirst' /\ IdsRecorded' /\ ReservationsEnd'
    BY <1>2, <1>3, <1>8, CloseFrame
  <1>10. TypeOK'
    <2>1. UNCHANGED <<sid, aged, running, pc, leg, out, job, jleg, slot, pending, draining, hello,
                     keyed>>
      BY <1>2 DEF ReadAnswer, endVars, reqVars, jobVars, slotVars, netVars
    <2>2. rx' \in [Requests -> Codes \cup {"empty", "dropped"}]
      BY <1>4, <1>1, EndFacts DEF TypeOK, ReadAnswer, reqVars
    <2>3. waiters' \subseteq Requests
      BY <1>1, EndFacts DEF TypeOK, ReadAnswer, reqVars
    <2> QED BY <1>1, <1>7, <1>9, <2>1, <2>2, <2>3 DEF TypeOK
  <1>11. PlacesMatch'
    <2> SUFFICES ASSUME NEW q \in Requests
                 PROVE  Place(q)'
      BY DEF PlacesMatch
    <2>1. Place(q)
      BY DEF StreamInv, PlacesMatch
    <2> QED BY <1>4, <1>1, <1>2, <2>1, KindFacts
           DEF Place, MessageMatch,  TypeOK, ReadAnswer, reqVars, jobVars, InlineStates, Codes
  <1>12. LegsInPlace'
    <2>1. LegsInPlace /\ UNCHANGED <<hello, slot, leg, jleg>>
      BY DEF StreamInv, ReadAnswer, reqVars, jobVars, slotVars, netVars
    <2> QED BY <1>2, <1>3, <2>1, EndFacts DEF LegsInPlace
  <1>13. KeyedIsHere'
    <2>1. KeyedIsHere /\ keyed' = keyed /\ TypeOK
      BY DEF StreamInv, ReadAnswer, netVars
    <2> QED BY <1>3, <2>1 DEF KeyedIsHere, TypeOK
  <1> QED BY <1>3, <1>7, <1>10, <1>11, <1>12, <1>13, <1>9 DEF StreamInv

(* LoopEnds: the end of the read loop behind the closed flag or a FIN preserves the invariant. *)
LEMMA LoopEndsStep ==
    ASSUME StreamInv, NEW e \in Ends, LoopEnds(e)
    PROVE  StreamInv'
  <1>1. TypeOK /\ e \in Ends
    BY DEF StreamInv
  <1>2. sid' = sid /\ \A q \in Requests : (job'[q] = "none") <=> (job[q] = "none")
    BY <1>1
       DEF TypeOK, LoopEnds, LeaveLoop, BeginClose, endVars, reqVars, jobVars, slotVars, netVars,
           InlineStates, JobStates
  <1>3. /\ \A f \in Ends : Here(f)' = Here(f)
        /\ \A i, l : LegOf(i, l)' = LegOf(i, l)
        /\ IdsDistinct'
    BY <1>2, Frame DEF StreamInv
  <1>4. ctl' = [ctl EXCEPT ![e] = <<>>]
    BY DEF LoopEnds, LeaveLoop, BeginClose, endVars, reqVars, jobVars, slotVars, netVars
  <1>5. /\ ctl' \in [Ends -> Seq(Messages)]
        /\ \A f \in Ends : \A x \in Messages : Holds(ctl'[f], x) => Holds(ctl[f], x)
    BY <1>1, <1>4, LeaveFacts DEF TypeOK, Ends
  <1>6. ctl' \in [Ends -> Seq(Messages)] /\ MessagesMatch'
    BY <1>1, <1>2, <1>5, MessagesFrame DEF StreamInv
  <1>7. used' = used /\ ((closed' = closed /\ closer' = closer) \/ (\E f \in Ends : Closes(f)))
    BY EndFacts DEF LoopEnds, LeaveLoop, BeginClose, endVars, Closes
  <1>8. /\ closed' \in [Ends -> BOOLEAN] /\ closer' \in [Ends -> CloserStates]
        /\ used' \in [Ends -> SUBSET Ids]
        /\ ClosedFirst' /\ IdsRecorded' /\ ReservationsEnd'
    BY <1>2, <1>3, <1>7, CloseFrame
  <1>9. TypeOK'
    <2>1. UNCHANGED <<sid, aged, pc, rx, leg, out, waiters, job, jleg, slot, pending, draining,
                     hello, keyed>>
      BY <1>2 DEF LoopEnds, LeaveLoop, endVars, reqVars, jobVars, slotVars, netVars
    <2>2. running' \in [Ends -> BOOLEAN]
      BY <1>1, EndFacts DEF TypeOK, LoopEnds, LeaveLoop, endVars
    <2> QED BY <1>1, <1>6, <1>8, <2>1, <2>2 DEF TypeOK
  <1>10. PlacesMatch'
    <2>1. PlacesMatch /\ UNCHANGED <<pc, sid, rx, job>>
      BY <1>2 DEF StreamInv, LoopEnds, reqVars, jobVars
    <2> QED BY <2>1 DEF PlacesMatch, Place
  <1>11. LegsInPlace'
    <2>1. LegsInPlace /\ UNCHANGED <<hello, slot, leg, jleg>>
      BY DEF StreamInv, LoopEnds, reqVars, jobVars, slotVars, netVars
    <2> QED BY <1>2, <1>3, <2>1, EndFacts DEF LegsInPlace
  <1>12. KeyedIsHere'
    <2>1. KeyedIsHere /\ keyed' = keyed /\ TypeOK
      BY DEF StreamInv, LoopEnds, netVars
    <2> QED BY <1>3, <2>1 DEF KeyedIsHere, TypeOK
  <1> QED BY <1>3, <1>6, <1>9, <1>10, <1>11, <1>12, <1>8 DEF StreamInv

(* LoopFails: the end of the read loop after an error preserves the invariant. *)
LEMMA LoopFailsStep ==
    ASSUME StreamInv, NEW e \in Ends, LoopFails(e)
    PROVE  StreamInv'
  <1>1. TypeOK /\ e \in Ends
    BY DEF StreamInv
  <1>2. sid' = sid /\ \A q \in Requests : (job'[q] = "none") <=> (job[q] = "none")
    BY <1>1
       DEF TypeOK, LoopFails, LeaveLoop, BeginClose, endVars, reqVars, jobVars, slotVars, netVars,
           InlineStates, JobStates
  <1>3. /\ \A f \in Ends : Here(f)' = Here(f)
        /\ \A i, l : LegOf(i, l)' = LegOf(i, l)
        /\ IdsDistinct'
    BY <1>2, Frame DEF StreamInv
  <1>4. ctl' = [ctl EXCEPT ![e] = <<>>]
    BY DEF LoopFails, LeaveLoop, BeginClose, endVars, reqVars, jobVars, slotVars, netVars
  <1>5. /\ ctl' \in [Ends -> Seq(Messages)]
        /\ \A f \in Ends : \A x \in Messages : Holds(ctl'[f], x) => Holds(ctl[f], x)
    BY <1>1, <1>4, LeaveFacts DEF TypeOK, Ends
  <1>6. ctl' \in [Ends -> Seq(Messages)] /\ MessagesMatch'
    BY <1>1, <1>2, <1>5, MessagesFrame DEF StreamInv
  <1>7. used' = used /\ ((closed' = closed /\ closer' = closer) \/ (\E f \in Ends : Closes(f)))
    BY EndFacts DEF LoopFails, LeaveLoop, BeginClose, endVars, Closes
  <1>8. /\ closed' \in [Ends -> BOOLEAN] /\ closer' \in [Ends -> CloserStates]
        /\ used' \in [Ends -> SUBSET Ids]
        /\ ClosedFirst' /\ IdsRecorded' /\ ReservationsEnd'
    BY <1>2, <1>3, <1>7, CloseFrame
  <1>9. TypeOK'
    <2>1. UNCHANGED <<sid, aged, pc, rx, leg, out, waiters, job, jleg, slot, pending, draining,
                     hello, keyed>>
      BY <1>2 DEF LoopFails, LeaveLoop, endVars, reqVars, jobVars, slotVars, netVars
    <2>2. running' \in [Ends -> BOOLEAN]
      BY <1>1, EndFacts DEF TypeOK, LoopFails, LeaveLoop, endVars
    <2> QED BY <1>1, <1>6, <1>8, <2>1, <2>2 DEF TypeOK
  <1>10. PlacesMatch'
    <2>1. PlacesMatch /\ UNCHANGED <<pc, sid, rx, job>>
      BY <1>2 DEF StreamInv, LoopFails, reqVars, jobVars
    <2> QED BY <2>1 DEF PlacesMatch, Place
  <1>11. LegsInPlace'
    <2>1. LegsInPlace /\ UNCHANGED <<hello, slot, leg, jleg>>
      BY DEF StreamInv, LoopFails, reqVars, jobVars, slotVars, netVars
    <2> QED BY <1>2, <1>3, <2>1, EndFacts DEF LegsInPlace
  <1>12. KeyedIsHere'
    <2>1. KeyedIsHere /\ keyed' = keyed /\ TypeOK
      BY DEF StreamInv, LoopFails, netVars
    <2> QED BY <1>3, <2>1 DEF KeyedIsHere, TypeOK
  <1> QED BY <1>3, <1>6, <1>9, <1>10, <1>11, <1>12, <1>8 DEF StreamInv

(* OpenSlot: the first lock of on_open's registration preserves the invariant. *)
LEMMA OpenSlotStep ==
    ASSUME StreamInv, NEW r \in Requests, OpenSlot(r)
    PROVE  StreamInv'
  <1>1. TypeOK /\ r \in Requests
    BY DEF StreamInv
  <1>2. sid' = sid /\ \A q \in Requests : (job'[q] = "none") <=> (job[q] = "none")
    BY <1>1
       DEF TypeOK, OpenSlot, JobTo, LeaveLoop, BeginClose, endVars, reqVars, jobVars, slotVars,
           netVars, InlineStates, JobStates
  <1>3. /\ \A f \in Ends : Here(f)' = Here(f)
        /\ \A i, l : LegOf(i, l)' = LegOf(i, l)
        /\ IdsDistinct'
    BY <1>2, Frame DEF StreamInv
  <1>4. sid[r] \in Ids
    <2>1. Place(r)
      BY DEF StreamInv, PlacesMatch
    <2>2. sid[r] \in Ids \cup {None}
      BY <1>1 DEF TypeOK
    <2> QED BY <2>1, <2>2, KindFacts DEF Place, OpenSlot, InlineStates
  <1>5. ctl' = ctl \/ ctl' = [ctl EXCEPT !["acceptor"] = <<>>]
    BY DEF OpenSlot, JobTo, LeaveLoop, BeginClose, endVars, reqVars, jobVars, slotVars, netVars
  <1>6. /\ ctl' \in [Ends -> Seq(Messages)]
        /\ \A f \in Ends : \A x \in Messages : Holds(ctl'[f], x) => Holds(ctl[f], x)
    BY <1>1, <1>5, LeaveFacts DEF TypeOK, Ends
  <1>7. ctl' \in [Ends -> Seq(Messages)] /\ MessagesMatch'
    BY <1>1, <1>2, <1>6, MessagesFrame DEF StreamInv
  <1>8. used' = used /\ ((closed' = closed /\ closer' = closer) \/ (\E f \in Ends : Closes(f)))
    BY EndFacts DEF OpenSlot, LeaveLoop, BeginClose, endVars, Closes
  <1>9. /\ closed' \in [Ends -> BOOLEAN] /\ closer' \in [Ends -> CloserStates]
        /\ used' \in [Ends -> SUBSET Ids]
        /\ ClosedFirst' /\ IdsRecorded' /\ ReservationsEnd'
    BY <1>2, <1>3, <1>8, CloseFrame
  <1>10. TypeOK'
    <2>1. UNCHANGED <<sid, aged, pc, rx, leg, out, waiters, jleg, pending, draining, hello, keyed>>
      BY <1>2 DEF OpenSlot, LeaveLoop, endVars, reqVars, jobVars, slotVars, netVars
    <2>2. running' \in [Ends -> BOOLEAN]
      BY <1>1, EndFacts DEF TypeOK, OpenSlot, LeaveLoop, endVars
    <2>3. job' \in [Requests -> JobStates]
      <3>1. \E n \in JobStates : job' = [job EXCEPT ![r] = n]
        BY DEF OpenSlot, JobTo, jobVars, JobStates, InlineStates
      <3> QED BY <1>1, <3>1 DEF TypeOK
    <2>4. slot' \in [Ids -> Requests \cup {None, "waiting"}]
      <3>1. slot' = slot \/ slot' = [slot EXCEPT ![sid[r]] = "waiting"]
        BY DEF OpenSlot, slotVars
      <3> QED BY <1>4, <1>1, <3>1 DEF TypeOK
    <2> QED BY <1>1, <1>7, <1>9, <2>1, <2>2, <2>3, <2>4 DEF TypeOK
  <1>11. PlacesMatch'
    <2> SUFFICES ASSUME NEW q \in Requests
                 PROVE  Place(q)'
      BY DEF PlacesMatch
    <2>1. Place(q)
      BY DEF StreamInv, PlacesMatch
    <2> QED BY <1>1, <1>2, <2>1, KindFacts
           DEF Place,  TypeOK, OpenSlot, JobTo, reqVars, jobVars, InlineStates, Codes
  <1>12. LegsInPlace'
    <2>1. LegsInPlace
      BY DEF StreamInv
    <2>2. (hello \subseteq Here("acceptor"))'
      BY <1>1, <1>3, <2>1, EndFacts DEF LegsInPlace, TypeOK, OpenSlot, netVars
    <2>3. (\A i \in Ids : slot[i] \in Requests => LegOf(i, slot[i]))'
      BY <1>1, <1>3, <2>1, <1>4, KindFacts DEF LegsInPlace, TypeOK, OpenSlot, slotVars
    <2>4. (\A q \in Requests : leg[q] # None => q \in Here("acceptor") /\ LegOf(sid[q], leg[q]))'
      BY <1>1, <1>2, <1>3, <2>1, <1>4, EndFacts, KindFacts
         DEF LegsInPlace, TypeOK, OpenSlot, reqVars, jobVars, slotVars
    <2>5. (\A q \in Requests : jleg[q] # None => q \in Here("acceptor") /\ LegOf(sid[q], jleg[q]))'
      BY <1>1, <1>2, <1>3, <2>1, <1>4, EndFacts, KindFacts
         DEF LegsInPlace, TypeOK, OpenSlot, reqVars, jobVars, slotVars
    <2> QED BY <2>2, <2>3, <2>4, <2>5 DEF LegsInPlace
  <1>13. KeyedIsHere'
    <2>1. KeyedIsHere /\ keyed' = keyed /\ TypeOK
      BY DEF StreamInv, OpenSlot, netVars
    <2> QED BY <1>3, <2>1 DEF KeyedIsHere, TypeOK
  <1> QED BY <1>3, <1>7, <1>10, <1>11, <1>12, <1>13, <1>9 DEF StreamInv

(* OpenKey: the second lock of on_open's registration preserves the invariant. *)
LEMMA OpenKeyStep ==
    ASSUME StreamInv, NEW r \in Requests, OpenKey(r)
    PROVE  StreamInv'
  <1>1. TypeOK /\ r \in Requests
    BY DEF StreamInv
  <1>2. sid' = sid /\ \A q \in Requests : (job'[q] = "none") <=> (job[q] = "none")
    BY <1>1
       DEF TypeOK, OpenKey, JobTo, endVars, reqVars, jobVars, slotVars, netVars, InlineStates,
           JobStates
  <1>3. /\ \A f \in Ends : Here(f)' = Here(f)
        /\ \A i, l : LegOf(i, l)' = LegOf(i, l)
        /\ IdsDistinct'
    BY <1>2, Frame DEF StreamInv
  <1>4. sid[r] \in Ids
    <2>1. Place(r)
      BY DEF StreamInv, PlacesMatch
    <2>2. sid[r] \in Ids \cup {None}
      BY <1>1 DEF TypeOK
    <2> QED BY <2>1, <2>2, KindFacts DEF Place, OpenKey, InlineStates
  <1>5. ctl' = ctl
    BY DEF OpenKey, JobTo, endVars, reqVars, jobVars, slotVars, netVars
  <1>6. ctl' \in [Ends -> Seq(Messages)] /\ MessagesMatch'
    BY <1>1, <1>2, <1>5, MessagesFrame DEF TypeOK, StreamInv
  <1>7. used' = used /\ ((closed' = closed /\ closer' = closer) \/ (\E f \in Ends : Closes(f)))
    BY EndFacts DEF OpenKey, endVars, Closes
  <1>8. /\ closed' \in [Ends -> BOOLEAN] /\ closer' \in [Ends -> CloserStates]
        /\ used' \in [Ends -> SUBSET Ids]
        /\ ClosedFirst' /\ IdsRecorded' /\ ReservationsEnd'
    BY <1>2, <1>3, <1>7, CloseFrame
  <1>9. TypeOK'
    <2>1. UNCHANGED <<sid, aged, running, pc, rx, leg, out, waiters, jleg, slot, draining, hello,
                     keyed>>
      BY <1>2 DEF OpenKey, endVars, reqVars, jobVars, slotVars, netVars
    <2>2. job' \in [Requests -> JobStates]
      <3>1. \E n \in JobStates : job' = [job EXCEPT ![r] = n]
        BY DEF OpenKey, JobTo, jobVars, JobStates, InlineStates
      <3> QED BY <1>1, <3>1 DEF TypeOK
    <2>3. pending' \subseteq Ids
      BY <1>4, <1>1, EndFacts DEF TypeOK, OpenKey, slotVars
    <2> QED BY <1>1, <1>6, <1>8, <2>1, <2>2, <2>3 DEF TypeOK
  <1>10. PlacesMatch'
    <2> SUFFICES ASSUME NEW q \in Requests
                 PROVE  Place(q)'
      BY DEF PlacesMatch
    <2>1. Place(q)
      BY DEF StreamInv, PlacesMatch
    <2> QED BY <1>1, <1>2, <2>1, KindFacts
           DEF Place,  TypeOK, OpenKey, JobTo, reqVars, jobVars, InlineStates, Codes
  <1>11. LegsInPlace'
    <2>1. LegsInPlace /\ UNCHANGED <<hello, slot, leg, jleg>>
      BY DEF StreamInv, OpenKey, reqVars, jobVars, slotVars, netVars
    <2> QED BY <1>2, <1>3, <2>1, EndFacts DEF LegsInPlace
  <1>12. KeyedIsHere'
    <2>1. KeyedIsHere /\ keyed' = keyed /\ TypeOK
      BY DEF StreamInv, OpenKey, netVars
    <2> QED BY <1>3, <2>1 DEF KeyedIsHere, TypeOK
  <1> QED BY <1>3, <1>6, <1>9, <1>10, <1>11, <1>12, <1>8 DEF StreamInv

(* OpenUnkey: the clean-up of on_open behind a close() preserves the invariant. *)
LEMMA OpenUnkeyStep ==
    ASSUME StreamInv, NEW r \in Requests, OpenUnkey(r)
    PROVE  StreamInv'
  <1>1. TypeOK /\ r \in Requests
    BY DEF StreamInv
  <1>2. sid' = sid /\ \A q \in Requests : (job'[q] = "none") <=> (job[q] = "none")
    BY <1>1
       DEF TypeOK, OpenUnkey, JobTo, LeaveLoop, BeginClose, RemoveWaitStream, endVars, reqVars,
           jobVars, slotVars, netVars, InlineStates, JobStates
  <1>3. /\ \A f \in Ends : Here(f)' = Here(f)
        /\ \A i, l : LegOf(i, l)' = LegOf(i, l)
        /\ IdsDistinct'
    BY <1>2, Frame DEF StreamInv
  <1>4. sid[r] \in Ids
    <2>1. Place(r)
      BY DEF StreamInv, PlacesMatch
    <2>2. sid[r] \in Ids \cup {None}
      BY <1>1 DEF TypeOK
    <2> QED BY <2>1, <2>2, KindFacts DEF Place, OpenUnkey, InlineStates
  <1>5. ctl' = [ctl EXCEPT !["acceptor"] = <<>>]
    BY
       DEF OpenUnkey, JobTo, LeaveLoop, BeginClose, RemoveWaitStream, endVars, reqVars, jobVars,
           slotVars, netVars
  <1>6. /\ ctl' \in [Ends -> Seq(Messages)]
        /\ \A f \in Ends : \A x \in Messages : Holds(ctl'[f], x) => Holds(ctl[f], x)
    BY <1>1, <1>5, LeaveFacts DEF TypeOK, Ends
  <1>7. ctl' \in [Ends -> Seq(Messages)] /\ MessagesMatch'
    BY <1>1, <1>2, <1>6, MessagesFrame DEF StreamInv
  <1>8. used' = used /\ ((closed' = closed /\ closer' = closer) \/ (\E f \in Ends : Closes(f)))
    BY EndFacts DEF OpenUnkey, LeaveLoop, BeginClose, endVars, Closes
  <1>9. /\ closed' \in [Ends -> BOOLEAN] /\ closer' \in [Ends -> CloserStates]
        /\ used' \in [Ends -> SUBSET Ids]
        /\ ClosedFirst' /\ IdsRecorded' /\ ReservationsEnd'
    BY <1>2, <1>3, <1>8, CloseFrame
  <1>10. TypeOK'
    <2>1. UNCHANGED <<sid, aged, pc, rx, leg, out, waiters, jleg, draining, hello, keyed>>
      BY <1>2
         DEF OpenUnkey, LeaveLoop, RemoveWaitStream, endVars, reqVars, jobVars, slotVars, netVars
    <2>2. running' \in [Ends -> BOOLEAN]
      BY <1>1, EndFacts DEF TypeOK, OpenUnkey, LeaveLoop, endVars
    <2>3. job' \in [Requests -> JobStates]
      <3>1. \E n \in JobStates : job' = [job EXCEPT ![r] = n]
        BY DEF OpenUnkey, JobTo, jobVars, JobStates, InlineStates
      <3> QED BY <1>1, <3>1 DEF TypeOK
    <2>4. slot' \in [Ids -> Requests \cup {None, "waiting"}]
      BY <1>4, <1>1, EndFacts DEF TypeOK, OpenUnkey, RemoveWaitStream, slotVars
    <2>5. pending' \subseteq Ids
      BY <1>4, <1>1, EndFacts DEF TypeOK, OpenUnkey, RemoveWaitStream, slotVars
    <2> QED BY <1>1, <1>7, <1>9, <2>1, <2>2, <2>3, <2>4, <2>5 DEF TypeOK
  <1>11. PlacesMatch'
    <2> SUFFICES ASSUME NEW q \in Requests
                 PROVE  Place(q)'
      BY DEF PlacesMatch
    <2>1. Place(q)
      BY DEF StreamInv, PlacesMatch
    <2> QED BY <1>1, <1>2, <2>1, KindFacts
           DEF Place,  TypeOK, OpenUnkey, JobTo, reqVars, jobVars, InlineStates, Codes
  <1>12. LegsInPlace'
    <2>1. LegsInPlace
      BY DEF StreamInv
    <2>2. (hello \subseteq Here("acceptor"))'
      BY <1>1, <1>3, <2>1, EndFacts DEF LegsInPlace, TypeOK, OpenUnkey, netVars
    <2>3. (\A i \in Ids : slot[i] \in Requests => LegOf(i, slot[i]))'
      BY <1>1, <1>3, <2>1, <1>4, KindFacts
         DEF LegsInPlace, TypeOK, OpenUnkey, RemoveWaitStream, slotVars
    <2>4. (\A q \in Requests : leg[q] # None => q \in Here("acceptor") /\ LegOf(sid[q], leg[q]))'
      BY <1>1, <1>2, <1>3, <2>1, <1>4, EndFacts, KindFacts
         DEF LegsInPlace, TypeOK, OpenUnkey, RemoveWaitStream, reqVars, jobVars, slotVars
    <2>5. (\A q \in Requests : jleg[q] # None => q \in Here("acceptor") /\ LegOf(sid[q], jleg[q]))'
      BY <1>1, <1>2, <1>3, <2>1, <1>4, EndFacts, KindFacts
         DEF LegsInPlace, TypeOK, OpenUnkey, RemoveWaitStream, reqVars, jobVars, slotVars
    <2> QED BY <2>2, <2>3, <2>4, <2>5 DEF LegsInPlace
  <1>13. KeyedIsHere'
    <2>1. KeyedIsHere /\ keyed' = keyed /\ TypeOK
      BY DEF StreamInv, OpenUnkey, netVars
    <2> QED BY <1>3, <2>1 DEF KeyedIsHere, TypeOK
  <1> QED BY <1>3, <1>7, <1>10, <1>11, <1>12, <1>13, <1>9 DEF StreamInv

(* OpenRespond: the OpenResp of on_open preserves the invariant. *)
LEMMA OpenRespondStep ==
    ASSUME StreamInv, NEW r \in Requests, OpenRespond(r)
    PROVE  StreamInv'
  <1>1. TypeOK /\ r \in Requests
    BY DEF StreamInv
  <1>2. sid' = sid /\ \A q \in Requests : (job'[q] = "none") <=> (job[q] = "none")
    BY <1>1
       DEF TypeOK, OpenRespond, JobTo, LeaveLoop, BeginClose, endVars, reqVars, jobVars, slotVars,
           netVars, InlineStates, JobStates
  <1>3. /\ \A f \in Ends : Here(f)' = Here(f)
        /\ \A i, l : LegOf(i, l)' = LegOf(i, l)
        /\ IdsDistinct'
    BY <1>2, Frame DEF StreamInv
  <1>4. \/ ctl' = Wire(ctl, "dialer", AnswerTo(r, "ok"))
        \/ ctl' = [ctl EXCEPT !["acceptor"] = <<>>]
    BY DEF OpenRespond, JobTo, LeaveLoop, BeginClose, endVars, reqVars, jobVars, slotVars, netVars
  <1>5. /\ AnswerTo(r, "ok") \in Messages
        /\ AnswerTo(r, "ok").kind = "answer"
        /\ AnswerTo(r, "ok").req = r
    BY MessageFacts DEF Codes
  <1>6. job[r] # "none" /\ "dialer" \in Ends /\ "acceptor" \in Ends
    BY DEF OpenRespond, Ends
  <1>7. /\ ctl' \in [Ends -> Seq(Messages)]
        /\ \A f \in Ends : \A x \in Messages :
             Holds(ctl'[f], x) => Holds(ctl[f], x) \/ x = AnswerTo(r, "ok")
    <2>1. CASE ctl' = Wire(ctl, "dialer", AnswerTo(r, "ok"))
      <3>1. ctl \in [Ends -> Seq(Messages)] /\ running \in [Ends -> BOOLEAN]
        BY <1>1 DEF TypeOK
      <3> DEFINE a == AnswerTo(r, "ok")
                 g == "dialer"
      <3>2. a \in Messages /\ g \in Ends /\ ctl' = Wire(ctl, g, a)
        BY <1>5, <1>6, <2>1
      <3> HIDE DEF a, g
      <3>3. /\ ctl' \in [Ends -> Seq(Messages)]
            /\ \A f \in Ends : \A x \in Messages : Holds(ctl'[f], x) => Holds(ctl[f], x) \/ x = a
        BY <3>1, <3>2, WireFacts
      <3> QED BY <3>3 DEF a
    <2>2. CASE ctl' = [ctl EXCEPT !["acceptor"] = <<>>]
      BY <1>1, <1>6, <2>2, LeaveFacts DEF TypeOK
    <2> QED BY <1>4, <2>1, <2>2
  <1>8. ctl' \in [Ends -> Seq(Messages)] /\ MessagesMatch'
    <2>1. \A f \in Ends : MessageMatch(f, AnswerTo(r, "ok"))
      BY <1>5, <1>6 DEF MessageMatch
    <2> QED BY <1>2, <1>7, <2>1, MessagesFrame DEF StreamInv
  <1>9. used' = used /\ ((closed' = closed /\ closer' = closer) \/ (\E f \in Ends : Closes(f)))
    BY EndFacts DEF OpenRespond, LeaveLoop, BeginClose, endVars, Closes
  <1>10. /\ closed' \in [Ends -> BOOLEAN] /\ closer' \in [Ends -> CloserStates]
         /\ used' \in [Ends -> SUBSET Ids]
         /\ ClosedFirst' /\ IdsRecorded' /\ ReservationsEnd'
    BY <1>2, <1>3, <1>9, CloseFrame
  <1>11. TypeOK'
    <2>1. UNCHANGED <<sid, aged, pc, rx, leg, out, waiters, jleg, slot, pending, draining, hello,
                     keyed>>
      BY <1>2 DEF OpenRespond, LeaveLoop, endVars, reqVars, jobVars, slotVars, netVars
    <2>2. running' \in [Ends -> BOOLEAN]
      BY <1>1, EndFacts DEF TypeOK, OpenRespond, LeaveLoop, endVars
    <2>3. job' \in [Requests -> JobStates]
      <3>1. \E n \in JobStates : job' = [job EXCEPT ![r] = n]
        BY DEF OpenRespond, JobTo, jobVars, JobStates, InlineStates
      <3> QED BY <1>1, <3>1 DEF TypeOK
    <2> QED BY <1>1, <1>8, <1>10, <2>1, <2>2, <2>3 DEF TypeOK
  <1>12. PlacesMatch'
    <2> SUFFICES ASSUME NEW q \in Requests
                 PROVE  Place(q)'
      BY DEF PlacesMatch
    <2>1. Place(q)
      BY DEF StreamInv, PlacesMatch
    <2> QED BY <1>1, <1>2, <2>1, KindFacts
           DEF Place,  TypeOK, OpenRespond, JobTo, reqVars, jobVars, InlineStates, Codes
  <1>13. LegsInPlace'
    <2>1. LegsInPlace /\ UNCHANGED <<hello, slot, leg, jleg>>
      BY DEF StreamInv, OpenRespond, reqVars, jobVars, slotVars, netVars
    <2> QED BY <1>2, <1>3, <2>1, EndFacts DEF LegsInPlace
  <1>14. KeyedIsHere'
    <2>1. KeyedIsHere /\ keyed' = keyed /\ TypeOK
      BY DEF StreamInv, OpenRespond, netVars
    <2> QED BY <1>3, <2>1 DEF KeyedIsHere, TypeOK
  <1> QED BY <1>3, <1>8, <1>11, <1>12, <1>13, <1>14, <1>10 DEF StreamInv

(* FinishPoll: the wait of finish_open preserves the invariant. *)
LEMMA FinishPollStep ==
    ASSUME StreamInv, NEW r \in Requests, FinishPoll(r)
    PROVE  StreamInv'
  <1>1. TypeOK /\ r \in Requests
    BY DEF StreamInv
  <1>2. sid' = sid /\ \A q \in Requests : (job'[q] = "none") <=> (job[q] = "none")
    BY <1>1
       DEF TypeOK, FinishPoll, JobTo, endVars, reqVars, jobVars, slotVars, netVars, InlineStates,
           JobStates
  <1>3. /\ \A f \in Ends : Here(f)' = Here(f)
        /\ \A i, l : LegOf(i, l)' = LegOf(i, l)
        /\ IdsDistinct'
    BY <1>2, Frame DEF StreamInv
  <1>4. sid[r] \in Ids
    <2>1. Place(r)
      BY DEF StreamInv, PlacesMatch
    <2>2. sid[r] \in Ids \cup {None}
      BY <1>1 DEF TypeOK
    <2> QED BY <2>1, <2>2, KindFacts DEF Place, FinishPoll, InlineStates
  <1>5. ctl' = ctl
    BY DEF FinishPoll, JobTo, endVars, reqVars, jobVars, slotVars, netVars
  <1>6. ctl' \in [Ends -> Seq(Messages)] /\ MessagesMatch'
    BY <1>1, <1>2, <1>5, MessagesFrame DEF TypeOK, StreamInv
  <1>7. used' = used /\ ((closed' = closed /\ closer' = closer) \/ (\E f \in Ends : Closes(f)))
    BY EndFacts DEF FinishPoll, endVars, Closes
  <1>8. /\ closed' \in [Ends -> BOOLEAN] /\ closer' \in [Ends -> CloserStates]
        /\ used' \in [Ends -> SUBSET Ids]
        /\ ClosedFirst' /\ IdsRecorded' /\ ReservationsEnd'
    BY <1>2, <1>3, <1>7, CloseFrame
  <1>9. TypeOK'
    <2>1. UNCHANGED <<sid, aged, running, pc, rx, leg, out, waiters, pending, draining, hello,
                     keyed>>
      BY <1>2 DEF FinishPoll, endVars, reqVars, slotVars, netVars
    <2>2. job' \in [Requests -> JobStates]
      <3>1. \E n \in JobStates : job' = [job EXCEPT ![r] = n]
        BY DEF FinishPoll, JobTo, jobVars, JobStates, InlineStates
      <3> QED BY <1>1, <3>1 DEF TypeOK
    <2>3. jleg' \in [Requests -> Requests \cup {None}]
      BY <1>4, <1>1, EndFacts DEF TypeOK, FinishPoll, jobVars
    <2>4. slot' \in [Ids -> Requests \cup {None, "waiting"}]
      BY <1>4, <1>1, EndFacts DEF TypeOK, FinishPoll, slotVars
    <2> QED BY <1>1, <1>6, <1>8, <2>1, <2>2, <2>3, <2>4 DEF TypeOK
  <1>10. PlacesMatch'
    <2> SUFFICES ASSUME NEW q \in Requests
                 PROVE  Place(q)'
      BY DEF PlacesMatch
    <2>1. Place(q)
      BY DEF StreamInv, PlacesMatch
    <2> QED BY <1>1, <1>2, <2>1, KindFacts
           DEF Place,  TypeOK, FinishPoll, JobTo, reqVars, jobVars, InlineStates, Codes
  <1>11. LegsInPlace'
    <2>1. LegsInPlace
      BY DEF StreamInv
    <2>2. r \in Here("acceptor")
      BY <1>1, <1>4, EndFacts, KindFacts DEF Here, StreamInv, PlacesMatch, Place, FinishPoll
    <2>3. (hello \subseteq Here("acceptor"))'
      BY <1>1, <1>3, <2>1, <2>2, EndFacts DEF LegsInPlace, TypeOK, FinishPoll, netVars
    <2>4. (\A i \in Ids : slot[i] \in Requests => LegOf(i, slot[i]))'
      BY <1>1, <1>3, <2>1, <2>2, <1>4, KindFacts DEF LegsInPlace, TypeOK, FinishPoll, slotVars
    <2>5. (\A q \in Requests : leg[q] # None => q \in Here("acceptor") /\ LegOf(sid[q], leg[q]))'
      BY <1>1, <1>2, <1>3, <2>1, <2>2, <1>4, EndFacts, KindFacts
         DEF LegsInPlace, TypeOK, FinishPoll, reqVars, jobVars, slotVars
    <2>6. (\A q \in Requests : jleg[q] # None => q \in Here("acceptor") /\ LegOf(sid[q], jleg[q]))'
      BY <1>1, <1>2, <1>3, <2>1, <2>2, <1>4, EndFacts, KindFacts
         DEF LegsInPlace, TypeOK, FinishPoll, reqVars, jobVars, slotVars
    <2> QED BY <2>3, <2>4, <2>5, <2>6 DEF LegsInPlace
  <1>12. KeyedIsHere'
    <2>1. KeyedIsHere /\ keyed' = keyed /\ TypeOK
      BY DEF StreamInv, FinishPoll, netVars
    <2> QED BY <1>3, <2>1 DEF KeyedIsHere, TypeOK
  <1> QED BY <1>3, <1>6, <1>9, <1>10, <1>11, <1>12, <1>8 DEF StreamInv

(* FinishOpen: the end of finish_open preserves the invariant. *)
LEMMA FinishOpenStep ==
    ASSUME StreamInv, NEW r \in Requests, FinishOpen(r)
    PROVE  StreamInv'
  <1>1. TypeOK /\ r \in Requests
    BY DEF StreamInv
  <1>2. sid' = sid /\ \A q \in Requests : (job'[q] = "none") <=> (job[q] = "none")
    BY <1>1
       DEF TypeOK, FinishOpen, JobTo, KeyStream, endVars, reqVars, jobVars, slotVars, netVars,
           InlineStates, JobStates
  <1>3. /\ \A f \in Ends : Here(f)' = Here(f)
        /\ \A i, l : LegOf(i, l)' = LegOf(i, l)
        /\ IdsDistinct'
    BY <1>2, Frame DEF StreamInv
  <1>4. sid[r] \in Ids
    <2>1. Place(r)
      BY DEF StreamInv, PlacesMatch
    <2>2. sid[r] \in Ids \cup {None}
      BY <1>1 DEF TypeOK
    <2> QED BY <2>1, <2>2, KindFacts DEF Place, FinishOpen, InlineStates
  <1>5. ctl' = ctl
    BY DEF FinishOpen, JobTo, KeyStream, endVars, reqVars, jobVars, slotVars, netVars
  <1>6. ctl' \in [Ends -> Seq(Messages)] /\ MessagesMatch'
    BY <1>1, <1>2, <1>5, MessagesFrame DEF TypeOK, StreamInv
  <1>7. used' = used /\ ((closed' = closed /\ closer' = closer) \/ (\E f \in Ends : Closes(f)))
    BY EndFacts DEF FinishOpen, endVars, Closes
  <1>8. /\ closed' \in [Ends -> BOOLEAN] /\ closer' \in [Ends -> CloserStates]
        /\ used' \in [Ends -> SUBSET Ids]
        /\ ClosedFirst' /\ IdsRecorded' /\ ReservationsEnd'
    BY <1>2, <1>3, <1>7, CloseFrame
  <1>9. TypeOK'
    <2>1. UNCHANGED <<sid, aged, running, pc, rx, leg, out, waiters, jleg, slot, draining, hello>>
      BY <1>2 DEF FinishOpen, endVars, reqVars, jobVars, slotVars, netVars
    <2>2. job' \in [Requests -> JobStates]
      <3>1. \E n \in JobStates : job' = [job EXCEPT ![r] = n]
        BY DEF FinishOpen, JobTo, jobVars, JobStates, InlineStates
      <3> QED BY <1>1, <3>1 DEF TypeOK
    <2>3. pending' \subseteq Ids
      BY <1>4, <1>1, EndFacts DEF TypeOK, FinishOpen, slotVars
    <2>4. keyed' \subseteq [end : Ends, req : Requests, leg : Requests]
      BY <1>1, EndFacts DEF TypeOK, FinishOpen, KeyStream, netVars
    <2> QED BY <1>1, <1>6, <1>8, <2>1, <2>2, <2>3, <2>4 DEF TypeOK
  <1>10. PlacesMatch'
    <2> SUFFICES ASSUME NEW q \in Requests
                 PROVE  Place(q)'
      BY DEF PlacesMatch
    <2>1. Place(q)
      BY DEF StreamInv, PlacesMatch
    <2> QED BY <1>1, <1>2, <2>1, KindFacts
           DEF Place,  TypeOK, FinishOpen, JobTo, reqVars, jobVars, InlineStates, Codes
  <1>11. LegsInPlace'
    <2>1. LegsInPlace /\ UNCHANGED <<hello, slot, leg, jleg>>
      BY DEF StreamInv, FinishOpen, reqVars, jobVars, slotVars, netVars
    <2> QED BY <1>2, <1>3, <2>1, EndFacts DEF LegsInPlace
  <1>12. KeyedIsHere'
    BY <1>1, <1>2, <1>3, EndFacts
       DEF StreamInv, KeyedIsHere, IdsDistinct, LegsInPlace, LegOf, PlacesMatch, Place, Here,
           TypeOK, FinishOpen, KeyStream, netVars, InlineStates
  <1> QED BY <1>3, <1>6, <1>9, <1>10, <1>11, <1>12, <1>8 DEF StreamInv

(* ROpenBuild: the leg that on_ropen builds preserves the invariant. *)
LEMMA ROpenBuildStep ==
    ASSUME StreamInv, NEW r \in Requests, ROpenBuild(r)
    PROVE  StreamInv'
  <1>1. TypeOK /\ r \in Requests
    BY DEF StreamInv
  <1>2. sid' = sid /\ \A q \in Requests : (job'[q] = "none") <=> (job[q] = "none")
    BY <1>1
       DEF TypeOK, ROpenBuild, JobTo, endVars, reqVars, jobVars, slotVars, netVars, InlineStates,
           JobStates
  <1>3. /\ \A f \in Ends : Here(f)' = Here(f)
        /\ \A i, l : LegOf(i, l)' = LegOf(i, l)
        /\ IdsDistinct'
    BY <1>2, Frame DEF StreamInv
  <1>4. \/ ctl' = Wire(ctl, "acceptor", AnswerTo(r, "refused"))
        \/ ctl' = ctl
    BY DEF ROpenBuild, JobTo, endVars, reqVars, jobVars, slotVars, netVars
  <1>5. /\ AnswerTo(r, "refused") \in Messages
        /\ AnswerTo(r, "refused").kind = "answer"
        /\ AnswerTo(r, "refused").req = r
    BY MessageFacts DEF Codes
  <1>6. job[r] # "none" /\ "acceptor" \in Ends /\ "acceptor" \in Ends
    BY DEF ROpenBuild, Ends
  <1>7. /\ ctl' \in [Ends -> Seq(Messages)]
        /\ \A f \in Ends : \A x \in Messages :
             Holds(ctl'[f], x) => Holds(ctl[f], x) \/ x = AnswerTo(r, "refused")
    <2>1. CASE ctl' = Wire(ctl, "acceptor", AnswerTo(r, "refused"))
      <3>1. ctl \in [Ends -> Seq(Messages)] /\ running \in [Ends -> BOOLEAN]
        BY <1>1 DEF TypeOK
      <3> DEFINE a == AnswerTo(r, "refused")
                 g == "acceptor"
      <3>2. a \in Messages /\ g \in Ends /\ ctl' = Wire(ctl, g, a)
        BY <1>5, <1>6, <2>1
      <3> HIDE DEF a, g
      <3>3. /\ ctl' \in [Ends -> Seq(Messages)]
            /\ \A f \in Ends : \A x \in Messages : Holds(ctl'[f], x) => Holds(ctl[f], x) \/ x = a
        BY <3>1, <3>2, WireFacts
      <3> QED BY <3>3 DEF a
    <2>2. CASE ctl' = ctl
      BY <1>1, <1>6, <2>2, LeaveFacts DEF TypeOK
    <2> QED BY <1>4, <2>1, <2>2
  <1>8. ctl' \in [Ends -> Seq(Messages)] /\ MessagesMatch'
    <2>1. \A f \in Ends : MessageMatch(f, AnswerTo(r, "refused"))
      BY <1>5, <1>6 DEF MessageMatch
    <2> QED BY <1>2, <1>7, <2>1, MessagesFrame DEF StreamInv
  <1>9. used' = used /\ ((closed' = closed /\ closer' = closer) \/ (\E f \in Ends : Closes(f)))
    BY EndFacts DEF ROpenBuild, endVars, Closes
  <1>10. /\ closed' \in [Ends -> BOOLEAN] /\ closer' \in [Ends -> CloserStates]
         /\ used' \in [Ends -> SUBSET Ids]
         /\ ClosedFirst' /\ IdsRecorded' /\ ReservationsEnd'
    BY <1>2, <1>3, <1>9, CloseFrame
  <1>11. TypeOK'
    <2>1. UNCHANGED <<sid, aged, running, pc, rx, leg, out, waiters, jleg, slot, pending,
                     draining, keyed>>
      BY <1>2 DEF ROpenBuild, endVars, reqVars, jobVars, slotVars, netVars
    <2>2. job' \in [Requests -> JobStates]
      <3>1. \E n \in JobStates : job' = [job EXCEPT ![r] = n]
        BY DEF ROpenBuild, JobTo, jobVars, JobStates, InlineStates
      <3> QED BY <1>1, <3>1 DEF TypeOK
    <2>3. hello' \subseteq Requests
      BY <1>1, EndFacts DEF TypeOK, ROpenBuild, netVars
    <2> QED BY <1>1, <1>8, <1>10, <2>1, <2>2, <2>3 DEF TypeOK
  <1>12. PlacesMatch'
    <2> SUFFICES ASSUME NEW q \in Requests
                 PROVE  Place(q)'
      BY DEF PlacesMatch
    <2>1. Place(q)
      BY DEF StreamInv, PlacesMatch
    <2> QED BY <1>1, <1>2, <2>1, KindFacts
           DEF Place,  TypeOK, ROpenBuild, JobTo, reqVars, jobVars, InlineStates, Codes
  <1>13. LegsInPlace'
    <2>1. LegsInPlace
      BY DEF StreamInv
    <2>2. r \in Here("acceptor")
      BY <1>1, EndFacts, KindFacts DEF Here, StreamInv, PlacesMatch, Place, ROpenBuild
    <2>3. (hello \subseteq Here("acceptor"))'
      BY <1>1, <1>3, <2>1, <2>2, EndFacts DEF LegsInPlace, TypeOK, ROpenBuild, netVars
    <2>4. (\A i \in Ids : slot[i] \in Requests => LegOf(i, slot[i]))'
      BY <1>1, <1>3, <2>1, <2>2, KindFacts DEF LegsInPlace, TypeOK, ROpenBuild, slotVars
    <2>5. (\A q \in Requests : leg[q] # None => q \in Here("acceptor") /\ LegOf(sid[q], leg[q]))'
      BY <1>1, <1>2, <1>3, <2>1, <2>2, EndFacts, KindFacts
         DEF LegsInPlace, TypeOK, ROpenBuild, reqVars, jobVars, slotVars
    <2>6. (\A q \in Requests : jleg[q] # None => q \in Here("acceptor") /\ LegOf(sid[q], jleg[q]))'
      BY <1>1, <1>2, <1>3, <2>1, <2>2, EndFacts, KindFacts
         DEF LegsInPlace, TypeOK, ROpenBuild, reqVars, jobVars, slotVars
    <2> QED BY <2>3, <2>4, <2>5, <2>6 DEF LegsInPlace
  <1>14. KeyedIsHere'
    <2>1. KeyedIsHere /\ keyed' = keyed /\ TypeOK
      BY DEF StreamInv, ROpenBuild, netVars
    <2> QED BY <1>3, <2>1 DEF KeyedIsHere, TypeOK
  <1> QED BY <1>3, <1>8, <1>11, <1>12, <1>13, <1>14, <1>10 DEF StreamInv

(* ROpenRespond: the ROpenResp of on_ropen preserves the invariant. *)
LEMMA ROpenRespondStep ==
    ASSUME StreamInv, NEW r \in Requests, ROpenRespond(r)
    PROVE  StreamInv'
  <1>1. TypeOK /\ r \in Requests
    BY DEF StreamInv
  <1>2. sid' = sid /\ \A q \in Requests : (job'[q] = "none") <=> (job[q] = "none")
    BY <1>1
       DEF TypeOK, ROpenRespond, JobTo, endVars, reqVars, jobVars, slotVars, netVars,
           InlineStates, JobStates
  <1>3. /\ \A f \in Ends : Here(f)' = Here(f)
        /\ \A i, l : LegOf(i, l)' = LegOf(i, l)
        /\ IdsDistinct'
    BY <1>2, Frame DEF StreamInv
  <1>4. \/ ctl' = Wire(ctl, "acceptor", AnswerTo(r, "ok"))
        \/ ctl' = ctl
    BY DEF ROpenRespond, JobTo, endVars, reqVars, jobVars, slotVars, netVars
  <1>5. /\ AnswerTo(r, "ok") \in Messages
        /\ AnswerTo(r, "ok").kind = "answer"
        /\ AnswerTo(r, "ok").req = r
    BY MessageFacts DEF Codes
  <1>6. job[r] # "none" /\ "acceptor" \in Ends /\ "acceptor" \in Ends
    BY DEF ROpenRespond, Ends
  <1>7. /\ ctl' \in [Ends -> Seq(Messages)]
        /\ \A f \in Ends : \A x \in Messages :
             Holds(ctl'[f], x) => Holds(ctl[f], x) \/ x = AnswerTo(r, "ok")
    <2>1. CASE ctl' = Wire(ctl, "acceptor", AnswerTo(r, "ok"))
      <3>1. ctl \in [Ends -> Seq(Messages)] /\ running \in [Ends -> BOOLEAN]
        BY <1>1 DEF TypeOK
      <3> DEFINE a == AnswerTo(r, "ok")
                 g == "acceptor"
      <3>2. a \in Messages /\ g \in Ends /\ ctl' = Wire(ctl, g, a)
        BY <1>5, <1>6, <2>1
      <3> HIDE DEF a, g
      <3>3. /\ ctl' \in [Ends -> Seq(Messages)]
            /\ \A f \in Ends : \A x \in Messages : Holds(ctl'[f], x) => Holds(ctl[f], x) \/ x = a
        BY <3>1, <3>2, WireFacts
      <3> QED BY <3>3 DEF a
    <2>2. CASE ctl' = ctl
      BY <1>1, <1>6, <2>2, LeaveFacts DEF TypeOK
    <2> QED BY <1>4, <2>1, <2>2
  <1>8. ctl' \in [Ends -> Seq(Messages)] /\ MessagesMatch'
    <2>1. \A f \in Ends : MessageMatch(f, AnswerTo(r, "ok"))
      BY <1>5, <1>6 DEF MessageMatch
    <2> QED BY <1>2, <1>7, <2>1, MessagesFrame DEF StreamInv
  <1>9. used' = used /\ ((closed' = closed /\ closer' = closer) \/ (\E f \in Ends : Closes(f)))
    BY EndFacts DEF ROpenRespond, endVars, Closes
  <1>10. /\ closed' \in [Ends -> BOOLEAN] /\ closer' \in [Ends -> CloserStates]
         /\ used' \in [Ends -> SUBSET Ids]
         /\ ClosedFirst' /\ IdsRecorded' /\ ReservationsEnd'
    BY <1>2, <1>3, <1>9, CloseFrame
  <1>11. TypeOK'
    <2>1. UNCHANGED <<sid, aged, running, pc, rx, leg, out, waiters, jleg, slot, pending,
                     draining, hello, keyed>>
      BY <1>2 DEF ROpenRespond, endVars, reqVars, jobVars, slotVars, netVars
    <2>2. job' \in [Requests -> JobStates]
      <3>1. \E n \in JobStates : job' = [job EXCEPT ![r] = n]
        BY DEF ROpenRespond, JobTo, jobVars, JobStates, InlineStates
      <3> QED BY <1>1, <3>1 DEF TypeOK
    <2> QED BY <1>1, <1>8, <1>10, <2>1, <2>2 DEF TypeOK
  <1>12. PlacesMatch'
    <2> SUFFICES ASSUME NEW q \in Requests
                 PROVE  Place(q)'
      BY DEF PlacesMatch
    <2>1. Place(q)
      BY DEF StreamInv, PlacesMatch
    <2> QED BY <1>1, <1>2, <2>1, KindFacts
           DEF Place,  TypeOK, ROpenRespond, JobTo, reqVars, jobVars, InlineStates, Codes
  <1>13. LegsInPlace'
    <2>1. LegsInPlace /\ UNCHANGED <<hello, slot, leg, jleg>>
      BY DEF StreamInv, ROpenRespond, reqVars, jobVars, slotVars, netVars
    <2> QED BY <1>2, <1>3, <2>1, EndFacts DEF LegsInPlace
  <1>14. KeyedIsHere'
    <2>1. KeyedIsHere /\ keyed' = keyed /\ TypeOK
      BY DEF StreamInv, ROpenRespond, netVars
    <2> QED BY <1>3, <2>1 DEF KeyedIsHere, TypeOK
  <1> QED BY <1>3, <1>8, <1>11, <1>12, <1>13, <1>14, <1>10 DEF StreamInv

(* ROpenDeliver: the stream that on_ropen hands to its listener preserves the invariant. *)
LEMMA ROpenDeliverStep ==
    ASSUME StreamInv, NEW r \in Requests, ROpenDeliver(r)
    PROVE  StreamInv'
  <1>1. TypeOK /\ r \in Requests
    BY DEF StreamInv
  <1>2. sid' = sid /\ \A q \in Requests : (job'[q] = "none") <=> (job[q] = "none")
    BY <1>1
       DEF TypeOK, ROpenDeliver, JobTo, KeyStream, endVars, reqVars, jobVars, slotVars, netVars,
           InlineStates, JobStates
  <1>3. /\ \A f \in Ends : Here(f)' = Here(f)
        /\ \A i, l : LegOf(i, l)' = LegOf(i, l)
        /\ IdsDistinct'
    BY <1>2, Frame DEF StreamInv
  <1>4. ctl' = ctl
    BY DEF ROpenDeliver, JobTo, KeyStream, endVars, reqVars, jobVars, slotVars, netVars
  <1>5. ctl' \in [Ends -> Seq(Messages)] /\ MessagesMatch'
    BY <1>1, <1>2, <1>4, MessagesFrame DEF TypeOK, StreamInv
  <1>6. used' = used /\ ((closed' = closed /\ closer' = closer) \/ (\E f \in Ends : Closes(f)))
    BY EndFacts DEF ROpenDeliver, endVars, Closes
  <1>7. /\ closed' \in [Ends -> BOOLEAN] /\ closer' \in [Ends -> CloserStates]
        /\ used' \in [Ends -> SUBSET Ids]
        /\ ClosedFirst' /\ IdsRecorded' /\ ReservationsEnd'
    BY <1>2, <1>3, <1>6, CloseFrame
  <1>8. TypeOK'
    <2>1. UNCHANGED <<sid, aged, running, pc, rx, leg, out, waiters, jleg, slot, pending,
                     draining, hello>>
      BY <1>2 DEF ROpenDeliver, endVars, reqVars, jobVars, slotVars, netVars
    <2>2. job' \in [Requests -> JobStates]
      <3>1. \E n \in JobStates : job' = [job EXCEPT ![r] = n]
        BY DEF ROpenDeliver, JobTo, jobVars, JobStates, InlineStates
      <3> QED BY <1>1, <3>1 DEF TypeOK
    <2>3. keyed' \subseteq [end : Ends, req : Requests, leg : Requests]
      BY <1>1, EndFacts DEF TypeOK, ROpenDeliver, KeyStream, netVars
    <2> QED BY <1>1, <1>5, <1>7, <2>1, <2>2, <2>3 DEF TypeOK
  <1>9. PlacesMatch'
    <2> SUFFICES ASSUME NEW q \in Requests
                 PROVE  Place(q)'
      BY DEF PlacesMatch
    <2>1. Place(q)
      BY DEF StreamInv, PlacesMatch
    <2> QED BY <1>1, <1>2, <2>1, KindFacts
           DEF Place,  TypeOK, ROpenDeliver, JobTo, reqVars, jobVars, InlineStates, Codes
  <1>10. LegsInPlace'
    <2>1. LegsInPlace /\ UNCHANGED <<hello, slot, leg, jleg>>
      BY DEF StreamInv, ROpenDeliver, reqVars, jobVars, slotVars, netVars
    <2> QED BY <1>2, <1>3, <2>1, EndFacts DEF LegsInPlace
  <1>11. KeyedIsHere'
    BY <1>1, <1>2, <1>3, EndFacts
       DEF StreamInv, KeyedIsHere, IdsDistinct, LegsInPlace, LegOf, PlacesMatch, Place, Here,
           TypeOK, ROpenDeliver, KeyStream, netVars, InlineStates
  <1> QED BY <1>3, <1>5, <1>8, <1>9, <1>10, <1>11, <1>7 DEF StreamInv

(* JobAborted: a job that shutdown aborts preserves the invariant. *)
LEMMA JobAbortedStep ==
    ASSUME StreamInv, NEW r \in Requests, JobAborted(r)
    PROVE  StreamInv'
  <1>1. TypeOK /\ r \in Requests
    BY DEF StreamInv
  <1>2. sid' = sid /\ \A q \in Requests : (job'[q] = "none") <=> (job[q] = "none")
    BY <1>1
       DEF TypeOK, JobAborted, JobTo, endVars, reqVars, jobVars, slotVars, netVars, InlineStates,
           JobStates
  <1>3. /\ \A f \in Ends : Here(f)' = Here(f)
        /\ \A i, l : LegOf(i, l)' = LegOf(i, l)
        /\ IdsDistinct'
    BY <1>2, Frame DEF StreamInv
  <1>4. ctl' = ctl
    BY DEF JobAborted, JobTo, endVars, reqVars, jobVars, slotVars, netVars
  <1>5. ctl' \in [Ends -> Seq(Messages)] /\ MessagesMatch'
    BY <1>1, <1>2, <1>4, MessagesFrame DEF TypeOK, StreamInv
  <1>6. used' = used /\ ((closed' = closed /\ closer' = closer) \/ (\E f \in Ends : Closes(f)))
    BY EndFacts DEF JobAborted, endVars, Closes
  <1>7. /\ closed' \in [Ends -> BOOLEAN] /\ closer' \in [Ends -> CloserStates]
        /\ used' \in [Ends -> SUBSET Ids]
        /\ ClosedFirst' /\ IdsRecorded' /\ ReservationsEnd'
    BY <1>2, <1>3, <1>6, CloseFrame
  <1>8. TypeOK'
    <2>1. UNCHANGED <<sid, aged, running, pc, rx, leg, out, waiters, jleg, slot, pending,
                     draining, hello, keyed>>
      BY <1>2 DEF JobAborted, endVars, reqVars, jobVars, slotVars, netVars
    <2>2. job' \in [Requests -> JobStates]
      <3>1. \E n \in JobStates : job' = [job EXCEPT ![r] = n]
        BY DEF JobAborted, JobTo, jobVars, JobStates, InlineStates
      <3> QED BY <1>1, <3>1 DEF TypeOK
    <2> QED BY <1>1, <1>5, <1>7, <2>1, <2>2 DEF TypeOK
  <1>9. PlacesMatch'
    <2> SUFFICES ASSUME NEW q \in Requests
                 PROVE  Place(q)'
      BY DEF PlacesMatch
    <2>1. Place(q)
      BY DEF StreamInv, PlacesMatch
    <2> QED BY <1>1, <1>2, <2>1, KindFacts
           DEF Place,  TypeOK, JobAborted, JobTo, reqVars, jobVars, InlineStates, Codes
  <1>10. LegsInPlace'
    <2>1. LegsInPlace /\ UNCHANGED <<hello, slot, leg, jleg>>
      BY DEF StreamInv, JobAborted, reqVars, jobVars, slotVars, netVars
    <2> QED BY <1>2, <1>3, <2>1, EndFacts DEF LegsInPlace
  <1>11. KeyedIsHere'
    <2>1. KeyedIsHere /\ keyed' = keyed /\ TypeOK
      BY DEF StreamInv, JobAborted, netVars
    <2> QED BY <1>3, <2>1 DEF KeyedIsHere, TypeOK
  <1> QED BY <1>3, <1>5, <1>8, <1>9, <1>10, <1>11, <1>7 DEF StreamInv

(* HelloStream: a HelloStream that notify_ropen_stream takes preserves the invariant. *)
LEMMA HelloStreamStep ==
    ASSUME StreamInv, NEW r \in Requests, HelloStream(r)
    PROVE  StreamInv'
  <1>1. TypeOK /\ r \in Requests
    BY DEF StreamInv
  <1>2. sid' = sid /\ \A q \in Requests : (job'[q] = "none") <=> (job[q] = "none")
    BY <1>1
       DEF TypeOK, HelloStream, endVars, reqVars, jobVars, slotVars, netVars, InlineStates,
           JobStates
  <1>3. /\ \A f \in Ends : Here(f)' = Here(f)
        /\ \A i, l : LegOf(i, l)' = LegOf(i, l)
        /\ IdsDistinct'
    BY <1>2, Frame DEF StreamInv
  <1>4. ctl' = ctl
    BY DEF HelloStream, endVars, reqVars, jobVars, slotVars, netVars
  <1>5. ctl' \in [Ends -> Seq(Messages)] /\ MessagesMatch'
    BY <1>1, <1>2, <1>4, MessagesFrame DEF TypeOK, StreamInv
  <1>6. used' = used /\ ((closed' = closed /\ closer' = closer) \/ (\E f \in Ends : Closes(f)))
    BY EndFacts DEF HelloStream, endVars, Closes
  <1>7. /\ closed' \in [Ends -> BOOLEAN] /\ closer' \in [Ends -> CloserStates]
        /\ used' \in [Ends -> SUBSET Ids]
        /\ ClosedFirst' /\ IdsRecorded' /\ ReservationsEnd'
    BY <1>2, <1>3, <1>6, CloseFrame
  <1>8. TypeOK'
    <2>1. UNCHANGED <<sid, aged, running, pc, rx, leg, out, waiters, job, jleg, pending, draining,
                     keyed>>
      BY <1>2 DEF HelloStream, endVars, reqVars, jobVars, slotVars, netVars
    <2>2. slot' \in [Ids -> Requests \cup {None, "waiting"}]
      BY <1>1, EndFacts DEF TypeOK, HelloStream, slotVars
    <2>3. hello' \subseteq Requests
      BY <1>1, EndFacts DEF TypeOK, HelloStream, netVars
    <2> QED BY <1>1, <1>5, <1>7, <2>1, <2>2, <2>3 DEF TypeOK
  <1>9. PlacesMatch'
    <2>1. PlacesMatch /\ UNCHANGED <<pc, sid, rx, job>>
      BY <1>2 DEF StreamInv, HelloStream, reqVars, jobVars
    <2> QED BY <2>1 DEF PlacesMatch, Place
  <1>10. LegsInPlace'
    <2>1. LegsInPlace
      BY DEF StreamInv
    <2>2. r \in Here("acceptor") /\ sid[r] \in Ids
      BY <1>1, <2>1 DEF LegsInPlace, Here, HelloStream, TypeOK
    <2>3. (hello \subseteq Here("acceptor"))'
      BY <1>1, <1>3, <2>1, <2>2, EndFacts DEF LegsInPlace, TypeOK, HelloStream, netVars
    <2>4. (\A i \in Ids : slot[i] \in Requests => LegOf(i, slot[i]))'
      BY <1>1, <1>3, <2>1, <2>2, KindFacts DEF LegsInPlace, TypeOK, HelloStream, slotVars, LegOf
    <2>5. (\A q \in Requests : leg[q] # None => q \in Here("acceptor") /\ LegOf(sid[q], leg[q]))'
      BY <1>1, <1>2, <1>3, <2>1, <2>2, EndFacts, KindFacts
         DEF LegsInPlace, TypeOK, HelloStream, reqVars, jobVars, slotVars
    <2>6. (\A q \in Requests : jleg[q] # None => q \in Here("acceptor") /\ LegOf(sid[q], jleg[q]))'
      BY <1>1, <1>2, <1>3, <2>1, <2>2, EndFacts, KindFacts
         DEF LegsInPlace, TypeOK, HelloStream, reqVars, jobVars, slotVars
    <2> QED BY <2>3, <2>4, <2>5, <2>6 DEF LegsInPlace
  <1>11. KeyedIsHere'
    <2>1. KeyedIsHere /\ keyed' = keyed /\ TypeOK
      BY DEF StreamInv, HelloStream, netVars
    <2> QED BY <1>3, <2>1 DEF KeyedIsHere, TypeOK
  <1> QED BY <1>3, <1>5, <1>8, <1>9, <1>10, <1>11, <1>7 DEF StreamInv

(* ClearIds: close() clearing used_stream_ids preserves the invariant. *)
LEMMA ClearIdsStep ==
    ASSUME StreamInv, NEW e \in Ends, ClearIds(e)
    PROVE  StreamInv'
  <1>1. TypeOK /\ e \in Ends
    BY DEF StreamInv
  <1>2. sid' = sid /\ \A q \in Requests : (job'[q] = "none") <=> (job[q] = "none")
    BY <1>1
       DEF TypeOK, ClearIds, endVars, reqVars, jobVars, slotVars, netVars, InlineStates, JobStates
  <1>3. /\ \A f \in Ends : Here(f)' = Here(f)
        /\ \A i, l : LegOf(i, l)' = LegOf(i, l)
        /\ IdsDistinct'
    BY <1>2, Frame DEF StreamInv
  <1>4. ctl' = ctl
    BY DEF ClearIds, endVars, reqVars, jobVars, slotVars, netVars
  <1>5. ctl' \in [Ends -> Seq(Messages)] /\ MessagesMatch'
    BY <1>1, <1>2, <1>4, MessagesFrame DEF TypeOK, StreamInv
  <1>6. /\ closed' \in [Ends -> BOOLEAN] /\ closer' \in [Ends -> CloserStates]
        /\ used' \in [Ends -> SUBSET Ids]
        /\ ClosedFirst' /\ IdsRecorded' /\ ReservationsEnd'
    <2>1. /\ closed' = closed
          /\ closer' = [closer EXCEPT ![e] = "waiters"]
          /\ closer[e] = "ids"
          /\ used' = [used EXCEPT ![e] = {}]
      BY DEF ClearIds, endVars
    <2>2. /\ closed \in [Ends -> BOOLEAN] /\ closer \in [Ends -> CloserStates]
          /\ used \in [Ends -> SUBSET Ids]
          /\ ClosedFirst /\ IdsRecorded /\ ReservationsEnd
      BY DEF StreamInv, TypeOK
    <2>3. closer' \in [Ends -> CloserStates] /\ used' \in [Ends -> SUBSET Ids] /\ ClosedFirst'
      BY <2>1, <2>2 DEF CloserStates, ClosedFirst
    <2> QED BY <1>2, <1>3, <2>1, <2>2, <2>3 DEF IdsRecorded, ReservationsEnd
  <1>7. TypeOK'
    <2>1. UNCHANGED <<sid, aged, running, pc, rx, leg, out, waiters, job, jleg, slot, pending,
                     draining, hello, keyed>>
      BY <1>2 DEF ClearIds, endVars, reqVars, jobVars, slotVars, netVars
    <2> QED BY <1>1, <1>5, <1>6, <2>1 DEF TypeOK
  <1>8. PlacesMatch'
    <2>1. PlacesMatch /\ UNCHANGED <<pc, sid, rx, job>>
      BY <1>2 DEF StreamInv, ClearIds, reqVars, jobVars
    <2> QED BY <2>1 DEF PlacesMatch, Place
  <1>9. LegsInPlace'
    <2>1. LegsInPlace /\ UNCHANGED <<hello, slot, leg, jleg>>
      BY DEF StreamInv, ClearIds, reqVars, jobVars, slotVars, netVars
    <2> QED BY <1>2, <1>3, <2>1, EndFacts DEF LegsInPlace
  <1>10. KeyedIsHere'
    <2>1. KeyedIsHere /\ keyed' = keyed /\ TypeOK
      BY DEF StreamInv, ClearIds, netVars
    <2> QED BY <1>3, <2>1 DEF KeyedIsHere, TypeOK
  <1> QED BY <1>3, <1>5, <1>7, <1>8, <1>9, <1>10, <1>6 DEF StreamInv

(* ClearWaiters: close() dropping the waiters preserves the invariant. *)
LEMMA ClearWaitersStep ==
    ASSUME StreamInv, NEW e \in Ends, ClearWaiters(e)
    PROVE  StreamInv'
  <1>1. TypeOK /\ e \in Ends
    BY DEF StreamInv
  <1>2. sid' = sid /\ \A q \in Requests : (job'[q] = "none") <=> (job[q] = "none")
    BY <1>1
       DEF TypeOK, ClearWaiters, endVars, reqVars, jobVars, slotVars, netVars, InlineStates,
           JobStates
  <1>3. /\ \A f \in Ends : Here(f)' = Here(f)
        /\ \A i, l : LegOf(i, l)' = LegOf(i, l)
        /\ IdsDistinct'
    BY <1>2, Frame DEF StreamInv
  <1>4. ctl' = ctl
    BY DEF ClearWaiters, endVars, reqVars, jobVars, slotVars, netVars
  <1>5. ctl' \in [Ends -> Seq(Messages)] /\ MessagesMatch'
    BY <1>1, <1>2, <1>4, MessagesFrame DEF TypeOK, StreamInv
  <1>6. /\ closed' \in [Ends -> BOOLEAN] /\ closer' \in [Ends -> CloserStates]
        /\ used' \in [Ends -> SUBSET Ids]
        /\ ClosedFirst' /\ IdsRecorded' /\ ReservationsEnd'
    <2>1. /\ closed' = closed
          /\ closer' = [closer EXCEPT ![e] = "keys"]
          /\ closer[e] = "waiters"
          /\ used' = used
      BY DEF ClearWaiters, endVars
    <2>2. /\ closed \in [Ends -> BOOLEAN] /\ closer \in [Ends -> CloserStates]
          /\ used \in [Ends -> SUBSET Ids]
          /\ ClosedFirst /\ IdsRecorded /\ ReservationsEnd
      BY DEF StreamInv, TypeOK
    <2>3. closer' \in [Ends -> CloserStates] /\ used' \in [Ends -> SUBSET Ids] /\ ClosedFirst'
      BY <2>1, <2>2 DEF CloserStates, ClosedFirst
    <2> QED BY <1>2, <1>3, <2>1, <2>2, <2>3 DEF IdsRecorded, ReservationsEnd
  <1>7. TypeOK'
    <2>1. UNCHANGED <<sid, aged, running, pc, leg, out, job, jleg, slot, pending, draining, hello,
                     keyed>>
      BY <1>2 DEF ClearWaiters, endVars, reqVars, jobVars, slotVars, netVars
    <2>2. rx' \in [Requests -> Codes \cup {"empty", "dropped"}]
      BY <1>1, EndFacts DEF TypeOK, ClearWaiters, reqVars
    <2>3. waiters' \subseteq Requests
      BY <1>1, EndFacts DEF TypeOK, ClearWaiters, reqVars
    <2> QED BY <1>1, <1>5, <1>6, <2>1, <2>2, <2>3 DEF TypeOK
  <1>8. PlacesMatch'
    <2> SUFFICES ASSUME NEW q \in Requests
                 PROVE  Place(q)'
      BY DEF PlacesMatch
    <2>1. Place(q)
      BY DEF StreamInv, PlacesMatch
    <2> QED BY <1>1, <1>2, <2>1, KindFacts
           DEF Place,  TypeOK, ClearWaiters, reqVars, jobVars, InlineStates, Codes
  <1>9. LegsInPlace'
    <2>1. LegsInPlace /\ UNCHANGED <<hello, slot, leg, jleg>>
      BY DEF StreamInv, ClearWaiters, reqVars, jobVars, slotVars, netVars
    <2> QED BY <1>2, <1>3, <2>1, EndFacts DEF LegsInPlace
  <1>10. KeyedIsHere'
    <2>1. KeyedIsHere /\ keyed' = keyed /\ TypeOK
      BY DEF StreamInv, ClearWaiters, netVars
    <2> QED BY <1>3, <2>1 DEF KeyedIsHere, TypeOK
  <1> QED BY <1>3, <1>5, <1>7, <1>8, <1>9, <1>10, <1>6 DEF StreamInv

(* DrainKeys: close() draining pending_wait_stream_keys preserves the invariant. *)
LEMMA DrainKeysStep ==
    ASSUME StreamInv, NEW e \in Ends, DrainKeys(e)
    PROVE  StreamInv'
  <1>1. TypeOK /\ e \in Ends
    BY DEF StreamInv
  <1>2. sid' = sid /\ \A q \in Requests : (job'[q] = "none") <=> (job[q] = "none")
    BY <1>1
       DEF TypeOK, DrainKeys, endVars, reqVars, jobVars, slotVars, netVars, InlineStates, JobStates
  <1>3. /\ \A f \in Ends : Here(f)' = Here(f)
        /\ \A i, l : LegOf(i, l)' = LegOf(i, l)
        /\ IdsDistinct'
    BY <1>2, Frame DEF StreamInv
  <1>4. ctl' = ctl
    BY DEF DrainKeys, endVars, reqVars, jobVars, slotVars, netVars
  <1>5. ctl' \in [Ends -> Seq(Messages)] /\ MessagesMatch'
    BY <1>1, <1>2, <1>4, MessagesFrame DEF TypeOK, StreamInv
  <1>6. /\ closed' \in [Ends -> BOOLEAN] /\ closer' \in [Ends -> CloserStates]
        /\ used' \in [Ends -> SUBSET Ids]
        /\ ClosedFirst' /\ IdsRecorded' /\ ReservationsEnd'
    <2>1. /\ closed' = closed
          /\ closer' = [closer EXCEPT ![e] = "slots"]
          /\ closer[e] = "keys"
          /\ used' = used
      BY DEF DrainKeys, endVars
    <2>2. /\ closed \in [Ends -> BOOLEAN] /\ closer \in [Ends -> CloserStates]
          /\ used \in [Ends -> SUBSET Ids]
          /\ ClosedFirst /\ IdsRecorded /\ ReservationsEnd
      BY DEF StreamInv, TypeOK
    <2>3. closer' \in [Ends -> CloserStates] /\ used' \in [Ends -> SUBSET Ids] /\ ClosedFirst'
      BY <2>1, <2>2 DEF CloserStates, ClosedFirst
    <2> QED BY <1>2, <1>3, <2>1, <2>2, <2>3 DEF IdsRecorded, ReservationsEnd
  <1>7. TypeOK'
    <2>1. UNCHANGED <<sid, aged, running, pc, rx, leg, out, waiters, job, jleg, slot, hello, keyed>>
      BY <1>2 DEF DrainKeys, endVars, reqVars, jobVars, slotVars, netVars
    <2>2. pending' \subseteq Ids
      BY <1>1, EndFacts DEF TypeOK, DrainKeys, slotVars
    <2>3. draining' \subseteq Ids
      BY <1>1, EndFacts DEF TypeOK, DrainKeys, slotVars
    <2> QED BY <1>1, <1>5, <1>6, <2>1, <2>2, <2>3 DEF TypeOK
  <1>8. PlacesMatch'
    <2>1. PlacesMatch /\ UNCHANGED <<pc, sid, rx, job>>
      BY <1>2 DEF StreamInv, DrainKeys, reqVars, jobVars
    <2> QED BY <2>1 DEF PlacesMatch, Place
  <1>9. LegsInPlace'
    <2>1. LegsInPlace /\ UNCHANGED <<hello, slot, leg, jleg>>
      BY DEF StreamInv, DrainKeys, reqVars, jobVars, slotVars, netVars
    <2> QED BY <1>2, <1>3, <2>1, EndFacts DEF LegsInPlace
  <1>10. KeyedIsHere'
    <2>1. KeyedIsHere /\ keyed' = keyed /\ TypeOK
      BY DEF StreamInv, DrainKeys, netVars
    <2> QED BY <1>3, <2>1 DEF KeyedIsHere, TypeOK
  <1> QED BY <1>3, <1>5, <1>7, <1>8, <1>9, <1>10, <1>6 DEF StreamInv

(* RemoveSlots: close() removing the drained slots preserves the invariant. *)
LEMMA RemoveSlotsStep ==
    ASSUME StreamInv, NEW e \in Ends, RemoveSlots(e)
    PROVE  StreamInv'
  <1>1. TypeOK /\ e \in Ends
    BY DEF StreamInv
  <1>2. sid' = sid /\ \A q \in Requests : (job'[q] = "none") <=> (job[q] = "none")
    BY <1>1
       DEF TypeOK, RemoveSlots, endVars, reqVars, jobVars, slotVars, netVars, InlineStates,
           JobStates
  <1>3. /\ \A f \in Ends : Here(f)' = Here(f)
        /\ \A i, l : LegOf(i, l)' = LegOf(i, l)
        /\ IdsDistinct'
    BY <1>2, Frame DEF StreamInv
  <1>4. ctl' = ctl
    BY DEF RemoveSlots, endVars, reqVars, jobVars, slotVars, netVars
  <1>5. ctl' \in [Ends -> Seq(Messages)] /\ MessagesMatch'
    BY <1>1, <1>2, <1>4, MessagesFrame DEF TypeOK, StreamInv
  <1>6. /\ closed' \in [Ends -> BOOLEAN] /\ closer' \in [Ends -> CloserStates]
        /\ used' \in [Ends -> SUBSET Ids]
        /\ ClosedFirst' /\ IdsRecorded' /\ ReservationsEnd'
    <2>1. /\ closed' = closed
          /\ closer' = [closer EXCEPT ![e] = "done"]
          /\ closer[e] = "slots"
          /\ used' = used
      BY DEF RemoveSlots, endVars
    <2>2. /\ closed \in [Ends -> BOOLEAN] /\ closer \in [Ends -> CloserStates]
          /\ used \in [Ends -> SUBSET Ids]
          /\ ClosedFirst /\ IdsRecorded /\ ReservationsEnd
      BY DEF StreamInv, TypeOK
    <2>3. closer' \in [Ends -> CloserStates] /\ used' \in [Ends -> SUBSET Ids] /\ ClosedFirst'
      BY <2>1, <2>2 DEF CloserStates, ClosedFirst
    <2> QED BY <1>2, <1>3, <2>1, <2>2, <2>3 DEF IdsRecorded, ReservationsEnd
  <1>7. TypeOK'
    <2>1. UNCHANGED <<sid, aged, running, pc, rx, leg, out, waiters, job, jleg, pending, hello,
                     keyed>>
      BY <1>2 DEF RemoveSlots, endVars, reqVars, jobVars, slotVars, netVars
    <2>2. slot' \in [Ids -> Requests \cup {None, "waiting"}]
      BY <1>1, EndFacts DEF TypeOK, RemoveSlots, slotVars
    <2>3. draining' \subseteq Ids
      BY <1>1, EndFacts DEF TypeOK, RemoveSlots, slotVars
    <2> QED BY <1>1, <1>5, <1>6, <2>1, <2>2, <2>3 DEF TypeOK
  <1>8. PlacesMatch'
    <2>1. PlacesMatch /\ UNCHANGED <<pc, sid, rx, job>>
      BY <1>2 DEF StreamInv, RemoveSlots, reqVars, jobVars
    <2> QED BY <2>1 DEF PlacesMatch, Place
  <1>9. LegsInPlace'
    <2>1. LegsInPlace
      BY DEF StreamInv
    <2>2. (hello \subseteq Here("acceptor"))'
      BY <1>1, <1>3, <2>1, EndFacts DEF LegsInPlace, TypeOK, RemoveSlots, netVars
    <2>3. (\A i \in Ids : slot[i] \in Requests => LegOf(i, slot[i]))'
      BY <1>1, <1>3, <2>1, KindFacts DEF LegsInPlace, TypeOK, RemoveSlots, slotVars
    <2>4. (\A q \in Requests : leg[q] # None => q \in Here("acceptor") /\ LegOf(sid[q], leg[q]))'
      BY <1>1, <1>2, <1>3, <2>1, EndFacts, KindFacts
         DEF LegsInPlace, TypeOK, RemoveSlots, reqVars, jobVars, slotVars
    <2>5. (\A q \in Requests : jleg[q] # None => q \in Here("acceptor") /\ LegOf(sid[q], jleg[q]))'
      BY <1>1, <1>2, <1>3, <2>1, EndFacts, KindFacts
         DEF LegsInPlace, TypeOK, RemoveSlots, reqVars, jobVars, slotVars
    <2> QED BY <2>2, <2>3, <2>4, <2>5 DEF LegsInPlace
  <1>10. KeyedIsHere'
    <2>1. KeyedIsHere /\ keyed' = keyed /\ TypeOK
      BY DEF StreamInv, RemoveSlots, netVars
    <2> QED BY <1>3, <2>1 DEF KeyedIsHere, TypeOK
  <1> QED BY <1>3, <1>5, <1>7, <1>8, <1>9, <1>10, <1>6 DEF StreamInv

(* CloseTunnel: a tunnel map that closes the tunnel preserves the invariant. *)
LEMMA CloseTunnelStep ==
    ASSUME StreamInv, NEW e \in Ends, CloseTunnel(e)
    PROVE  StreamInv'
  <1>1. TypeOK /\ e \in Ends
    BY DEF StreamInv
  <1>2. sid' = sid /\ \A q \in Requests : (job'[q] = "none") <=> (job[q] = "none")
    BY <1>1
       DEF TypeOK, CloseTunnel, BeginClose, endVars, reqVars, jobVars, slotVars, netVars,
           InlineStates, JobStates
  <1>3. /\ \A f \in Ends : Here(f)' = Here(f)
        /\ \A i, l : LegOf(i, l)' = LegOf(i, l)
        /\ IdsDistinct'
    BY <1>2, Frame DEF StreamInv
  <1>4. ctl' = ctl
    BY DEF CloseTunnel, BeginClose, endVars, reqVars, jobVars, slotVars, netVars
  <1>5. ctl' \in [Ends -> Seq(Messages)] /\ MessagesMatch'
    BY <1>1, <1>2, <1>4, MessagesFrame DEF TypeOK, StreamInv
  <1>6. used' = used /\ ((closed' = closed /\ closer' = closer) \/ (\E f \in Ends : Closes(f)))
    BY EndFacts DEF CloseTunnel, BeginClose, endVars, Closes
  <1>7. /\ closed' \in [Ends -> BOOLEAN] /\ closer' \in [Ends -> CloserStates]
        /\ used' \in [Ends -> SUBSET Ids]
        /\ ClosedFirst' /\ IdsRecorded' /\ ReservationsEnd'
    BY <1>2, <1>3, <1>6, CloseFrame
  <1>8. TypeOK'
    <2>1. UNCHANGED <<sid, aged, running, pc, rx, leg, out, waiters, job, jleg, slot, pending,
                     draining, hello, keyed>>
      BY <1>2 DEF CloseTunnel, endVars, reqVars, jobVars, slotVars, netVars
    <2> QED BY <1>1, <1>5, <1>7, <2>1 DEF TypeOK
  <1>9. PlacesMatch'
    <2>1. PlacesMatch /\ UNCHANGED <<pc, sid, rx, job>>
      BY <1>2 DEF StreamInv, CloseTunnel, reqVars, jobVars
    <2> QED BY <2>1 DEF PlacesMatch, Place
  <1>10. LegsInPlace'
    <2>1. LegsInPlace /\ UNCHANGED <<hello, slot, leg, jleg>>
      BY DEF StreamInv, CloseTunnel, reqVars, jobVars, slotVars, netVars
    <2> QED BY <1>2, <1>3, <2>1, EndFacts DEF LegsInPlace
  <1>11. KeyedIsHere'
    <2>1. KeyedIsHere /\ keyed' = keyed /\ TypeOK
      BY DEF StreamInv, CloseTunnel, netVars
    <2> QED BY <1>3, <2>1 DEF KeyedIsHere, TypeOK
  <1> QED BY <1>3, <1>5, <1>8, <1>9, <1>10, <1>11, <1>7 DEF StreamInv

(* ReachAge: the age limit of the tunnel preserves the invariant. *)
LEMMA ReachAgeStep ==
    ASSUME StreamInv, NEW e \in Ends, ReachAge(e)
    PROVE  StreamInv'
  <1>1. TypeOK /\ e \in Ends
    BY DEF StreamInv
  <1>2. sid' = sid /\ \A q \in Requests : (job'[q] = "none") <=> (job[q] = "none")
    BY <1>1
       DEF TypeOK, ReachAge, endVars, reqVars, jobVars, slotVars, netVars, InlineStates, JobStates
  <1>3. /\ \A f \in Ends : Here(f)' = Here(f)
        /\ \A i, l : LegOf(i, l)' = LegOf(i, l)
        /\ IdsDistinct'
    BY <1>2, Frame DEF StreamInv
  <1>4. ctl' = ctl
    BY DEF ReachAge, endVars, reqVars, jobVars, slotVars, netVars
  <1>5. ctl' \in [Ends -> Seq(Messages)] /\ MessagesMatch'
    BY <1>1, <1>2, <1>4, MessagesFrame DEF TypeOK, StreamInv
  <1>6. used' = used /\ ((closed' = closed /\ closer' = closer) \/ (\E f \in Ends : Closes(f)))
    BY EndFacts DEF ReachAge, endVars, Closes
  <1>7. /\ closed' \in [Ends -> BOOLEAN] /\ closer' \in [Ends -> CloserStates]
        /\ used' \in [Ends -> SUBSET Ids]
        /\ ClosedFirst' /\ IdsRecorded' /\ ReservationsEnd'
    BY <1>2, <1>3, <1>6, CloseFrame
  <1>8. TypeOK'
    <2>1. UNCHANGED <<sid, running, pc, rx, leg, out, waiters, job, jleg, slot, pending, draining,
                     hello, keyed>>
      BY <1>2 DEF ReachAge, endVars, reqVars, jobVars, slotVars, netVars
    <2>2. aged' \in [Ends -> BOOLEAN]
      BY <1>1, EndFacts DEF TypeOK, ReachAge, endVars
    <2> QED BY <1>1, <1>5, <1>7, <2>1, <2>2 DEF TypeOK
  <1>9. PlacesMatch'
    <2>1. PlacesMatch /\ UNCHANGED <<pc, sid, rx, job>>
      BY <1>2 DEF StreamInv, ReachAge, reqVars, jobVars
    <2> QED BY <2>1 DEF PlacesMatch, Place
  <1>10. LegsInPlace'
    <2>1. LegsInPlace /\ UNCHANGED <<hello, slot, leg, jleg>>
      BY DEF StreamInv, ReachAge, reqVars, jobVars, slotVars, netVars
    <2> QED BY <1>2, <1>3, <2>1, EndFacts DEF LegsInPlace
  <1>11. KeyedIsHere'
    <2>1. KeyedIsHere /\ keyed' = keyed /\ TypeOK
      BY DEF StreamInv, ReachAge, netVars
    <2> QED BY <1>3, <2>1 DEF KeyedIsHere, TypeOK
  <1> QED BY <1>3, <1>5, <1>8, <1>9, <1>10, <1>11, <1>7 DEF StreamInv

-----------------------------------------------------------------------------
(* Steps that reserve or admit an id *)

(* An end that is not closed has recorded the id of every request it knows. *)
LEMMA OpenRecords ==
    ASSUME StreamInv, NEW e \in Ends, ~closed[e]
    PROVE  closer[e] = "none" /\ \A q \in Here(e) : sid[q] \in used[e]
  BY DEF StreamInv, ClosedFirst, IdsRecorded

(* A request that an end gets to know with an id that the end has not        *)
(* recorded, and records now, keeps the ids distinct and recorded.           *)
LEMMA Learn ==
    ASSUME StreamInv, NEW e \in Ends, NEW r \in Requests, NEW i \in Ids,
           ~closed[e], i \notin used[e],
           Here(e)' = Here(e) \cup {r},
           \A f \in Ends \ {e} : Here(f)' = Here(f),
           \A q \in Requests \ {r} : sid'[q] = sid[q],
           \A f \in Ends \ {e} : r \in Here(f) => sid'[r] = sid[r],
           r \notin Here(e), sid'[r] = i,
           used' = [used EXCEPT ![e] = @ \cup {i}],
           closed' = closed, closer' = closer
    PROVE  /\ used' \in [Ends -> SUBSET Ids]
           /\ ClosedFirst' /\ IdsDistinct' /\ IdsRecorded' /\ ReservationsEnd'
  <1>1. /\ closer[e] = "none"
        /\ \A q \in Here(e) : sid[q] \in used[e]
        /\ used \in [Ends -> SUBSET Ids]
    BY OpenRecords DEF StreamInv, TypeOK
  <1>2. \A f \in Ends : Here(f) \subseteq Requests
    BY DEF Here
  <1>3. used' \in [Ends -> SUBSET Ids] /\ ClosedFirst'
    BY <1>1 DEF StreamInv, ClosedFirst
  <1>4. ASSUME NEW f \in Ends
        PROVE  /\ \A q \in Here(f) : sid'[q] = sid[q]
               /\ f # e => Here(f)' = Here(f) /\ used'[f] = used[f]
               /\ f = e => Here(f)' = Here(f) \cup {r} /\ used'[f] = used[f] \cup {i}
    BY <1>1, <1>2
  <1>5. IdsDistinct'
    <2> SUFFICES ASSUME NEW f \in Ends, NEW p \in Here(f)', NEW q \in Here(f)', sid'[p] = sid'[q]
                 PROVE  p = q
      BY DEF IdsDistinct
    <2>1. CASE p \in Here(f) /\ q \in Here(f)
      BY <1>4, <2>1 DEF StreamInv, IdsDistinct
    <2>2. CASE f = e /\ (p = r \/ q = r)
      <3>1. \A t \in Here(e) : sid'[t] # i
        BY <1>1, <1>4
      <3> QED BY <1>4, <2>2, <3>1
    <2> QED BY <1>4, <2>1, <2>2
  <1>6. IdsRecorded'
    <2> SUFFICES ASSUME NEW f \in Ends, closer[f] \in {"none", "ids"}, NEW q \in Here(f)'
                 PROVE  sid'[q] \in used'[f]
      BY DEF IdsRecorded
    <2>1. CASE q \in Here(f)
      BY <1>4, <2>1 DEF StreamInv, IdsRecorded
    <2>2. CASE q = r /\ f = e
      BY <1>4, <2>2
    <2> QED BY <1>4, <2>1, <2>2
  <1>7. ReservationsEnd'
    BY <1>1, <1>4 DEF StreamInv, ReservationsEnd
  <1> QED BY <1>3, <1>5, <1>6, <1>7

(* What an end knew it still knows, under the same id, so legs, packages   *)
(* and streams stay in place.                                              *)
LEMMA Keeps ==
    ASSUME StreamInv,
           \A f \in Ends : Here(f) \subseteq Here(f)',
           \A f \in Ends : \A q \in Here(f) : sid'[q] = sid[q],
           UNCHANGED <<slot, leg, jleg, hello, keyed>>
    PROVE  LegsInPlace' /\ KeyedIsHere'
  <1>1. LegsInPlace /\ KeyedIsHere /\ "acceptor" \in Ends
    BY EndFacts DEF StreamInv
  <1>2. \A i, l : LegOf(i, l) => LegOf(i, l)'
    BY <1>1 DEF LegOf
  <1>3. KeyedIsHere'
    <2>1. \A k \in keyed : k.end \in Ends
      BY DEF StreamInv, TypeOK
    <2> QED BY <1>1, <2>1 DEF KeyedIsHere
  <1>4. LegsInPlace'
    <2>1. (hello \subseteq Here("acceptor"))' /\ (\A i \in Ids : slot[i] \in Requests => LegOf(i,
          slot[i]))'
      BY <1>1, <1>2 DEF LegsInPlace
    <2>2. (\A q \in Requests : leg[q] # None => q \in Here("acceptor") /\ LegOf(sid[q], leg[q]))'
      BY <1>1, <1>2 DEF LegsInPlace
    <2>3. (\A q \in Requests : jleg[q] # None => q \in Here("acceptor") /\ LegOf(sid[q], jleg[q]))'
      BY <1>1, <1>2 DEF LegsInPlace
    <2> QED BY <2>1, <2>2, <2>3 DEF LegsInPlace
  <1> QED BY <1>3, <1>4

(* Reserve preserves the invariant. *)
LEMMA ReserveStep ==
    ASSUME StreamInv, NEW r \in Requests, Reserve(r)
    PROVE  StreamInv'
  <1> DEFINE e == Home(r)
  <1>1. TypeOK /\ e \in Ends /\ Place(r) /\ pc[r] = "reserve"
    BY EndFacts DEF StreamInv, PlacesMatch, Reserve
  <1>2. sid[r] = None /\ job[r] = "none" /\ r \notin Pings
    BY <1>1 DEF Place
  <1>3. /\ UNCHANGED <<aged, running, rx, leg, waiters, job, jleg, slot, pending, draining, ctl,
                   hello, keyed>>
        /\ pc' = [pc EXCEPT ![r] = "done"] \/ pc' = [pc EXCEPT ![r] = "waiter"]
        /\ out' = out \/ out' = [out EXCEPT ![r] = "failed"]
    BY DEF Reserve, MarkClosed, BeginClose, Return, Goto, endVars, jobVars, slotVars, netVars
  <1>4. CASE /\ sid' = sid /\ used' = used
             /\ (closed' = closed /\ closer' = closer) \/ Closes(e)
             /\ pc' = [pc EXCEPT ![r] = "done"]
    <2>1. /\ \A f \in Ends : Here(f)' = Here(f)
          /\ \A i, l : LegOf(i, l)' = LegOf(i, l)
          /\ IdsDistinct'
      BY <1>3, <1>4, Frame DEF StreamInv
    <2>2. /\ closed' \in [Ends -> BOOLEAN] /\ closer' \in [Ends -> CloserStates]
          /\ used' \in [Ends -> SUBSET Ids]
          /\ ClosedFirst' /\ IdsRecorded' /\ ReservationsEnd'
      BY <1>1, <1>4, <2>1, CloseFrame
    <2>3. TypeOK'
      BY <1>1, <1>3, <1>4, <2>2 DEF TypeOK, RequestStates
    <2>4. MessagesMatch'
      BY <1>3, <1>4, MessagesFrame DEF StreamInv
    <2>5. PlacesMatch'
      <3> SUFFICES ASSUME NEW q \in Requests
                   PROVE  Place(q)'
        BY DEF PlacesMatch
      <3>1. Place(q)
        BY DEF StreamInv, PlacesMatch
      <3> QED BY <1>1, <1>3, <1>4, <3>1 DEF Place, TypeOK
    <2>6. LegsInPlace' /\ KeyedIsHere'
      BY <1>3, <1>4, <2>1, Keeps
    <2> QED BY <2>1, <2>2, <2>3, <2>4, <2>5, <2>6 DEF StreamInv
  <1>5. CASE /\ ~closed[e] /\ closed' = closed /\ closer' = closer
             /\ pc' = [pc EXCEPT ![r] = "waiter"]
             /\ \E i \in Ids \ used[e] : /\ used' = [used EXCEPT ![e] = @ \cup {i}]
                                         /\ sid' = [sid EXCEPT ![r] = i]
    <2>1. PICK i \in Ids \ used[e] : /\ used' = [used EXCEPT ![e] = @ \cup {i}]
                                     /\ sid' = [sid EXCEPT ![r] = i]
      BY <1>5
    <2>2. /\ sid' \in [Requests -> Ids \cup {None}]
          /\ sid'[r] = i /\ i # None
          /\ \A q \in Requests \ {r} : sid'[q] = sid[q]
      BY <1>1, <2>1, AbsentAssumption DEF TypeOK
    <2>3. \A f \in Ends : r \notin Here(f)
      BY <1>2 DEF Here
    <2>4. \A f \in Ends : \A q \in Requests \ {r} : q \in Here(f)' <=> q \in Here(f)
      BY <1>3, <2>2 DEF Here
    <2>5. \A f \in Ends : r \in Here(f)' <=> f = e
      BY <1>2, <1>3, <2>2 DEF Here
    <2>6. \A f \in Ends : Here(f) \subseteq Requests /\ Here(f)' \subseteq Requests
      BY DEF Here
    <2>7. Here(e)' = Here(e) \cup {r} /\ \A f \in Ends \ {e} : Here(f)' = Here(f)
      BY <1>1, <2>3, <2>4, <2>5, <2>6
    <2>8. /\ used' \in [Ends -> SUBSET Ids]
          /\ ClosedFirst' /\ IdsDistinct' /\ IdsRecorded' /\ ReservationsEnd'
      <3> HIDE DEF e
      <3> QED BY <1>1, <1>5, <2>1, <2>2, <2>3, <2>7, Learn
    <2>9. TypeOK'
      BY <1>1, <1>3, <1>5, <2>2, <2>8 DEF TypeOK, RequestStates
    <2>10. MessagesMatch'
      <3> SUFFICES ASSUME NEW f \in Ends, NEW x \in Messages, Holds(ctl[f], x)
                   PROVE  MessageMatch(f, x)'
        BY <1>3 DEF MessagesMatch, Holds
      <3>1. MessageMatch(f, x)
        BY DEF StreamInv, MessagesMatch
      <3>2. x.req \in Requests
        BY DEF Messages
      <3> QED BY <1>3, <2>2, <3>1, <3>2 DEF MessageMatch
    <2>11. PlacesMatch'
      <3> SUFFICES ASSUME NEW q \in Requests
                   PROVE  Place(q)'
        BY DEF PlacesMatch
      <3>1. Place(q)
        BY DEF StreamInv, PlacesMatch
      <3>2. CASE q = r
        BY <1>1, <1>2, <1>3, <1>5, <2>2, <3>1, <3>2 DEF Place, TypeOK, InlineStates
      <3>3. CASE q # r
        BY <1>1, <1>3, <1>5, <2>2, <3>1, <3>3 DEF Place, TypeOK
      <3> QED BY <3>2, <3>3
    <2>12. LegsInPlace' /\ KeyedIsHere'
      <3>1. \A f \in Ends : Here(f) \subseteq Here(f)' /\ \A q \in Here(f) : sid'[q] = sid[q]
        BY <2>2, <2>3, <2>4, <2>6
      <3> QED BY <1>3, <3>1, Keeps
    <2> QED BY <2>8, <2>9, <2>10, <2>11, <2>12 DEF StreamInv
  <1> QED BY <1>1, <1>4, <1>5 DEF Reserve, MarkClosed, BeginClose, Return, Goto, Closes, endVars

(* Admit preserves the invariant: the id of an Open or ROpen that the read  *)
(* loop admits is recorded at this end in the same step.                    *)
LEMMA AdmitStep ==
    ASSUME StreamInv, NEW e \in Ends, Admit(e)
    PROVE  StreamInv'
  <1> DEFINE m == Head(ctl[e])
             r == m.req
             i == sid[r]
  <1>1. TypeOK /\ ctl[e] # <<>> /\ ~closed[e]
    BY DEF StreamInv, Admit, Reading
  <1>2. /\ m \in Messages
        /\ MessageMatch(e, m)
        /\ ctl' \in [Ends -> Seq(Messages)]
        /\ \A f \in Ends : \A x \in Messages : Holds(ctl'[f], x) => Holds(ctl[f], x)
    <2>1. /\ Consumed(e) \in [Ends -> Seq(Messages)]
          /\ m \in Messages
          /\ Holds(ctl[e], m)
          /\ \A f \in Ends : \A x \in Messages : Holds(Consumed(e)[f], x) => Holds(ctl[f], x)
      BY <1>1, ConsumedFacts DEF TypeOK
    <2>2. MessageMatch(e, m)
      BY <2>1 DEF StreamInv, MessagesMatch
    <2> QED BY <2>1, <2>2 DEF Admit
  <1>3. /\ r \in Requests /\ r \notin Pings /\ Peer(r) = e /\ i # None
        /\ i \notin used[e]
        /\ used' = [used EXCEPT ![e] = @ \cup {i}]
        /\ job' = [job EXCEPT ![r] = IF r \in ROpens THEN "build" ELSE "slot"]
        /\ UNCHANGED <<closed, aged, running, closer, pc, sid, rx, leg, out, waiters,
                       jleg, slot, pending, draining, hello, keyed>>
    BY <1>2 DEF Admit, Admissible, JobTo, MessageMatch, Messages, reqVars, slotVars
  <1> HIDE DEF m, r, i
  <1>4. i \in Ids /\ i = sid[r] /\ Home(r) # e /\ Home(r) \in Ends
    <2>1. sid[r] \in Ids \cup {None} /\ i = sid[r]
      BY <1>1, <1>3 DEF TypeOK, i
    <2>2. Home(r) \in Ends /\ Peer(r) = Other(Home(r))
      BY <1>3, EndFacts DEF Peer
    <2>3. Home(r) # Other(Home(r))
      BY DEF Other
    <2> QED BY <1>3, <2>1, <2>2, <2>3
  <1>5. /\ job' \in [Requests -> JobStates]
        /\ job'[r] \in {"build", "slot"} /\ job'[r] # "none"
        /\ \A q \in Requests \ {r} : job'[q] = job[q]
    BY <1>1, <1>3 DEF TypeOK, JobStates, InlineStates
  <1>6. \A f \in Ends : \A q \in Requests \ {r} : q \in Here(f)' <=> q \in Here(f)
    BY <1>3, <1>5 DEF Here
  <1>7. \A f \in Ends : Here(f) \subseteq Requests /\ Here(f)' \subseteq Requests
    BY DEF Here
  <1>8. \A f \in Ends : r \in Here(f)'
    BY <1>3, <1>4, <1>5 DEF Here
  <1>9. r \notin Here(e)
    BY <1>1, <1>3, <1>4, OpenRecords
  <1>10. \A f \in Ends \ {e} : r \in Here(f)
    BY <1>3, <1>4, EndFacts DEF Here, Ends
  <1>11. Here(e)' = Here(e) \cup {r} /\ \A f \in Ends \ {e} : Here(f)' = Here(f)
    BY <1>6, <1>7, <1>8, <1>10
  <1>12. /\ used' \in [Ends -> SUBSET Ids]
         /\ ClosedFirst' /\ IdsDistinct' /\ IdsRecorded' /\ ReservationsEnd'
    <2>1. \A q \in Requests : sid'[q] = sid[q]
      BY <1>3
    <2> QED BY <1>1, <1>3, <1>4, <1>9, <1>11, <2>1, Learn
  <1>13. TypeOK'
    BY <1>1, <1>2, <1>3, <1>5, <1>12 DEF TypeOK
  <1>14. MessagesMatch'
    <2> SUFFICES ASSUME NEW f \in Ends, NEW x \in Messages, Holds(ctl'[f], x)
                 PROVE  MessageMatch(f, x)'
      BY DEF MessagesMatch, Holds
    <2>1. MessageMatch(f, x)
      BY <1>2 DEF StreamInv, MessagesMatch
    <2>2. x.req \in Requests
      BY DEF Messages
    <2> QED BY <1>3, <1>5, <2>1, <2>2 DEF MessageMatch
  <1>15. PlacesMatch'
    <2> SUFFICES ASSUME NEW q \in Requests
                 PROVE  Place(q)'
      BY DEF PlacesMatch
    <2>1. Place(q)
      BY DEF StreamInv, PlacesMatch
    <2>2. CASE q = r
      <3>1. pc[q] \notin {"idle", "reserve"} /\ sid[q] # None
        BY <1>3, <1>4, <2>1, <2>2 DEF Place
      <3>2. job'[q] = (IF q \in ROpens THEN "build" ELSE "slot") /\ (q \in ROpens \/ q \in Opens)
        BY <1>1, <1>3, <2>2, KindFacts DEF TypeOK
      <3> QED BY <1>3, <2>1, <2>2, <3>1, <3>2 DEF Place, InlineStates
    <2>3. CASE q # r
      BY <1>3, <1>5, <2>1, <2>3 DEF Place
    <2> QED BY <2>2, <2>3
  <1>16. LegsInPlace' /\ KeyedIsHere'
    <2>1. \A f \in Ends : Here(f) \subseteq Here(f)' /\ \A q \in Here(f) : sid'[q] = sid[q]
      BY <1>3, <1>11
    <2> QED BY <1>3, <2>1, Keeps
  <1> QED BY <1>12, <1>13, <1>14, <1>15, <1>16 DEF StreamInv

-----------------------------------------------------------------------------
(* Theorems *)

(* The initial states satisfy the invariant. *)
LEMMA StreamInvInit == Init => StreamInv
  <1> SUFFICES ASSUME Init
               PROVE  StreamInv
    OBVIOUS
  <1>1. \A r \in Requests : /\ pc[r] = "idle" /\ sid[r] = None /\ job[r] = "none" /\ rx[r] = "empty"
                            /\ leg[r] = None /\ jleg[r] = None
    BY DEF Init
  <1>2. \A e \in Ends : /\ ctl[e] = <<>> /\ closer[e] = "none" /\ used[e] = {} /\ Here(e) = {}
    BY <1>1 DEF Init, Here
  <1>3. TypeOK
    BY DEF Init, TypeOK, CloserStates, RequestStates, JobStates, InlineStates
  <1>4. ClosedFirst /\ IdsDistinct /\ IdsRecorded /\ ReservationsEnd
    BY <1>2 DEF ClosedFirst, IdsDistinct, IdsRecorded, ReservationsEnd
  <1>5. PlacesMatch
    BY <1>1 DEF PlacesMatch, Place, InlineStates
  <1>6. MessagesMatch
    BY <1>2 DEF MessagesMatch, Holds
  <1>7. LegsInPlace /\ KeyedIsHere
    <2>1. \A i \in Ids : slot[i] \notin Requests
      BY AbsentAssumption DEF Init
    <2>2. hello = {} /\ keyed = {}
      BY DEF Init
    <2> QED BY <1>1, <2>1, <2>2 DEF LegsInPlace, KeyedIsHere
  <1> QED BY <1>3, <1>4, <1>5, <1>6, <1>7 DEF StreamInv

(* Every step preserves the invariant. *)
LEMMA StreamInvNext == StreamInv /\ [Next]_vars => StreamInv'
  <1> SUFFICES ASSUME StreamInv, [Next]_vars
               PROVE  StreamInv'
    OBVIOUS
  <1>1. ASSUME NEW r \in Requests, RequestStep(r)
        PROVE  StreamInv'
    BY <1>1, StartStep, ReserveStep, InsertWaiterStep, RegisterSlotStep, RegisterKeyStep,
       UnregisterKeyStep, PostStep, PostFailsStep, PostTimesOutStep, AnsweredStep, DeadlineStep,
       BuildLegStep, OpenDoneStep, PollSlotStep, ROpenDoneStep, AnswerWinsStep
       DEF RequestStep
  <1>2. ASSUME NEW r \in Requests, JobStep(r)
        PROVE  StreamInv'
    BY <1>2, OpenSlotStep, OpenKeyStep, OpenUnkeyStep, OpenRespondStep, FinishPollStep,
       FinishOpenStep, ROpenBuildStep, ROpenRespondStep, ROpenDeliverStep, JobAbortedStep
       DEF JobStep
  <1>3. ASSUME NEW e \in Ends, LoopStep(e)
        PROVE  StreamInv'
    BY <1>3, ReadPingStep, AdmitStep, RefuseStep, RefuseExhaustedStep, RefuseAgedStep,
       ReadAnswerStep, LoopEndsStep
       DEF LoopStep
  <1>4. ASSUME NEW e \in Ends, CloseStep(e)
        PROVE  StreamInv'
    BY <1>4, ClearIdsStep, ClearWaitersStep, DrainKeysStep, RemoveSlotsStep DEF CloseStep
  <1>5. CASE UNCHANGED vars
    <2>1. UNCHANGED <<endVars, reqVars, jobVars, slotVars, netVars>>
      BY <1>5 DEF vars
    <2>2. UNCHANGED <<closed, aged, running, closer, used, pc, sid, rx, leg, out, waiters, job,
                     jleg,
                      slot, pending, draining, ctl, hello, keyed>>
      BY <2>1 DEF endVars, reqVars, jobVars, slotVars, netVars
    <2>3. \A e : Here(e)' = Here(e)
      BY <2>2 DEF Here
    <2>4. TypeOK' /\ ClosedFirst' /\ PlacesMatch' /\ ReservationsEnd'
      BY <2>2 DEF StreamInv, TypeOK, ClosedFirst, PlacesMatch, Place, ReservationsEnd
    <2>5. MessagesMatch'
      BY <2>2 DEF StreamInv, MessagesMatch, MessageMatch, Holds
    <2>6. LegsInPlace' /\ IdsDistinct' /\ IdsRecorded' /\ KeyedIsHere'
      BY <2>2, <2>3 DEF StreamInv, LegsInPlace, LegOf, IdsDistinct, IdsRecorded, KeyedIsHere
    <2> QED BY <2>4, <2>5, <2>6 DEF StreamInv
  <1> QED
    BY <1>1, <1>2, <1>3, <1>4, <1>5, DropRequestStep, HelloStreamStep, LoopFailsStep,
       CloseTunnelStep, ReachAgeStep DEF Next

(* Whatever the two ends do, the inductive invariant holds. *)
LEMMA StreamInvHolds == Spec => []StreamInv
  BY StreamInvInit, StreamInvNext, PTL DEF Spec

(* Every variable keeps its type: callers, jobs, read loops and close() of *)
(* both ends never drive request_open_stream or on_open out of its states. *)
THEOREM StreamTypeCorrect == Spec => []TypeOK
  <1>1. StreamInv => TypeOK
    BY DEF StreamInv
  <1> QED BY <1>1, StreamInvHolds, PTL

(* At either end a stream id keys one stream only, for any number of        *)
(* requests of both ends: reserve_outbound_stream_id and                    *)
(* reserve_inbound_build share the record of ids, and the closed flag keeps *)
(* both away from it once close() forgets it.                               *)
THEOREM OneStream == Spec => []OneStreamPerId
  <1>1. StreamInv => OneStreamPerId
    <2> SUFFICES ASSUME StreamInv, NEW k \in keyed, NEW l \in keyed,
                        k.end = l.end, sid[k.req] = sid[l.req]
                 PROVE  k = l
      BY DEF OneStreamPerId
    <2>1. /\ k \in [end : Ends, req : Requests, leg : Requests]
          /\ l \in [end : Ends, req : Requests, leg : Requests]
      BY DEF StreamInv, TypeOK
    <2>2. k.req \in Here(k.end) /\ l.req \in Here(k.end) /\ k.leg = k.req /\ l.leg = l.req
      BY DEF StreamInv, KeyedIsHere
    <2>3. k.req = l.req
      BY <2>1, <2>2 DEF StreamInv, IdsDistinct
    <2> QED BY <2>1, <2>2, <2>3
  <1> QED BY <1>1, StreamInvHolds, PTL

(* A stream runs over the leg that was built for its request: what          *)
(* notify_ropen_stream puts into a slot is never picked up by a request     *)
(* whose id it does not carry.                                              *)
THEOREM LegsAlwaysMatch == Spec => []LegsMatch
  <1>1. StreamInv => LegsMatch
    BY DEF StreamInv, KeyedIsHere, LegsMatch
  <1> QED BY <1>1, StreamInvHolds, PTL

(* Once close() has cleared used_stream_ids nobody puts an id back, however *)
(* a reservation or an admission runs next to it.                           *)
THEOREM ReservationsAlwaysEnd == Spec => []ReservationsEnd
  <1>1. StreamInv => ReservationsEnd
    BY DEF StreamInv
  <1> QED BY <1>1, StreamInvHolds, PTL

-----------------------------------------------------------------------------
(***************************************************************************)
(* What the requests and the jobs of RtcpStreams leave behind, for every   *)
(* set of requests and ids: the streams of a key epoch are bounded by      *)
(* max_stream_ids_per_tunnel, a waiter belongs to a request in flight, and *)
(* a slot of the wait map is owned by somebody who will remove it.         *)
(***************************************************************************)

-----------------------------------------------------------------------------
(* The key epoch: the requests an end knows are no more than the ids it    *)
(* has recorded, and after close() forgets the ids it learns no other.     *)
EpochInv ==
    \A e \in Ends : Cardinality(Here(e)) <= MaxIds /\ Cardinality(used[e]) <= MaxIds

-----------------------------------------------------------------------------
(* Waiters: one is registered once, before anything is sent, and whoever   *)
(* completes the receiver has taken the waiter out before.                 *)
WaiterOf(r) ==
    /\ r \in waiters => pc[r] \notin {"idle", "reserve", "waiter", "done"} /\ rx[r] = "empty"
    /\ pc[r] \in {"build", "built"} => rx[r] # "empty"
    /\ pc[r] \in {"idle", "reserve", "waiter"} => rx[r] = "empty"
WaiterInv == \A r \in Requests : WaiterOf(r)

-----------------------------------------------------------------------------
(* Slots.  The key of a slot is with close(), now or later ...             *)
Kept(i) ==
    \/ i \in pending /\ closer["acceptor"] \in {"none", "ids", "waiters", "keys"}
    \/ i \in draining

(* ... or with a request or a job that is on its way to remove it.         *)
OwnerPcs == {"key", "unkey", "post", "select", "take", "wait", "retake"}
OwnerJobs == {"key", "unkey", "respond", "wait", "take"}
Claim(r) ==
    \/ r \in ROpens /\ pc[r] \in OwnerPcs
    \/ r \in Opens /\ job[r] \in OwnerJobs

NobodyDropped == \A r \in Requests : pc[r] # "dropped"

(* Who has emptied its slot finds nothing in it again; a job whose task can *)
(* be aborted, or whose loop can fail, has its key with close().            *)
SlotOf(r) ==
    /\ r \in ROpens /\ pc[r] \in {"take", "retake"} => slot[sid[r]] = None
    /\ r \in Opens /\ job[r] = "take" => slot[sid[r]] = None
    /\ r \in Opens /\ job[r] \in {"respond", "wait"} /\ slot[sid[r]] # None => Kept(sid[r])

OwnedSlots ==
    NobodyDropped => \A i \in Ids : slot[i] # None =>
        Kept(i) \/ \E r \in Requests : sid[r] = i /\ Claim(r)

SlotInv ==
    /\ draining # {} => closer["acceptor"] = "slots"
    /\ \A r \in Requests : SlotOf(r)
    /\ OwnedSlots

-----------------------------------------------------------------------------
(* Sizes *)

(* A set that injects into a finite one is no larger. *)
LEMMA InjectsInto ==
    ASSUME NEW H, NEW U, IsFiniteSet(U), NEW f, \A r \in H : f[r] \in U,
           \A q, r \in H : f[q] = f[r] => q = r
    PROVE  IsFiniteSet(H) /\ Cardinality(H) <= Cardinality(U)
  <1>1. PICK g : g = [r \in H |-> f[r]]
    OBVIOUS
  <1>2. g \in Injection(H, U)
    BY <1>1 DEF Injection, IsInjective
  <1> QED BY <1>2, FS_Injection

(* The ids and the requests of an end are finitely many. *)
LEMMA EndSets ==
    ASSUME TypeOK, NEW e \in Ends
    PROVE  /\ IsFiniteSet(used[e]) /\ Cardinality(used[e]) \in Nat
           /\ IsFiniteSet(Here(e)) /\ Cardinality(Here(e)) \in Nat
  <1>1. used[e] \in SUBSET Ids /\ Here(e) \in SUBSET Requests
    BY DEF TypeOK, Here
  <1>2. IsFiniteSet(used[e]) /\ IsFiniteSet(Here(e))
    BY <1>1, BoundAssumption, FS_Subset
  <1> QED BY <1>2, FS_CardinalityType

-----------------------------------------------------------------------------
(* The key epoch *)

(* All steps but a reservation and an admission leave the ids, and what    *)
(* an end knows, alone; ClearIds forgets.                                  *)
KnowsNoMore ==
    /\ sid' = sid
    /\ \A q \in Requests : (job'[q] = "none") <=> (job[q] = "none")
    /\ \A e \in Ends : used'[e] \in {used[e], {}}

LEMMA RequestKnows ==
    ASSUME TypeOK, NEW r \in Requests, (RequestStep(r) /\ ~Reserve(r)) \/ DropRequest(r)
    PROVE  KnowsNoMore
  <1> USE DEF KnowsNoMore, endVars, jobVars, Goto, Return, MarkClosed, BeginClose
  <1>1. CASE Start(r) \/ InsertWaiter(r) \/ RegisterSlot(r) \/ RegisterKey(r)
    BY <1>1 DEF Start, InsertWaiter, RegisterSlot, RegisterKey
  <1>2. CASE UnregisterKey(r) \/ Post(r) \/ PostFails(r) \/ PostTimesOut(r)
    BY <1>2 DEF UnregisterKey, Post, PostFails, PostTimesOut
  <1>3. CASE Answered(r) \/ Deadline(r) \/ BuildLeg(r) \/ OpenDone(r)
    BY <1>3 DEF Answered, Deadline, BuildLeg, OpenDone
  <1>4. CASE PollSlot(r) \/ ROpenDone(r) \/ AnswerWins(r) \/ DropRequest(r)
    BY <1>4 DEF PollSlot, ROpenDone, AnswerWins, DropRequest
  <1> QED BY <1>1, <1>2, <1>3, <1>4 DEF RequestStep

LEMMA JobKnows ==
    ASSUME TypeOK, NEW r \in Requests, JobStep(r) \/ HelloStream(r)
    PROVE  KnowsNoMore
  <1> USE DEF KnowsNoMore, endVars, reqVars, jobVars, JobTo, LeaveLoop, BeginClose, TypeOK
  <1>1. CASE OpenSlot(r) \/ OpenKey(r) \/ OpenUnkey(r) \/ OpenRespond(r)
    BY <1>1 DEF OpenSlot, OpenKey, OpenUnkey, OpenRespond
  <1>2. CASE FinishPoll(r) \/ FinishOpen(r) \/ JobAborted(r) \/ HelloStream(r)
    BY <1>2 DEF FinishPoll, FinishOpen, JobAborted, HelloStream
  <1>3. CASE ROpenBuild(r) \/ ROpenRespond(r) \/ ROpenDeliver(r)
    BY <1>3 DEF ROpenBuild, ROpenRespond, ROpenDeliver
  <1> QED BY <1>1, <1>2, <1>3 DEF JobStep

LEMMA EndKnows ==
    ASSUME TypeOK, NEW e \in Ends,
           (LoopStep(e) /\ ~Admit(e)) \/ LoopFails(e) \/ CloseStep(e) \/ CloseTunnel(e) \/ ReachAge(e)
    PROVE  KnowsNoMore
  <1> USE DEF KnowsNoMore, endVars, reqVars, jobVars, LeaveLoop, BeginClose, TypeOK
  <1>1. CASE ReadPing(e) \/ Refuse(e) \/ RefuseExhausted(e) \/ RefuseAged(e) \/ ReadAnswer(e)
    BY <1>1 DEF ReadPing, Refuse, RefuseExhausted, RefuseAged, ReadAnswer
  <1>2. CASE LoopEnds(e) \/ LoopFails(e) \/ CloseTunnel(e) \/ ReachAge(e)
    BY <1>2 DEF LoopEnds, LoopFails, CloseTunnel, ReachAge
  <1>3. CASE ClearIds(e) \/ ClearWaiters(e) \/ DrainKeys(e) \/ RemoveSlots(e)
    BY <1>3 DEF ClearIds, ClearWaiters, DrainKeys, RemoveSlots
  <1> QED BY <1>1, <1>2, <1>3 DEF LoopStep, CloseStep

(* Who learns an id at an end: it had room, and is not closed. *)
Learns(e) ==
    /\ Cardinality(used[e]) < MaxIds
    /\ \E i \in Ids : used' = [used EXCEPT ![e] = @ \cup {i}]
    /\ closer' = closer /\ closer[e] = "none"
    /\ \A f \in Ends \ {e} : Here(f)' \subseteq Here(f)

LEMMA ReserveLearns ==
    ASSUME StreamInv, NEW r \in Requests, Reserve(r)
    PROVE  KnowsNoMore \/ Learns(Home(r))
  <1>0. TypeOK /\ ClosedFirst /\ Place(r)
    BY DEF StreamInv, PlacesMatch
  <1>1. Home(r) \in Ends
    BY EndFacts
  <1>2. CASE sid' = sid
    <2>1. ~\E i \in Ids : sid' = [sid EXCEPT ![r] = i]
      BY <1>0, <1>2, AbsentAssumption DEF Reserve, Place, TypeOK
    <2> QED BY <1>2, <2>1
        DEF Reserve, KnowsNoMore, Return, Goto, MarkClosed, BeginClose, endVars, jobVars
  <1>3. CASE sid' # sid
    <2>1. PICK i \in Ids : /\ used' = [used EXCEPT ![Home(r)] = @ \cup {i}]
                           /\ sid' = [sid EXCEPT ![r] = i]
      BY <1>3 DEF Reserve, endVars, MarkClosed, BeginClose
    <2>2. /\ ~closed[Home(r)] /\ Cardinality(used[Home(r)]) < MaxIds
          /\ closer' = closer /\ job' = job /\ pc[r] = "reserve"
      BY <1>3 DEF Reserve, endVars, jobVars, MarkClosed, BeginClose
    <2>3. closer[Home(r)] = "none"
      BY <1>0, <1>1, <2>2 DEF ClosedFirst
    <2>4. \A f \in Ends \ {Home(r)} : Here(f)' \subseteq Here(f)
      BY <1>0, <2>1, <2>2 DEF Here, Place, TypeOK
    <2> QED BY <2>1, <2>2, <2>3, <2>4 DEF Learns
  <1> QED BY <1>2, <1>3

LEMMA AdmitLearns ==
    ASSUME StreamInv, NEW e \in Ends, Admit(e)
    PROVE  Learns(e)
  <1>0. TypeOK /\ ClosedFirst /\ MessagesMatch
    BY DEF StreamInv
  <1>1. PICK m : m = Head(ctl[e])
    OBVIOUS
  <1>2. /\ Reading(e) /\ m.kind = "request" /\ m.req \notin Pings
        /\ Admissible(e, sid[m.req])
        /\ used' = [used EXCEPT ![e] = @ \cup {sid[m.req]}]
        /\ job' = [job EXCEPT ![m.req] = IF m.req \in ROpens THEN "build" ELSE "slot"]
        /\ sid' = sid /\ closer' = closer
    BY <1>1 DEF Admit, JobTo, reqVars
  <1>3. m \in Messages /\ Holds(ctl[e], m)
    BY <1>0, <1>1, <1>2, ConsumedFacts DEF TypeOK, Reading
  <1>4. m.req \in Requests
    BY <1>3 DEF Messages
  <1>5. Peer(m.req) = e /\ sid[m.req] # None
    BY <1>0, <1>2, <1>3 DEF MessagesMatch, MessageMatch
  <1>6. sid[m.req] \in Ids
    BY <1>0, <1>4, <1>5 DEF TypeOK
  <1>7. closer[e] = "none"
    BY <1>0, <1>2 DEF ClosedFirst, Reading
  <1>8. ASSUME NEW f \in Ends \ {e}
        PROVE  Here(f)' \subseteq Here(f)
    <2>1. Home(m.req) = f
      BY <1>4, <1>5, EndFacts DEF Peer, Other, Ends
    <2> QED BY <1>0, <1>2, <1>4, <1>5, <2>1 DEF Here, TypeOK
  <1> QED BY <1>2, <1>6, <1>7, <1>8 DEF Learns, Admissible

LEMMA EpochStep ==
    ASSUME StreamInv, StreamInv', EpochInv, KnowsNoMore \/ (\E e \in Ends : Learns(e))
    PROVE  EpochInv'
  <1>0. TypeOK /\ TypeOK' /\ IdsRecorded' /\ IdsDistinct' /\ MaxIds \in Nat
    BY BoundAssumption DEF StreamInv
  <1>1. ASSUME NEW f \in Ends
        PROVE  Cardinality(used'[f]) <= MaxIds
    <2>1. IsFiniteSet(used[f]) /\ Cardinality(used[f]) \in Nat /\ Cardinality(used[f]) <= MaxIds
      BY <1>0, EndSets DEF EpochInv
    <2>2. CASE used'[f] \in {used[f], {}}
      BY <1>0, <2>1, <2>2, FS_EmptySet
    <2>3. CASE Cardinality(used[f]) < MaxIds /\ \E i \in Ids : used'[f] = used[f] \cup {i}
      <3>1. PICK i \in Ids : used'[f] = used[f] \cup {i}
        BY <2>3
      <3>2. Cardinality(used[f] \cup {i}) \in {Cardinality(used[f]), Cardinality(used[f]) + 1}
        BY <2>1, FS_AddElement
      <3>3. PICK c, d : c = Cardinality(used[f]) /\ d = Cardinality(used'[f])
        OBVIOUS
      <3>4. c \in Nat /\ c < MaxIds /\ d \in {c, c + 1}
        BY <2>1, <2>3, <3>1, <3>2, <3>3
      <3>5. d <= MaxIds
        BY <1>0, <3>4
      <3> QED BY <3>3, <3>5
    <2> QED BY <1>0, <2>2, <2>3 DEF KnowsNoMore, Learns, TypeOK
  <1>2. ASSUME NEW f \in Ends
        PROVE  Cardinality(Here(f)') <= MaxIds
    <2>1. CASE closer'[f] \in {"none", "ids"}
      <3>1. IsFiniteSet(used'[f]) /\ Cardinality(used'[f]) \in Nat
        <4>1. used'[f] \in SUBSET Ids
          BY <1>0 DEF TypeOK
        <4> QED BY <4>1, BoundAssumption, FS_Subset, FS_CardinalityType
      <3>2. \A r \in Here(f)' : sid'[r] \in used'[f]
        BY <1>0, <2>1 DEF IdsRecorded
      <3>3. \A q, r \in Here(f)' : sid'[q] = sid'[r] => q = r
        BY <1>0 DEF IdsDistinct
      <3>4. PICK H, U, g : H = Here(f)' /\ U = used'[f] /\ g = sid'
        OBVIOUS
      <3>5. /\ IsFiniteSet(U) /\ \A r \in H : g[r] \in U
            /\ \A q, r \in H : g[q] = g[r] => q = r
        BY <3>1, <3>2, <3>3, <3>4
      <3>6. IsFiniteSet(H) /\ Cardinality(H) <= Cardinality(U)
        BY <3>5, InjectsInto
      <3>7. Cardinality(U) <= MaxIds /\ Cardinality(U) \in Nat
        BY <1>1, <3>1, <3>4
      <3>8. Cardinality(H) \in Nat
        BY <3>6, FS_CardinalityType
      <3> QED BY <1>0, <3>4, <3>6, <3>7, <3>8
    <2>2. CASE closer'[f] \notin {"none", "ids"}
      <3>1. Here(f)' \subseteq Here(f)
        BY <2>2 DEF KnowsNoMore, Learns, Here
      <3>2. IsFiniteSet(Here(f)) /\ Cardinality(Here(f)) \in Nat /\ Cardinality(Here(f)) <= MaxIds
        BY <1>0, EndSets DEF EpochInv
      <3>3. Cardinality(Here(f)') \in Nat /\ Cardinality(Here(f)') <= Cardinality(Here(f))
        BY <3>1, <3>2, FS_Subset, FS_CardinalityType
      <3> QED BY <1>0, <3>2, <3>3
    <2> QED BY <2>1, <2>2
  <1> QED BY <1>1, <1>2 DEF EpochInv

-----------------------------------------------------------------------------
(* Waiters *)

(* A step of a request touches its own waiter and receiver alone. *)
LEMMA WaiterFrame ==
    ASSUME WaiterInv, NEW r \in Requests, WaiterOf(r)',
           \A q \in Requests \ {r} :
               pc'[q] = pc[q] /\ rx'[q] = rx[q] /\ (q \in waiters' => q \in waiters)
    PROVE  WaiterInv'
  <1>1. ASSUME NEW q \in Requests \ {r} PROVE WaiterOf(q)'
    BY DEF WaiterInv, WaiterOf
  <1> QED BY <1>1 DEF WaiterInv

LEMMA RequestWaiters ==
    ASSUME TypeOK, PlacesMatch, WaiterInv, NEW r \in Requests, RequestStep(r) \/ DropRequest(r)
    PROVE  WaiterInv'
  <1>0. WaiterOf(r) /\ Place(r)
    BY DEF WaiterInv, PlacesMatch
  <1>1. \A q \in Requests \ {r} :
            pc'[q] = pc[q] /\ rx'[q] = rx[q] /\ (q \in waiters' => q \in waiters)
    <2> USE DEF TypeOK, Goto, Return, CleanUp
    <2>1. CASE Start(r) \/ Reserve(r) \/ InsertWaiter(r) \/ RegisterSlot(r) \/ RegisterKey(r)
      BY <2>1 DEF Start, Reserve, InsertWaiter, RegisterSlot, RegisterKey
    <2>2. CASE UnregisterKey(r) \/ Post(r) \/ PostFails(r) \/ PostTimesOut(r)
      BY <2>2 DEF UnregisterKey, Post, PostFails, PostTimesOut
    <2>3. CASE Answered(r) \/ Deadline(r) \/ BuildLeg(r) \/ OpenDone(r)
      BY <2>3 DEF Answered, Deadline, BuildLeg, OpenDone
    <2>4. CASE PollSlot(r) \/ ROpenDone(r) \/ AnswerWins(r) \/ DropRequest(r)
      BY <2>4 DEF PollSlot, ROpenDone, AnswerWins, DropRequest
    <2> QED BY <2>1, <2>2, <2>3, <2>4 DEF RequestStep
  <1>2. WaiterOf(r)'
    <2> USE <1>0 DEF TypeOK, Goto, Return, CleanUp, WaiterOf
    <2>1. CASE Start(r)
      BY <2>1 DEF Start
    <2>2. CASE Reserve(r)
      BY <2>2 DEF Reserve
    <2>3. CASE InsertWaiter(r)
      BY <2>3 DEF InsertWaiter
    <2>4. CASE RegisterSlot(r) \/ RegisterKey(r) \/ UnregisterKey(r)
      BY <2>4 DEF RegisterSlot, RegisterKey, UnregisterKey
    <2>5. CASE Post(r) \/ PostFails(r) \/ PostTimesOut(r)
      BY <2>5 DEF Post, PostFails, PostTimesOut
    <2>6. CASE Answered(r) \/ Deadline(r)
      BY <2>6 DEF Answered, Deadline
    <2>7. CASE BuildLeg(r) \/ OpenDone(r)
      BY <2>7 DEF BuildLeg, OpenDone
    <2>8. CASE PollSlot(r) \/ ROpenDone(r) \/ AnswerWins(r)
      BY <2>8 DEF PollSlot, ROpenDone, AnswerWins
    <2>9. CASE DropRequest(r)
      BY <2>9 DEF DropRequest, InFlight
    <2> QED BY <2>1, <2>2, <2>3, <2>4, <2>5, <2>6, <2>7, <2>8, <2>9 DEF RequestStep
  <1> QED BY <1>1, <1>2, WaiterFrame

LEMMA SameWaiters ==
    ASSUME WaiterInv, pc' = pc, rx' = rx, waiters' = waiters
    PROVE  WaiterInv'
  BY DEF WaiterInv, WaiterOf

LEMMA EndWaiters ==
    ASSUME TypeOK, WaiterInv, NEW e \in Ends,
           LoopStep(e) \/ LoopFails(e) \/ CloseStep(e) \/ CloseTunnel(e) \/ ReachAge(e)
    PROVE  WaiterInv'
  <1>1. CASE ReadAnswer(e)
    <2>1. PICK m : m = Head(ctl[e])
      OBVIOUS
    <2>2. m \in Messages /\ m.req \in Requests
      BY <1>1, <2>1, ConsumedFacts DEF TypeOK, ReadAnswer, Reading, Messages
    <2>3. m.kind = "answer" /\ m.code # "empty"
      BY <1>1, <2>1, <2>2 DEF ReadAnswer, Messages, Codes
    <2>4. /\ pc' = pc /\ waiters' = waiters \ {m.req}
          /\ rx' = IF m.req \in waiters THEN [rx EXCEPT ![m.req] = m.code] ELSE rx
      BY <1>1, <2>1 DEF ReadAnswer
    <2>5. WaiterOf(m.req)'
      BY <2>2, <2>3, <2>4 DEF WaiterInv, WaiterOf, TypeOK
    <2>6. \A q \in Requests \ {m.req} :
              pc'[q] = pc[q] /\ rx'[q] = rx[q] /\ (q \in waiters' => q \in waiters)
      BY <2>2, <2>4 DEF TypeOK
    <2> QED BY <2>2, <2>5, <2>6, WaiterFrame
  <1>2. CASE ClearWaiters(e)
    BY <1>2 DEF ClearWaiters, WaiterInv, WaiterOf
  <1>3. CASE pc' = pc /\ rx' = rx /\ waiters' = waiters
    BY <1>3, SameWaiters
  <1>4. CASE ReadPing(e) \/ Admit(e) \/ Refuse(e) \/ RefuseExhausted(e) \/ RefuseAged(e)
    BY <1>3, <1>4 DEF ReadPing, Admit, Refuse, RefuseExhausted, RefuseAged, reqVars
  <1>5. CASE LoopEnds(e) \/ LoopFails(e) \/ CloseTunnel(e) \/ ReachAge(e)
    BY <1>3, <1>5 DEF LoopEnds, LoopFails, CloseTunnel, ReachAge, reqVars
  <1>6. CASE ClearIds(e) \/ DrainKeys(e) \/ RemoveSlots(e)
    BY <1>3, <1>6 DEF ClearIds, DrainKeys, RemoveSlots, reqVars
  <1> QED BY <1>1, <1>2, <1>4, <1>5, <1>6 DEF LoopStep, CloseStep

LEMMA JobWaiters ==
    ASSUME WaiterInv, NEW r \in Requests, JobStep(r) \/ HelloStream(r)
    PROVE  WaiterInv'
  <1>1. pc' = pc /\ rx' = rx /\ waiters' = waiters
    <2> USE DEF reqVars
    <2>1. CASE OpenSlot(r) \/ OpenKey(r) \/ OpenUnkey(r) \/ OpenRespond(r)
      BY <2>1 DEF OpenSlot, OpenKey, OpenUnkey, OpenRespond
    <2>2. CASE FinishPoll(r) \/ FinishOpen(r) \/ JobAborted(r) \/ HelloStream(r)
      BY <2>2 DEF FinishPoll, FinishOpen, JobAborted, HelloStream
    <2>3. CASE ROpenBuild(r) \/ ROpenRespond(r) \/ ROpenDeliver(r)
      BY <2>3 DEF ROpenBuild, ROpenRespond, ROpenDeliver
    <2> QED BY <2>1, <2>2, <2>3 DEF JobStep
  <1> QED BY <1>1, SameWaiters

-----------------------------------------------------------------------------
(* Slots *)

(* Who claims a slot is known to the acceptor, so it has an id of its own. *)
LEMMA ClaimFacts ==
    ASSUME StreamInv
    PROVE  /\ \A q \in Requests : Claim(q) => sid[q] \in Ids
           /\ \A q, r \in Requests :
                Claim(q) /\ q # r /\ sid[r] # None /\ (r \in ROpens \/ job[r] # "none")
                    => sid[q] # sid[r]
  <1>0. TypeOK /\ PlacesMatch /\ IdsDistinct
    BY DEF StreamInv
  <1>1. ASSUME NEW q \in Requests, Claim(q)
        PROVE  q \in Here("acceptor") /\ sid[q] \in Ids
    <2>1. Place(q)
      BY <1>0 DEF PlacesMatch
    <2>2. sid[q] # None
      <3>1. CASE q \in ROpens /\ pc[q] \in OwnerPcs
        <4>1. q \notin Pings
          BY <3>1, KindFacts
        <4> QED BY <2>1, <3>1, <4>1 DEF Place, OwnerPcs
      <3>2. CASE q \in Opens /\ job[q] \in OwnerJobs
        BY <2>1, <3>2 DEF Place, OwnerJobs
      <3> QED BY <1>1, <3>1, <3>2 DEF Claim
    <2>3. Home(q) = "acceptor" \/ job[q] # "none"
      BY <1>1, EndFacts DEF Claim, OwnerJobs
    <2> QED BY <1>0, <2>2, <2>3 DEF Here, TypeOK
  <1>2. ASSUME NEW q \in Requests, NEW r \in Requests, Claim(q), q # r, sid[r] # None,
               r \in ROpens \/ job[r] # "none"
        PROVE  sid[q] # sid[r]
    <2>1. r \in Here("acceptor")
      BY <1>2, EndFacts DEF Here
    <2>2. q \in Here("acceptor") /\ "acceptor" \in Ends
      BY <1>1, <1>2, EndFacts
    <2> QED BY <1>0, <1>2, <2>1, <2>2 DEF IdsDistinct
  <1> QED BY <1>1, <1>2

(* What a step may do to a slot that stays: it was there or it is claimed  *)
(* now, and close() still has the key if it had it.                        *)
SlotKept(i) ==
    slot'[i] # None =>
        /\ slot[i] # None \/ \E q \in Requests : sid'[q] = i /\ Claim(q)'
        /\ Kept(i) => Kept(i)'

(* And to a claim: it stays, or its slot is gone, or close() has its key.  *)
ClaimKept(q) ==
    Claim(q) => /\ sid'[q] = sid[q]
                /\ \/ Claim(q)' \/ pc'[q] = "dropped"
                   \/ slot'[sid[q]] = None \/ Kept(sid[q])'

(* An instance whose stage is left alone, and whose slot is not refilled.  *)
StageKept(q) ==
    /\ pc'[q] = pc[q] /\ job'[q] = job[q] /\ (Claim(q) => sid'[q] = sid[q])
    /\ Claim(q) /\ slot'[sid[q]] # None => slot[sid[q]] # None

LEMMA SlotFrame ==
    ASSUME StreamInv, SlotInv,
           draining' # {} => closer'["acceptor"] = "slots",
           \A i \in Ids : SlotKept(i),
           \A q \in Requests : pc[q] = "dropped" => pc'[q] = "dropped",
           \A q \in Requests : ClaimKept(q),
           \A q \in Requests : SlotOf(q)' \/ StageKept(q)
    PROVE  SlotInv'
  <1>1. ASSUME NEW q \in Requests, StageKept(q)
        PROVE  SlotOf(q)'
    <2>1. SlotOf(q) /\ ClaimKept(q)
      BY DEF SlotInv
    <2>2. Claim(q) => sid[q] \in Ids /\ SlotKept(sid[q])
      BY ClaimFacts
    <2> QED BY <1>1, <2>1, <2>2 DEF SlotOf, StageKept, SlotKept, Claim, OwnerPcs, OwnerJobs
  <1>2. ASSUME NobodyDropped', NEW i \in Ids, slot'[i] # None
        PROVE  Kept(i)' \/ \E r \in Requests : sid'[r] = i /\ Claim(r)'
    <2>1. NobodyDropped /\ \A q \in Requests : pc'[q] # "dropped"
      BY <1>2 DEF NobodyDropped
    <2>2. SlotKept(i)
      OBVIOUS
    <2>3. CASE slot[i] # None
      <3>1. Kept(i) \/ \E r \in Requests : sid[r] = i /\ Claim(r)
        BY <2>1, <2>3 DEF SlotInv, OwnedSlots
      <3>2. ASSUME NEW r \in Requests, sid[r] = i, Claim(r)
            PROVE  Kept(i)' \/ (sid'[r] = i /\ Claim(r)')
        BY <1>2, <2>1, <3>2 DEF ClaimKept
      <3> QED BY <1>2, <2>2, <3>1, <3>2 DEF SlotKept
    <2> QED BY <1>2, <2>2, <2>3 DEF SlotKept
  <1> QED BY <1>1, <1>2 DEF SlotInv, OwnedSlots

(* Steps that leave the slots and their keys alone, and at most begin or   *)
(* continue a close() that has not come to the keys.                       *)
BeforeKeys == {"none", "ids", "waiters", "keys"}
QuietStage(q) ==
    /\ Claim(q) => Claim(q)' /\ sid'[q] = sid[q]
    /\ q \in ROpens /\ pc'[q] \in {"take", "retake"} => pc'[q] = pc[q]
    /\ q \in Opens /\ job'[q] \in {"respond", "wait", "take"} => job'[q] = job[q]
    /\ pc[q] = "dropped" => pc'[q] = "dropped"

LEMMA QuietSlots ==
    ASSUME StreamInv, SlotInv, slot' = slot, pending' = pending, draining' = draining,
           \/ closer'["acceptor"] = closer["acceptor"]
           \/ closer["acceptor"] \in BeforeKeys /\ closer'["acceptor"] \in BeforeKeys,
           \A q \in Requests : QuietStage(q)
    PROVE  SlotInv'
  <1>1. draining' # {} => closer'["acceptor"] = "slots"
    BY DEF SlotInv, BeforeKeys
  <1>2. \A i \in Ids : SlotKept(i)
    BY DEF SlotKept, Kept, BeforeKeys
  <1>3. \A q \in Requests : pc[q] = "dropped" => pc'[q] = "dropped"
    BY DEF QuietStage
  <1>4. \A q \in Requests : ClaimKept(q)
    BY DEF QuietStage, ClaimKept
  <1>5. ASSUME NEW q \in Requests PROVE SlotOf(q)'
    <2>1. SlotOf(q) /\ QuietStage(q)
      BY DEF SlotInv
    <2>2. Claim(q) => SlotKept(sid[q])
      BY <1>2, ClaimFacts
    <2> QED BY <2>1, <2>2 DEF SlotOf, QuietStage, SlotKept, Claim, OwnerPcs, OwnerJobs
  <1> QED BY <1>1, <1>2, <1>3, <1>4, <1>5, SlotFrame

(* Every request but its own steps aside is left alone by a step of r. *)
LEMMA OthersQuiet ==
    ASSUME NEW r \in Requests, QuietStage(r),
           \A q \in Requests \ {r} : pc'[q] = pc[q] /\ job'[q] = job[q] /\ sid'[q] = sid[q]
    PROVE  \A q \in Requests : QuietStage(q)
  BY DEF QuietStage, Claim

(* The steps of a request that do not reach the wait map. *)
LEMMA RequestQuiet ==
    ASSUME StreamInv, SlotInv, NEW r \in Requests,
           \/ Start(r) \/ Reserve(r) \/ InsertWaiter(r) \/ Post(r) \/ Answered(r)
           \/ BuildLeg(r) \/ OpenDone(r)
    PROVE  SlotInv'
  <1>0. TypeOK /\ PlacesMatch /\ Place(r)
    BY DEF StreamInv, PlacesMatch
  <1>1. slot' = slot /\ pending' = pending /\ draining' = draining /\ job' = job
    BY DEF Start, Reserve, InsertWaiter, Post, Answered, BuildLeg, OpenDone, slotVars, jobVars
  <1>2. \/ closer'["acceptor"] = closer["acceptor"]
        \/ closer["acceptor"] \in BeforeKeys /\ closer'["acceptor"] \in BeforeKeys
    BY <1>0, EndFacts DEF Start, Reserve, InsertWaiter, Post, Answered, BuildLeg, OpenDone, endVars,
       MarkClosed, BeginClose, TypeOK, BeforeKeys
  <1>3. \A q \in Requests \ {r} : pc'[q] = pc[q] /\ sid'[q] = sid[q]
    BY <1>0 DEF Start, Reserve, InsertWaiter, Post, Answered, BuildLeg, OpenDone, Goto, Return, TypeOK
  <1>4. QuietStage(r)
    <2> USE <1>0, <1>1, KindFacts
        DEF QuietStage, Claim, OwnerPcs, OwnerJobs, Place, TypeOK, Goto, Return, InlineStates
    <2>1. CASE Start(r)
      BY <2>1 DEF Start
    <2>2. CASE Reserve(r)
      BY <2>2 DEF Reserve
    <2>3. CASE InsertWaiter(r)
      BY <2>3 DEF InsertWaiter
    <2>4. CASE Post(r)
      BY <2>4 DEF Post
    <2>5. CASE Answered(r)
      BY <2>5 DEF Answered
    <2>6. CASE BuildLeg(r) \/ OpenDone(r)
      BY <2>6 DEF BuildLeg, OpenDone
    <2> QED BY <2>1, <2>2, <2>3, <2>4, <2>5, <2>6
  <1>5. \A q \in Requests : QuietStage(q)
    BY <1>1, <1>3, <1>4, OthersQuiet
  <1> QED BY <1>1, <1>2, <1>5, QuietSlots

(* The steps of the read loops, and those of close() before the keys. *)
LEMMA EndQuiet ==
    ASSUME StreamInv, SlotInv, NEW e \in Ends,
           \/ LoopStep(e) \/ LoopFails(e) \/ ClearIds(e) \/ ClearWaiters(e)
           \/ CloseTunnel(e) \/ ReachAge(e)
    PROVE  SlotInv'
  <1>0. TypeOK /\ MessagesMatch /\ PlacesMatch
    BY DEF StreamInv
  <1>1. slot' = slot /\ pending' = pending /\ draining' = draining /\ pc' = pc /\ sid' = sid
    BY DEF LoopStep, ReadPing, Admit, Refuse, RefuseExhausted, RefuseAged, ReadAnswer, LoopEnds,
       LoopFails, ClearIds, ClearWaiters, CloseTunnel, ReachAge, slotVars, reqVars
  <1>2. \/ closer'["acceptor"] = closer["acceptor"]
        \/ closer["acceptor"] \in BeforeKeys /\ closer'["acceptor"] \in BeforeKeys
    <2> USE <1>0, EndFacts DEF endVars, LeaveLoop, BeginClose, TypeOK, BeforeKeys
    <2>1. CASE ReadPing(e) \/ Admit(e) \/ Refuse(e) \/ RefuseExhausted(e) \/ RefuseAged(e)
      BY <2>1 DEF ReadPing, Admit, Refuse, RefuseExhausted, RefuseAged
    <2>2. CASE ReadAnswer(e) \/ LoopEnds(e) \/ LoopFails(e) \/ CloseTunnel(e)
      BY <2>2 DEF ReadAnswer, LoopEnds, LoopFails, CloseTunnel
    <2>3. CASE ClearIds(e) \/ ClearWaiters(e) \/ ReachAge(e)
      BY <2>3 DEF ClearIds, ClearWaiters, ReachAge
    <2> QED BY <2>1, <2>2, <2>3 DEF LoopStep
  <1>3. CASE job' = job
    <2>1. \A q \in Requests : QuietStage(q)
      BY <1>1, <1>3 DEF QuietStage, Claim
    <2> QED BY <1>1, <1>2, <2>1, QuietSlots
  <1>4. CASE Admit(e)
    <2>1. PICK m : m = Head(ctl[e])
      OBVIOUS
    <2>2. m \in Messages /\ m.req \in Requests
      BY <1>0, <1>4, <2>1, ConsumedFacts DEF TypeOK, Admit, Reading, Messages
    <2>3. job' = [job EXCEPT ![m.req] = IF m.req \in ROpens THEN "build" ELSE "slot"]
      BY <1>4, <2>1 DEF Admit, JobTo
    <2>4. /\ m.kind = "request" /\ m.req \notin Pings /\ ~Busy(e)
          /\ sid[m.req] \notin used[e] /\ ~closed[e]
      BY <1>4, <2>1 DEF Admit, Admissible, Reading
    <2>5. Peer(m.req) = e /\ sid[m.req] # None
      <3>1. Holds(ctl[e], m)
        BY <1>0, <1>4, <2>1, ConsumedFacts DEF TypeOK, Admit, Reading
      <3> QED BY <1>0, <2>2, <2>4, <3>1 DEF MessagesMatch, MessageMatch
    <2>6. job[m.req] = "none"
      <3>1. closer[e] = "none"
        BY <2>4 DEF StreamInv, ClosedFirst
      <3>2. m.req \notin Here(e)
        BY <2>4, <3>1 DEF StreamInv, IdsRecorded
      <3> QED BY <2>2, <2>5, <3>2 DEF Here
    <2>7. QuietStage(m.req)
      BY <1>0, <1>1, <2>2, <2>3, <2>6, KindFacts DEF QuietStage, Claim, OwnerJobs, TypeOK
    <2>8. \A q \in Requests \ {m.req} : pc'[q] = pc[q] /\ job'[q] = job[q] /\ sid'[q] = sid[q]
      BY <1>0, <1>1, <2>2, <2>3 DEF TypeOK
    <2>9. \A q \in Requests : QuietStage(q)
      BY <2>2, <2>7, <2>8, OthersQuiet
    <2> QED BY <1>1, <1>2, <2>9, QuietSlots
  <1>5. CASE ~Admit(e)
    BY <1>3, <1>5 DEF LoopStep, ReadPing, Refuse, RefuseExhausted, RefuseAged, ReadAnswer, LoopEnds,
       LoopFails, ClearIds, ClearWaiters, CloseTunnel, ReachAge, jobVars
  <1> QED BY <1>4, <1>5

(* The jobs of an ROpen keep no slot at the acceptor. *)
LEMMA JobQuiet ==
    ASSUME StreamInv, SlotInv, NEW r \in Requests,
           ROpenBuild(r) \/ ROpenRespond(r) \/ ROpenDeliver(r)
    PROVE  SlotInv'
  <1>0. TypeOK /\ PlacesMatch /\ Place(r)
    BY DEF StreamInv, PlacesMatch
  <1>1. /\ slot' = slot /\ pending' = pending /\ draining' = draining /\ pc' = pc /\ sid' = sid
        /\ closer' = closer
    BY DEF ROpenBuild, ROpenRespond, ROpenDeliver, slotVars, reqVars, endVars
  <1>2. /\ job[r] \in {"build", "built", "deliver"}
        /\ \E j \in {"built", "deliver", "ended"} : job' = [job EXCEPT ![r] = j]
    BY DEF ROpenBuild, ROpenRespond, ROpenDeliver, JobTo
  <1>3. r \in ROpens /\ r \notin Opens
    BY <1>0, <1>2, KindFacts DEF Place
  <1>4. QuietStage(r)
    BY <1>1, <1>3 DEF QuietStage, Claim
  <1>5. \A q \in Requests \ {r} : pc'[q] = pc[q] /\ job'[q] = job[q] /\ sid'[q] = sid[q]
    BY <1>0, <1>1, <1>2 DEF TypeOK
  <1>6. \A q \in Requests : QuietStage(q)
    BY <1>4, <1>5, OthersQuiet
  <1> QED BY <1>1, <1>6, QuietSlots

-----------------------------------------------------------------------------
(* The steps that reach the wait map or the keys: r is the request, or the *)
(* request of the job, that takes the step.                                *)
Alone(r) == \A q \in Requests \ {r} : pc'[q] = pc[q] /\ job'[q] = job[q]

(* Only the slot and the key of r change, and its slot does not appear     *)
(* without a claim.                                                        *)
OwnSlot(r) ==
    /\ \A i \in Ids \ {sid[r]} : slot'[i] = slot[i]
    /\ \A i \in Ids \ {sid[r]} : (i \in pending) <=> (i \in pending')
    /\ draining' = draining
    /\ \/ closer'["acceptor"] = closer["acceptor"]
       \/ closer["acceptor"] \in BeforeKeys /\ closer'["acceptor"] \in BeforeKeys
    /\ sid' = sid

LEMMA OwnSlotFrame ==
    ASSUME StreamInv, SlotInv, NEW r \in Requests, Alone(r), OwnSlot(r),
           sid[r] \in Ids, r \in ROpens \/ job[r] # "none",
           pc[r] = "dropped" => pc'[r] = "dropped",
           SlotKept(sid[r]), ClaimKept(r), SlotOf(r)'
    PROVE  SlotInv'
  <1>1. draining' # {} => closer'["acceptor"] = "slots"
    BY DEF SlotInv, OwnSlot, BeforeKeys
  <1>2. \A i \in Ids : SlotKept(i)
    BY DEF SlotKept, OwnSlot, Kept, BeforeKeys
  <1>3. \A q \in Requests : pc[q] = "dropped" => pc'[q] = "dropped"
    BY DEF Alone
  <1>4. ASSUME NEW q \in Requests \ {r} PROVE StageKept(q) /\ ClaimKept(q)
    <2>1. Claim(q) => sid[q] \in Ids /\ sid[q] # sid[r]
      BY ClaimFacts, AbsentAssumption
    <2> QED BY <2>1 DEF StageKept, ClaimKept, Alone, OwnSlot, Claim
  <1> QED BY <1>1, <1>2, <1>3, <1>4, SlotFrame

(* The steps of a request at the wait map. *)
LEMMA RequestSlots ==
    ASSUME StreamInv, SlotInv, NEW r \in Requests,
           \/ RegisterSlot(r) \/ RegisterKey(r) \/ UnregisterKey(r)
           \/ PollSlot(r) \/ ROpenDone(r) \/ AnswerWins(r)
    PROVE  SlotInv'
  <1>0. TypeOK /\ Place(r) /\ SlotOf(r)
    BY DEF StreamInv, PlacesMatch, SlotInv
  <1>1. pc[r] \in {"slot", "key", "unkey", "select", "take", "wait", "retake"}
    BY DEF RegisterSlot, RegisterKey, UnregisterKey, PollSlot, ROpenDone, AnswerWins
  <1>2. r \in ROpens /\ r \notin Opens /\ sid[r] \in Ids
    BY <1>0, <1>1, KindFacts DEF Place, TypeOK
  <1>3. sid' = sid /\ job' = job /\ closer' = closer /\ draining' = draining
    BY DEF RegisterSlot, RegisterKey, UnregisterKey, PollSlot, ROpenDone, AnswerWins, endVars,
       jobVars, CleanUp, RemoveWaitStream, slotVars
  <1>4. Alone(r) /\ pc[r] # "dropped"
    BY <1>0, <1>1, <1>3 DEF RegisterSlot, RegisterKey, UnregisterKey, PollSlot, ROpenDone,
       AnswerWins, Alone, Goto, Return, TypeOK
  <1>5. OwnSlot(r)
    BY <1>0, <1>2, <1>3 DEF RegisterSlot, RegisterKey, UnregisterKey, PollSlot, ROpenDone,
       AnswerWins, OwnSlot, CleanUp, RemoveWaitStream, slotVars, TypeOK
  <1>6. SlotKept(sid[r]) /\ ClaimKept(r) /\ SlotOf(r)'
    <2> USE <1>0, <1>2, <1>3 DEF TypeOK, Goto, Return, SlotKept, ClaimKept, SlotOf, Claim, OwnerPcs, Kept
    <2>1. CASE RegisterSlot(r)
      BY <2>1 DEF RegisterSlot
    <2>2. CASE RegisterKey(r)
      BY <2>2 DEF RegisterKey
    <2>3. CASE UnregisterKey(r)
      BY <2>3 DEF UnregisterKey, CleanUp, RemoveWaitStream
    <2>4. CASE PollSlot(r)
      BY <2>4 DEF PollSlot
    <2>5. CASE ROpenDone(r)
      BY <2>5 DEF ROpenDone
    <2>6. CASE AnswerWins(r)
      BY <2>6 DEF AnswerWins, RemoveWaitStream, slotVars
    <2> QED BY <2>1, <2>2, <2>3, <2>4, <2>5, <2>6
  <1> QED BY <1>2, <1>4, <1>5, <1>6, OwnSlotFrame

(* The ends of a request that clean up behind it. *)
LEMMA RequestEnds ==
    ASSUME StreamInv, SlotInv, NEW r \in Requests, PostFails(r) \/ PostTimesOut(r) \/ Deadline(r)
    PROVE  SlotInv'
  <1>0. TypeOK /\ Place(r)
    BY DEF StreamInv, PlacesMatch
  <1>1. /\ pc[r] \in {"post", "await", "build", "built", "select", "take", "wait", "retake"}
        /\ pc' = [pc EXCEPT ![r] = "done"] /\ CleanUp(r)
        /\ sid' = sid /\ job' = job /\ closer' = closer
    BY DEF PostFails, PostTimesOut, Deadline, Goto, Return, MarkClosed, endVars, jobVars
  <1>2. CASE r \in ROpens
    <2>1. r \notin Opens /\ sid[r] \in Ids
      BY <1>0, <1>1, <1>2, KindFacts DEF Place, TypeOK
    <2>2. Alone(r) /\ OwnSlot(r) /\ pc[r] # "dropped"
      BY <1>0, <1>1, <1>2, <2>1 DEF Alone, OwnSlot, CleanUp, RemoveWaitStream, TypeOK
    <2>3. slot'[sid[r]] = None
      BY <1>0, <1>1, <1>2, <2>1 DEF CleanUp, RemoveWaitStream, TypeOK
    <2>4. SlotKept(sid[r]) /\ ClaimKept(r) /\ SlotOf(r)'
      BY <1>1, <2>1, <2>3 DEF SlotKept, ClaimKept, SlotOf
    <2> QED BY <1>2, <2>1, <2>2, <2>4, OwnSlotFrame
  <1>3. CASE r \notin ROpens
    <2>1. slot' = slot /\ pending' = pending /\ draining' = draining
      BY <1>1, <1>3 DEF CleanUp, slotVars
    <2>2. QuietStage(r)
      BY <1>0, <1>1, <1>3 DEF QuietStage, Claim, TypeOK
    <2>3. \A q \in Requests \ {r} : pc'[q] = pc[q] /\ job'[q] = job[q] /\ sid'[q] = sid[q]
      BY <1>0, <1>1 DEF TypeOK
    <2>4. \A q \in Requests : QuietStage(q)
      BY <2>2, <2>3, OthersQuiet
    <2> QED BY <1>1, <2>1, <2>4, QuietSlots
  <1> QED BY <1>2, <1>3

(* A dropped request leaves its slot behind. *)
LEMMA DropSlots ==
    ASSUME StreamInv, SlotInv, NEW r \in Requests, DropRequest(r)
    PROVE  SlotInv'
  <1>0. TypeOK
    BY DEF StreamInv
  <1>1. /\ slot' = slot /\ pending' = pending /\ draining' = draining /\ closer' = closer
        /\ job' = job /\ sid' = sid /\ pc' = [pc EXCEPT ![r] = "dropped"]
    BY DEF DropRequest, Goto, slotVars, jobVars, endVars
  <1>2. \A i : Kept(i)' = Kept(i)
    BY <1>1 DEF Kept
  <1>3. \A q \in Requests : SlotOf(q)'
    BY <1>0, <1>1, <1>2 DEF SlotInv, SlotOf, TypeOK
  <1>4. ~NobodyDropped'
    BY <1>0, <1>1 DEF NobodyDropped, TypeOK
  <1> QED BY <1>1, <1>3, <1>4 DEF SlotInv, OwnedSlots

(* The steps of on_open and finish_open. *)
LEMMA JobSlots ==
    ASSUME StreamInv, SlotInv, NEW r \in Requests, r \in Opens,
           \/ OpenSlot(r) \/ OpenKey(r) \/ OpenUnkey(r) \/ OpenRespond(r)
           \/ FinishPoll(r) \/ FinishOpen(r) \/ JobAborted(r)
    PROVE  SlotInv'
  <1>0. TypeOK /\ Place(r) /\ SlotOf(r) /\ ClosedFirst
    BY DEF StreamInv, PlacesMatch, SlotInv
  <1>1. job[r] # "none"
    BY DEF OpenSlot, OpenKey, OpenUnkey, OpenRespond, FinishPoll, FinishOpen, JobAborted
  <1>2. r \notin ROpens /\ sid[r] \in Ids
    BY <1>0, <1>1, KindFacts DEF Place, TypeOK
  <1>3. sid' = sid /\ pc' = pc /\ draining' = draining
    BY DEF OpenSlot, OpenKey, OpenUnkey, OpenRespond, FinishPoll, FinishOpen, JobAborted, reqVars,
       RemoveWaitStream, slotVars
  <1>c. \/ closer'["acceptor"] = closer["acceptor"]
        \/ closer["acceptor"] \in BeforeKeys /\ closer'["acceptor"] \in BeforeKeys
    BY <1>0, EndFacts DEF OpenSlot, OpenKey, OpenUnkey, OpenRespond, FinishPoll, FinishOpen,
       JobAborted, endVars, LeaveLoop, BeginClose, BeforeKeys, TypeOK
  <1>4. Alone(r)
    BY <1>0, <1>3 DEF OpenSlot, OpenKey, OpenUnkey, OpenRespond, FinishPoll, FinishOpen,
       JobAborted, Alone, JobTo, TypeOK
  <1>5. OwnSlot(r)
    BY <1>0, <1>2, <1>3, <1>c DEF OpenSlot, OpenKey, OpenUnkey, OpenRespond, FinishPoll,
       FinishOpen, JobAborted, OwnSlot, RemoveWaitStream, slotVars, TypeOK
  <1>6. SlotKept(sid[r]) /\ ClaimKept(r) /\ SlotOf(r)'
    <2> USE <1>0, <1>2, <1>3, <1>c
        DEF TypeOK, JobTo, SlotKept, ClaimKept, SlotOf, Claim, OwnerJobs, Kept, BeforeKeys
    <2>1. CASE OpenSlot(r)
      BY <2>1 DEF OpenSlot
    <2>2. CASE OpenKey(r)
      BY <2>2, EndFacts DEF OpenKey, ClosedFirst, endVars
    <2>3. CASE OpenUnkey(r)
      BY <2>3 DEF OpenUnkey, RemoveWaitStream
    <2>4. CASE OpenRespond(r)
      BY <2>4 DEF OpenRespond, slotVars
    <2>5. CASE FinishPoll(r)
      BY <2>5 DEF FinishPoll
    <2>6. CASE FinishOpen(r)
      BY <2>6 DEF FinishOpen
    <2>7. CASE JobAborted(r)
      BY <2>7 DEF JobAborted, slotVars, InlineStates, JobStates
    <2> QED BY <2>1, <2>2, <2>3, <2>4, <2>5, <2>6, <2>7
  <1> QED BY <1>1, <1>2, <1>3, <1>4, <1>5, <1>6, OwnSlotFrame

(* Shutdown may abort the job of an ROpen, which holds no slot. *)
LEMMA AbortQuiet ==
    ASSUME StreamInv, SlotInv, NEW r \in Requests, r \notin Opens, JobAborted(r)
    PROVE  SlotInv'
  <1>0. TypeOK
    BY DEF StreamInv
  <1>1. /\ slot' = slot /\ pending' = pending /\ draining' = draining /\ pc' = pc /\ sid' = sid
        /\ closer' = closer /\ job' = [job EXCEPT ![r] = "ended"]
    BY DEF JobAborted, JobTo, slotVars, reqVars, endVars
  <1>2. QuietStage(r)
    BY <1>0, <1>1 DEF QuietStage, Claim, TypeOK
  <1>3. \A q \in Requests \ {r} : pc'[q] = pc[q] /\ job'[q] = job[q] /\ sid'[q] = sid[q]
    BY <1>0, <1>1 DEF TypeOK
  <1>4. \A q \in Requests : QuietStage(q)
    BY <1>2, <1>3, OthersQuiet
  <1> QED BY <1>1, <1>4, QuietSlots

(* Nobody's stage or id changes, nor does a slot appear. *)
LEMMA StillSlots ==
    ASSUME StreamInv, SlotInv, pc' = pc, job' = job, sid' = sid,
           draining' # {} => closer'["acceptor"] = "slots",
           \A i \in Ids : slot'[i] # None => slot[i] # None /\ (Kept(i) => Kept(i)')
    PROVE  SlotInv'
  <1>1. \A i \in Ids : SlotKept(i)
    BY DEF SlotKept
  <1>2. ASSUME NEW q \in Requests PROVE StageKept(q) /\ ClaimKept(q)
    <2>1. Claim(q) => sid[q] \in Ids
      BY ClaimFacts
    <2>2. Claim(q)' <=> Claim(q)
      BY DEF Claim
    <2> QED BY <2>1, <2>2 DEF StageKept, ClaimKept
  <1> QED BY <1>1, <1>2, SlotFrame

(* notify_ropen_stream fills a slot that is there. *)
LEMMA HelloSlots ==
    ASSUME StreamInv, SlotInv, NEW r \in Requests, HelloStream(r)
    PROVE  SlotInv'
  <1>0. TypeOK
    BY DEF StreamInv
  <1>1. /\ pending' = pending /\ draining' = draining /\ closer' = closer
        /\ pc' = pc /\ job' = job /\ sid' = sid
    BY DEF HelloStream, endVars, reqVars, jobVars
  <1>2. \A i \in Ids : slot'[i] # None => slot[i] # None
    BY <1>0 DEF HelloStream, TypeOK
  <1> QED BY <1>1, <1>2, StillSlots DEF Kept, SlotInv

(* close() takes over the keys, and then removes the slots it has drained. *)
LEMMA CloseSlots ==
    ASSUME StreamInv, SlotInv, NEW e \in Ends, DrainKeys(e) \/ RemoveSlots(e)
    PROVE  SlotInv'
  <1>0. TypeOK /\ (draining # {} => closer["acceptor"] = "slots") /\ "acceptor" \in Ends
    BY EndFacts DEF StreamInv, SlotInv
  <1>1. pc' = pc /\ job' = job /\ sid' = sid
    BY DEF DrainKeys, RemoveSlots, reqVars, jobVars
  <1>2. draining' # {} => closer'["acceptor"] = "slots"
    BY <1>0 DEF DrainKeys, RemoveSlots, TypeOK
  <1>3. \A i \in Ids : slot'[i] # None => slot[i] # None /\ (Kept(i) => Kept(i)')
    <2>1. CASE DrainKeys(e)
      BY <1>0, <2>1 DEF DrainKeys, Kept, TypeOK
    <2>2. CASE RemoveSlots(e)
      BY <1>0, <2>2 DEF RemoveSlots, Kept, TypeOK
    <2> QED BY <2>1, <2>2
  <1> QED BY <1>1, <1>2, <1>3, StillSlots

-----------------------------------------------------------------------------
(* All three together *)

ResourceInv == StreamInv /\ EpochInv /\ WaiterInv /\ SlotInv

LEMMA ResourceInit == Init => ResourceInv
  <1> SUFFICES ASSUME Init PROVE ResourceInv
    OBVIOUS
  <1>1. StreamInv
    BY StreamInvInit
  <1>2. EpochInv
    <2>1. \A e \in Ends : used[e] = {} /\ Here(e) = {}
      BY DEF Init, Here
    <2> QED BY <2>1, BoundAssumption, FS_EmptySet DEF EpochInv
  <1>3. WaiterInv
    BY DEF Init, WaiterInv, WaiterOf
  <1>4. SlotInv
    BY DEF Init, SlotInv, SlotOf, OwnedSlots
  <1> QED BY <1>1, <1>2, <1>3, <1>4 DEF ResourceInv

LEMMA ResourceNext == ResourceInv /\ [Next]_vars => ResourceInv'
  <1> SUFFICES ASSUME ResourceInv, [Next]_vars PROVE ResourceInv'
    OBVIOUS
  <1>0. StreamInv /\ EpochInv /\ WaiterInv /\ SlotInv /\ TypeOK /\ PlacesMatch
    BY DEF ResourceInv, StreamInv
  <1>1. StreamInv'
    BY <1>0, StreamInvNext
  <1>2. ASSUME NEW r \in Requests, RequestStep(r) \/ DropRequest(r)
        PROVE  EpochInv' /\ WaiterInv' /\ SlotInv'
    <2>1. KnowsNoMore \/ \E e \in Ends : Learns(e)
      BY <1>0, <1>2, RequestKnows, ReserveLearns, EndFacts
    <2>2. SlotInv'
      BY <1>0, <1>2, RequestQuiet, RequestSlots, RequestEnds, DropSlots DEF RequestStep
    <2> QED BY <1>0, <1>1, <1>2, <2>1, <2>2, EpochStep, RequestWaiters
  <1>3. ASSUME NEW r \in Requests, JobStep(r) \/ HelloStream(r)
        PROVE  EpochInv' /\ WaiterInv' /\ SlotInv'
    <2>1. KnowsNoMore
      BY <1>0, <1>3, JobKnows
    <2>2. \/ r \in Opens
          \/ HelloStream(r) \/ ROpenBuild(r) \/ ROpenRespond(r) \/ ROpenDeliver(r)
          \/ r \notin Opens /\ JobAborted(r)
      <3>1. Place(r)
        BY <1>0 DEF PlacesMatch
      <3> QED BY <1>3, <3>1 DEF JobStep, OpenSlot, OpenKey, OpenUnkey, OpenRespond, FinishPoll,
             FinishOpen, Place, InlineStates
    <2>3. SlotInv'
      BY <1>0, <1>3, <2>2, JobSlots, JobQuiet, AbortQuiet, HelloSlots DEF JobStep
    <2> QED BY <1>0, <1>1, <1>3, <2>1, <2>3, EpochStep, JobWaiters
  <1>4. ASSUME NEW e \in Ends,
               LoopStep(e) \/ LoopFails(e) \/ CloseStep(e) \/ CloseTunnel(e) \/ ReachAge(e)
        PROVE  EpochInv' /\ WaiterInv' /\ SlotInv'
    <2>1. KnowsNoMore \/ Learns(e)
      BY <1>0, <1>4, EndKnows, AdmitLearns
    <2>2. SlotInv'
      BY <1>0, <1>4, EndQuiet, CloseSlots DEF CloseStep
    <2> QED BY <1>0, <1>1, <1>4, <2>1, <2>2, EpochStep, EndWaiters
  <1>5. CASE UNCHANGED vars
    <2>1. /\ closer' = closer /\ used' = used /\ pc' = pc /\ sid' = sid /\ rx' = rx
          /\ waiters' = waiters /\ job' = job
          /\ slot' = slot /\ pending' = pending /\ draining' = draining
      BY <1>5 DEF vars, endVars, reqVars, jobVars, slotVars
    <2>2. KnowsNoMore
      BY <2>1 DEF KnowsNoMore
    <2>3. SlotInv'
      BY <1>0, <2>1, StillSlots DEF Kept, SlotInv
    <2> QED BY <1>0, <1>1, <2>1, <2>2, <2>3, EpochStep, SameWaiters DEF ResourceInv
  <1>6. \/ UNCHANGED vars
        \/ \E r \in Requests : RequestStep(r) \/ DropRequest(r) \/ JobStep(r) \/ HelloStream(r)
        \/ \E e \in Ends : \/ LoopStep(e) \/ LoopFails(e) \/ CloseStep(e) \/ CloseTunnel(e)
                           \/ ReachAge(e)
    BY DEF Next
  <1> QED BY <1>1, <1>2, <1>3, <1>4, <1>5, <1>6 DEF ResourceInv

(* The invariants of the epoch, the waiters and the slots always hold. *)
THEOREM ResourceInvariance == Spec => []ResourceInv
  BY ResourceInit, ResourceNext, PTL DEF Spec

(* request_open_stream, on_open and close() keep all of StreamsSound: types, *)
(* one stream per id, legs with their request, no id behind a close().       *)
THEOREM StreamsAlwaysSound == Spec => []StreamsSound
  BY StreamTypeCorrect, OneStream, LegsAlwaysMatch, ReservationsAlwaysEnd, PTL DEF StreamsSound

(* A tunnel key never encrypts more streams at an end than                  *)
(* max_stream_ids_per_tunnel, although close() clears used_stream_ids.      *)
THEOREM KeyEpochAlwaysBounded == Spec => []KeyEpochBounded
  <1>1. ResourceInv => KeyEpochBounded
    <2> SUFFICES ASSUME ResourceInv, NEW e \in Ends
                 PROVE  Cardinality({k \in keyed : k.end = e}) <= MaxIds
      BY DEF KeyEpochBounded
    <2>0. TypeOK /\ KeyedIsHere /\ EpochInv /\ MaxIds \in Nat
      BY BoundAssumption DEF ResourceInv, StreamInv
    <2>1. PICK K, H : K = {k \in keyed : k.end = e} /\ H = Here(e)
      OBVIOUS
    <2>2. IsFiniteSet(H) /\ Cardinality(H) \in Nat /\ Cardinality(H) <= MaxIds
      BY <2>0, <2>1, EndSets DEF EpochInv
    <2>3. PICK g : g = [k \in K |-> k.req]
      OBVIOUS
    <2>4. \A k \in K : g[k] \in H
      BY <2>0, <2>1, <2>3 DEF KeyedIsHere
    <2>5. \A k, l \in K : g[k] = g[l] => k = l
      <3> SUFFICES ASSUME NEW k \in K, NEW l \in K, g[k] = g[l]
                   PROVE  k = l
        OBVIOUS
      <3>1. /\ k \in [end : Ends, req : Requests, leg : Requests]
            /\ l \in [end : Ends, req : Requests, leg : Requests]
        BY <2>0, <2>1 DEF TypeOK
      <3>2. k.end = e /\ l.end = e /\ k.leg = k.req /\ l.leg = l.req /\ k.req = l.req
        BY <2>0, <2>1, <2>3 DEF KeyedIsHere
      <3> QED BY <3>1, <3>2
    <2>6. IsFiniteSet(K) /\ Cardinality(K) <= Cardinality(H)
      BY <2>2, <2>4, <2>5, InjectsInto
    <2>7. Cardinality(K) \in Nat
      BY <2>6, FS_CardinalityType
    <2> QED BY <2>0, <2>1, <2>2, <2>6, <2>7
  <1> QED BY <1>1, ResourceInvariance, PTL

(* As long as no caller drops its request, every waiter belongs to a       *)
(* request in flight, and every slot of the stack's wait map has an owner  *)
(* who removes it or is still ahead of close(): no race of deadlines, late *)
(* answers, failing loops, aborted tasks and close() leaks one.            *)
THEOREM ResourcesAlwaysOwned == Spec => []ResourcesOwned
  <1>1. ResourceInv => ResourcesOwned
    <2> SUFFICES ASSUME ResourceInv, NobodyDropped
                 PROVE  SlotsOwned /\ WaitersOwned
      BY DEF ResourcesOwned, NobodyDropped
    <2>1. TypeOK /\ WaiterInv /\ SlotInv
      BY DEF ResourceInv, StreamInv
    <2>2. WaitersOwned
      BY <2>1 DEF WaitersOwned, WaiterInv, WaiterOf, NobodyDropped, InFlight, TypeOK
    <2>3. ASSUME NEW i \in Ids, slot[i] # None, NEW r \in Requests, sid[r] = i, Claim(r)
          PROVE  Owner(i)
      BY <2>3 DEF Owner, Claim, OwnerPcs, OwnerJobs
    <2>4. \A i \in Ids : slot[i] # None => Kept(i) \/ Owner(i)
      BY <2>1, <2>3 DEF SlotInv, OwnedSlots
    <2> QED BY <2>2, <2>4 DEF SlotsOwned, Kept
  <1> QED BY <1>1, ResourceInvariance, PTL
============================================================================

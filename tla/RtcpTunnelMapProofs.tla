------------------------- MODULE RtcpTunnelMapProofs -------------------------
(***************************************************************************)
(* Proofs about RtcpTunnelMap, for every set of tunnels, names, devices,   *)
(* keys and documents and every choice of the inputs: the indexes, then    *)
(* the commit lock, the authority's Negative and the shutdown, then the    *)
(* refinement of TunnelRegistry.                                           *)
(***************************************************************************)
EXTENDS RtcpTunnelMap, TLAPS

USE KeyAssumption, NoneAssumption

-----------------------------------------------------------------------------
(* What the methods of RTcpTunnelMapState do to a map state.               *)

(* remove_instance_binding clears exactly the bindings of S, takes exactly *)
(* S out of both indexes and keeps them in agreement.                      *)
LEMMA RemoveFacts ==
    ASSUME NEW m \in MapState, Agree(m), NEW S \in SUBSET Tunnels,
           NEW r, r = RemoveInstanceBinding(m, S)
    PROVE  /\ r \in MapState
           /\ Agree(r)
           /\ r.tunnels = m.tunnels /\ r.lifecycle = m.lifecycle
           /\ \A t \in Tunnels :
                r.binding[t] = IF t \in S THEN NoBinding ELSE m.binding[t]
           /\ \A n \in Names : r.verified[n] = m.verified[n] \ S
           /\ \A d \in Devs : r.byDev[d].instances = m.byDev[d].instances \ S
           /\ \A d \in Devs : \/ r.byDev[d] = UnboundDev
                              \/ m.byDev[d] # UnboundDev /\ r.byDev[d].name = m.byDev[d].name
  <1> DEFINE gone == {t \in S : m.binding[t] # NoBinding}
             rest(d) == m.byDev[d].instances \ {t \in gone : m.binding[t].dev = d}
  <1>1. /\ r.tunnels = m.tunnels /\ r.lifecycle = m.lifecycle
        /\ r.binding = [t \in Tunnels |-> IF t \in gone THEN NoBinding ELSE m.binding[t]]
        /\ r.verified = [n \in Names |->
                          m.verified[n] \ {t \in gone : m.binding[t].name = n}]
        /\ r.byDev = [d \in Devs |->
                       IF rest(d) = {} THEN UnboundDev
                       ELSE [name |-> m.byDev[d].name, instances |-> rest(d)]]
    BY DEF RemoveInstanceBinding, MapState
  <1>r. r = [lifecycle |-> m.lifecycle, tunnels |-> m.tunnels,
             verified |-> r.verified, binding |-> r.binding, byDev |-> r.byDev]
    BY DEF RemoveInstanceBinding, MapState
  <1>2. \A t \in Tunnels :
          r.binding[t] = IF t \in S THEN NoBinding ELSE m.binding[t]
    BY <1>1
  <1>3. \A n \in Names : r.verified[n] = m.verified[n] \ S
    <2> TAKE n \in Names
    <2>1. m.verified[n] \subseteq Tunnels
      BY DEF MapState
    <2>2. \A t \in m.verified[n] : m.binding[t].name = n
      BY DEF Agree, VerifiedIsBound
    <2>3. \A t \in m.verified[n] : m.binding[t] # NoBinding
      BY <2>2 DEF NoBinding
    <2> QED BY <1>1, <2>1, <2>2, <2>3
  <1>4. \A d \in Devs : rest(d) = m.byDev[d].instances \ S
    BY DEF Agree, ReverseIsBound
  <1>5. \A d \in Devs : /\ r.byDev[d].instances = m.byDev[d].instances \ S
                        /\ r.byDev[d].instances = {} => r.byDev[d] = UnboundDev
                        /\ r.byDev[d].instances # {} => r.byDev[d].name = m.byDev[d].name
    BY <1>1, <1>4 DEF UnboundDev
  <1>6. r \in MapState
    <2>1. r.verified \in [Names -> SUBSET Tunnels]
      BY <1>1 DEF MapState
    <2>2. r.binding \in [Tunnels -> [name : Names \cup {None}, dev : Devs \cup {None},
                              key : Keys \cup {None}]]
      BY <1>1 DEF MapState, NoBinding
    <2>3. r.byDev \in [Devs -> [name : Names \cup {None}, instances : SUBSET Tunnels]]
      BY <1>1 DEF MapState, UnboundDev
    <2>4. m.lifecycle \in {"Running", "Stopping", "Stopped"} /\ m.tunnels \in [Keys -> Tunnels \cup {None}]
      BY DEF MapState
    <2> QED BY <1>r, <2>1, <2>2, <2>3, <2>4 DEF MapState
  <1>7. BindingsAreReversed(r)
    <2> SUFFICES ASSUME NEW t \in Tunnels, r.binding[t] # NoBinding
                 PROVE  /\ r.binding[t].name \in Names
                        /\ r.binding[t].key \in Keys
                        /\ r.binding[t].key = cand[t].key
                        /\ r.binding[t].dev = KeyDev[r.binding[t].key]
                        /\ t \in r.byDev[r.binding[t].dev].instances
                        /\ r.byDev[r.binding[t].dev].name = r.binding[t].name
      BY DEF BindingsAreReversed
    <2>1. t \notin S /\ r.binding[t] = m.binding[t]
      BY <1>2
    <2>2. /\ m.binding[t].name \in Names
          /\ m.binding[t].key \in Keys
          /\ m.binding[t].key = cand[t].key
          /\ m.binding[t].dev = KeyDev[m.binding[t].key]
          /\ t \in m.byDev[m.binding[t].dev].instances
          /\ m.byDev[m.binding[t].dev].name = m.binding[t].name
      BY <2>1 DEF Agree, BindingsAreReversed
    <2>3. m.binding[t].dev \in Devs
      BY <2>2
    <2> QED BY <2>1, <2>2, <2>3, <1>5
  <1>8. ReverseIsBound(r)
    <2> SUFFICES ASSUME NEW d \in Devs
                 PROVE  /\ \A t \in r.byDev[d].instances : r.binding[t] # NoBinding /\ r.binding[t].dev = d
                        /\ r.byDev[d].instances = {} => r.byDev[d] = UnboundDev
      BY DEF ReverseIsBound
    <2>1. m.byDev[d].instances \subseteq Tunnels
      BY DEF MapState
    <2> QED BY <1>2, <1>5, <2>1 DEF Agree, ReverseIsBound
  <1>9. VerifiedIsBound(r)
    <2> SUFFICES ASSUME NEW n \in Names, NEW t \in r.verified[n]
                 PROVE  r.binding[t].name = n /\ cand[t].doc # None /\ cand[t].name = n
      BY DEF VerifiedIsBound
    <2>1. t \in m.verified[n] /\ t \notin S /\ t \in Tunnels
      BY <1>3 DEF MapState
    <2> QED BY <1>2, <2>1 DEF Agree, VerifiedIsBound
  <1>10. \A d \in Devs : \/ r.byDev[d] = UnboundDev
                         \/ m.byDev[d] # UnboundDev /\ r.byDev[d].name = m.byDev[d].name
    <2> SUFFICES ASSUME NEW d \in Devs, r.byDev[d] # UnboundDev
                 PROVE  m.byDev[d] # UnboundDev /\ r.byDev[d].name = m.byDev[d].name
      OBVIOUS
    <2>1. r.byDev[d].instances # {}
      BY <1>5
    <2>2. m.byDev[d].instances # {}
      BY <1>5, <2>1
    <2>3. m.byDev[d] # UnboundDev
      BY <2>2 DEF UnboundDev
    <2> QED BY <1>5, <2>1, <2>3
  <1>11. Agree(r)
    BY <1>7, <1>8, <1>9 DEF Agree
  <1>12. /\ r.tunnels = m.tunnels /\ r.lifecycle = m.lifecycle
         /\ \A d \in Devs : r.byDev[d].instances = m.byDev[d].instances \ S
    BY <1>1, <1>5
  <1> QED BY <1>2, <1>3, <1>6, <1>10, <1>11, <1>12, Zenon

(* BoundIsPrimary of any map state. *)
Primary(m) ==
    \A t \in Tunnels : m.binding[t] # NoBinding => m.tunnels[m.binding[t].key] = t

(* A device is not bound to another name. *)
FreeFor(m, d, n) == m.byDev[d] = UnboundDev \/ m.byDev[d].name = n

(* Every entry of the revision index is bound, but for t under n, which is *)
(* about to be bound.                                                      *)
VerifiedButFor(m, t, n) ==
    \A o \in Names : \A s \in m.verified[o] :
        /\ cand[s].doc # None /\ cand[s].name = o
        /\ m.binding[s].name = o \/ (s = t /\ o = n)

(* record_instance_binding after the arbitration has passed. *)
LEMMA RecordFacts ==
    ASSUME NEW m \in MapState, NEW t \in Tunnels, NEW n \in Names, NEW k \in Keys,
           BindingsAreReversed(m), ReverseIsBound(m), VerifiedButFor(m, t, n),
           k = cand[t].key,
           FreeFor(m, KeyDev[k], n),
           m.binding[t] = NoBinding \/ m.binding[t].name = n,
           NEW r, r = RecordInstanceBinding(m, t, n, KeyDev[k], k)
    PROVE  /\ r \in MapState
           /\ Agree(r)
           /\ r.tunnels = m.tunnels /\ r.lifecycle = m.lifecycle
           /\ r.verified = m.verified
           /\ r.binding[t].name = n /\ r.binding[t].key = k
           /\ \A s \in Tunnels \ {t} : r.binding[s] = m.binding[s]
  <1>d. PICK d : d = KeyDev[k]
    OBVIOUS
  <1>b. PICK b : b = [name |-> n, dev |-> d, key |-> k]
    OBVIOUS
  <1>0. /\ d \in Devs /\ b # NoBinding
        /\ b.name = n /\ b.dev = d /\ b.key = k
        /\ b \in [name : Names \cup {None}, dev : Devs \cup {None}, key : Keys \cup {None}]
    BY <1>b, <1>d DEF NoBinding
  <1>1. /\ r.tunnels = m.tunnels /\ r.lifecycle = m.lifecycle
        /\ r.verified = m.verified
        /\ r.binding = [m.binding EXCEPT ![t] = b]
        /\ r.byDev = [m.byDev EXCEPT ![d] =
              [name |-> IF m.byDev[d] = UnboundDev THEN n ELSE m.byDev[d].name,
               instances |-> m.byDev[d].instances \cup {t}]]
    BY <1>b, <1>d DEF RecordInstanceBinding, MapState
  <1>r. r = [lifecycle |-> m.lifecycle, tunnels |-> m.tunnels,
             verified |-> r.verified, binding |-> r.binding, byDev |-> r.byDev]
    BY <1>b, <1>d DEF RecordInstanceBinding, MapState
  <1>2. /\ r.byDev[d].name = n
        /\ r.byDev[d].instances = m.byDev[d].instances \cup {t}
        /\ \A e \in Devs \ {d} : r.byDev[e] = m.byDev[e]
    <2>1. PICK w : w = IF m.byDev[d] = UnboundDev THEN n ELSE m.byDev[d].name
      OBVIOUS
    <2>2. w = n
      BY <2>1, <1>d DEF FreeFor
    <2>3. r.byDev = [m.byDev EXCEPT ![d] =
             [name |-> w, instances |-> m.byDev[d].instances \cup {t}]]
      BY <1>1, <2>1
    <2>4. DOMAIN m.byDev = Devs
      BY DEF MapState
    <2> QED BY <1>0, <2>2, <2>3, <2>4
  <1>3. /\ r.binding[t] = b
        /\ \A s \in Tunnels \ {t} : r.binding[s] = m.binding[s]
    BY <1>1 DEF MapState
  <1>4. r \in MapState
    <2>1. r.verified \in [Names -> SUBSET Tunnels]
      BY <1>1 DEF MapState
    <2>2. r.binding \in [Tunnels -> [name : Names \cup {None}, dev : Devs \cup {None},
                              key : Keys \cup {None}]]
      BY <1>0, <1>1 DEF MapState
    <2>3. r.byDev \in [Devs -> [name : Names \cup {None}, instances : SUBSET Tunnels]]
      BY <1>0, <1>1 DEF MapState
    <2>4. m.lifecycle \in {"Running", "Stopping", "Stopped"} /\ m.tunnels \in [Keys -> Tunnels \cup {None}]
      BY DEF MapState
    <2> QED BY <1>r, <2>1, <2>2, <2>3, <2>4 DEF MapState
  <1>5. BindingsAreReversed(r)
    <2> SUFFICES ASSUME NEW s \in Tunnels, r.binding[s] # NoBinding
                 PROVE  /\ r.binding[s].name \in Names
                        /\ r.binding[s].key \in Keys
                        /\ r.binding[s].key = cand[s].key
                        /\ r.binding[s].dev = KeyDev[r.binding[s].key]
                        /\ s \in r.byDev[r.binding[s].dev].instances
                        /\ r.byDev[r.binding[s].dev].name = r.binding[s].name
      BY DEF BindingsAreReversed
    <2>1. CASE s = t
      BY <2>1, <1>0, <1>2, <1>3, <1>d
    <2>2. CASE s # t
      <3>1. /\ r.binding[s] = m.binding[s]
            /\ m.binding[s].name \in Names
            /\ m.binding[s].key \in Keys
            /\ m.binding[s].key = cand[s].key
            /\ m.binding[s].dev = KeyDev[m.binding[s].key]
            /\ s \in m.byDev[m.binding[s].dev].instances
            /\ m.byDev[m.binding[s].dev].name = m.binding[s].name
        BY <2>2, <1>3 DEF BindingsAreReversed
      <3>2. PICK e \in Devs : e = m.binding[s].dev
        BY <3>1
      <3>3. s \in m.byDev[e].instances /\ m.byDev[e].name = m.binding[s].name
        BY <3>1, <3>2
      <3>4. CASE e = d
        <4>1. m.byDev[d] # UnboundDev
          BY <3>3, <3>4 DEF UnboundDev
        <4>2. s \in r.byDev[e].instances /\ r.byDev[e].name = m.binding[s].name
          BY <3>3, <3>4, <4>1, <1>2, <1>d DEF FreeFor
        <4> QED BY <3>1, <3>2, <4>2
      <3>5. CASE e # d
        <4>1. r.byDev[e] = m.byDev[e]
          BY <3>2, <3>5, <1>2
        <4> QED BY <3>1, <3>2, <3>3, <4>1
      <3> QED BY <3>4, <3>5
    <2> QED BY <2>1, <2>2
  <1>6. ReverseIsBound(r)
    <2> SUFFICES ASSUME NEW e \in Devs
                 PROVE  /\ \A s \in r.byDev[e].instances : r.binding[s] # NoBinding /\ r.binding[s].dev = e
                        /\ r.byDev[e].instances = {} => r.byDev[e] = UnboundDev
      BY DEF ReverseIsBound
    <2>1. m.byDev[e].instances \subseteq Tunnels
      BY DEF MapState
    <2>2. t \in m.byDev[e].instances => e = d
      <3> SUFFICES ASSUME t \in m.byDev[e].instances PROVE e = d
        OBVIOUS
      <3>1. m.binding[t] # NoBinding /\ m.binding[t].dev = e
        BY DEF ReverseIsBound
      <3> QED BY <3>1, <1>d DEF BindingsAreReversed
    <2>3. CASE e = d
      BY <2>1, <2>3, <1>0, <1>2, <1>3 DEF ReverseIsBound
    <2>4. CASE e # d
      BY <2>1, <2>2, <2>4, <1>2, <1>3 DEF ReverseIsBound
    <2> QED BY <2>3, <2>4
  <1>7. VerifiedIsBound(r)
    <2> SUFFICES ASSUME NEW o \in Names, NEW s \in r.verified[o]
                 PROVE  r.binding[s].name = o /\ cand[s].doc # None /\ cand[s].name = o
      BY DEF VerifiedIsBound
    <2>1. /\ s \in Tunnels /\ cand[s].doc # None /\ cand[s].name = o
          /\ m.binding[s].name = o \/ (s = t /\ o = n)
      BY <1>1 DEF VerifiedButFor, MapState
    <2>2. CASE s # t
      BY <2>1, <2>2, <1>3
    <2>3. CASE s = t
      <3>1. m.binding[t].name = o => m.binding[t] # NoBinding
        BY DEF NoBinding
      <3>2. o = n
        BY <2>1, <2>3, <3>1
      <3> QED BY <2>1, <2>3, <3>2, <1>0, <1>3
    <2> QED BY <2>2, <2>3
  <1> QED BY <1>0, <1>1, <1>3, <1>4, <1>5, <1>6, <1>7 DEF Agree

(* The prune of conflicting_logical_binding touches closed instances only, *)
(* and when there is no conflict it leaves the device free for the name.   *)
LEMMA PruneFacts ==
    ASSUME NEW m \in MapState, Agree(m), NEW n, NEW d \in Devs,
           NEW r, r = PruneStaleBinding(m, n, d)
    PROVE  /\ r \in MapState
           /\ Agree(r)
           /\ r.tunnels = m.tunnels /\ r.lifecycle = m.lifecycle
           /\ \A t \in Tunnels : \/ r.binding[t] = m.binding[t]
                                 \/ t \in closed /\ r.binding[t] = NoBinding
           /\ \A o \in Names : /\ r.verified[o] \subseteq m.verified[o]
                               /\ m.verified[o] \ closed \subseteq r.verified[o]
           /\ ~Conflicting(m, n, d) => FreeFor(r, d, n)
  <1> DEFINE S == m.byDev[d].instances
  <1>1. CASE m.byDev[d] # UnboundDev /\ m.byDev[d].name # n /\ ~Conflicting(m, n, d)
    <2>1. r = RemoveInstanceBinding(m, S) /\ S \in SUBSET Tunnels
      BY <1>1 DEF PruneStaleBinding, MapState
    <2>2. \A t \in S : t \in closed
      BY <1>1 DEF Conflicting, Agree, ReverseIsBound
    <2>3. /\ r \in MapState /\ Agree(r)
          /\ r.tunnels = m.tunnels /\ r.lifecycle = m.lifecycle
          /\ \A t \in Tunnels :
                r.binding[t] = IF t \in S THEN NoBinding ELSE m.binding[t]
          /\ \A o \in Names : r.verified[o] = m.verified[o] \ S
          /\ \A e \in Devs : r.byDev[e].instances = m.byDev[e].instances \ S
      BY <2>1, RemoveFacts
    <2>4. r.byDev[d] = UnboundDev
      BY <2>3 DEF Agree, ReverseIsBound
    <2> QED BY <2>2, <2>3, <2>4 DEF FreeFor
  <1>2. CASE ~(m.byDev[d] # UnboundDev /\ m.byDev[d].name # n /\ ~Conflicting(m, n, d))
    BY <1>2 DEF PruneStaleBinding, FreeFor
  <1> QED BY <1>1, <1>2

-----------------------------------------------------------------------------
(* A well-formed map, relative to the set C of closed instances: the        *)
(* indexes agree, bound instances are primary, an instance is registered    *)
(* under its own key only, and the live verified ones are indexed.          *)
Holders(m) == \A k \in Keys : m.tunnels[k] # None => cand[m.tunnels[k]].key = k

LiveIndexed(m, C) ==
    \A k \in Keys :
        m.tunnels[k] # None /\ m.tunnels[k] \notin C /\ cand[m.tunnels[k]].doc # None
            => m.tunnels[k] \in m.verified[cand[m.tunnels[k]].name]

Good(m, C) ==
    m \in MapState /\ Agree(m) /\ Primary(m) /\ Holders(m) /\ LiveIndexed(m, C)

(* A document names the logical DID it is admitted for. *)
NamedDocs ==
    \A t \in Tunnels : cand[t].doc # None =>
        cand[t].name \in Names /\ cand[t].name = DocName[cand[t].doc]

(* Pruning keeps a map well formed. *)
LEMMA PruneGood ==
    ASSUME NamedDocs, NEW m, Good(m, closed), NEW n, NEW d \in Devs,
           NEW r, r = PruneStaleBinding(m, n, d)
    PROVE  Good(r, closed)
  <1>1. m \in MapState /\ Agree(m)
    BY DEF Good
  <1>2. /\ r \in MapState
        /\ Agree(r)
        /\ r.tunnels = m.tunnels /\ r.lifecycle = m.lifecycle
        /\ \A t \in Tunnels : \/ r.binding[t] = m.binding[t]
                              \/ t \in closed /\ r.binding[t] = NoBinding
        /\ \A o \in Names : /\ r.verified[o] \subseteq m.verified[o]
                            /\ m.verified[o] \ closed \subseteq r.verified[o]
    BY <1>1, PruneFacts
  <1>3. Primary(r)
    BY <1>2 DEF Good, Primary
  <1>4. Holders(r)
    BY <1>2 DEF Good, Holders
  <1>5. LiveIndexed(r, closed)
    <2> SUFFICES ASSUME NEW k \in Keys, m.tunnels[k] # None, m.tunnels[k] \notin closed,
                        cand[m.tunnels[k]].doc # None
                 PROVE  m.tunnels[k] \in r.verified[cand[m.tunnels[k]].name]
      BY <1>2 DEF LiveIndexed
    <2>1. m.tunnels[k] \in m.verified[cand[m.tunnels[k]].name]
      BY DEF Good, LiveIndexed
    <2>2. m.tunnels[k] \in Tunnels
      BY <1>1 DEF MapState
    <2>3. cand[m.tunnels[k]].name \in Names
      BY <2>2 DEF NamedDocs
    <2> QED BY <1>2, <2>1, <2>3
  <1> QED BY <1>2, <1>3, <1>4, <1>5 DEF Good

(* The pairs of key and instance in R are about instances of S. *)
Covers(B, C, S) == C \subseteq B /\ S \subseteq B
Within(R, S) == \A k \in Keys, t \in Tunnels : <<k, t>> \in R => t \in S

(* r is m without bindings of instances of S and without some slots of S;  *)
(* nobody is indexed anew.                                                 *)
Without(r, m, S) ==
    /\ r.lifecycle = m.lifecycle
    /\ \A k \in Keys : \/ r.tunnels[k] = m.tunnels[k]
                       \/ r.tunnels[k] = None /\ m.tunnels[k] \in S
    /\ \A t \in Tunnels : r.binding[t] = IF t \in S THEN NoBinding ELSE m.binding[t]
    /\ \A n \in Names : r.verified[n] \subseteq m.verified[n]

(* Taking closed instances out of the map keeps it well formed. *)
LEMMA DetachGood ==
    ASSUME NamedDocs, NEW m, NEW C, Good(m, C), NEW S \in SUBSET Tunnels,
           NEW R, Within(R, S),
           NEW B, Covers(B, C, S),
           NEW q, q = RemovePrimaryIfInstance(m, R), NEW r, r = RemoveInstanceBinding(q, S)
    PROVE  Good(r, B) /\ Without(r, m, S)
  <1>m. m \in MapState /\ Agree(m) /\ Primary(m)
    BY DEF Good
  <1>a. q = [m EXCEPT !.tunnels =
               [k \in Keys |-> IF <<k, m.tunnels[k]>> \in R THEN None ELSE m.tunnels[k]]]
    BY DEF RemovePrimaryIfInstance
  <1>1. /\ q.tunnels = [k \in Keys |-> IF <<k, m.tunnels[k]>> \in R THEN None
                                       ELSE m.tunnels[k]]
        /\ q.lifecycle = m.lifecycle /\ q.verified = m.verified
        /\ q.binding = m.binding /\ q.byDev = m.byDev
    BY <1>a, <1>m DEF MapState
  <1>2. q \in MapState
    <2>1. q.tunnels \in [Keys -> Tunnels \cup {None}]
      BY <1>m, <1>1 DEF MapState
    <2> QED BY <1>m, <1>a, <1>1, <2>1 DEF MapState
  <1>3. Agree(q)
    BY <1>m, <1>1 DEF Agree, BindingsAreReversed, ReverseIsBound, VerifiedIsBound
  <1>4. /\ r \in MapState /\ Agree(r)
        /\ r.tunnels = q.tunnels /\ r.lifecycle = q.lifecycle
        /\ \A t \in Tunnels :
                r.binding[t] = IF t \in S THEN NoBinding ELSE q.binding[t]
        /\ \A n \in Names : r.verified[n] = q.verified[n] \ S
    BY <1>2, <1>3, RemoveFacts
  <1>5. Primary(r)
    <2> SUFFICES ASSUME NEW t \in Tunnels, r.binding[t] # NoBinding
                 PROVE  r.tunnels[r.binding[t].key] = t
      BY DEF Primary
    <2>1. t \notin S /\ r.binding[t] = m.binding[t]
      BY <1>1, <1>4
    <2>2. m.binding[t].key \in Keys /\ m.tunnels[m.binding[t].key] = t
      BY <1>m, <2>1 DEF Agree, BindingsAreReversed, Primary
    <2> QED BY <1>1, <1>4, <2>1, <2>2 DEF Within
  <1>f. /\ r \in MapState
        /\ Agree(r)
        /\ r.lifecycle = m.lifecycle
        /\ \A k \in Keys : r.tunnels[k] = IF <<k, m.tunnels[k]>> \in R
                                          THEN None ELSE m.tunnels[k]
        /\ \A t \in Tunnels :
             r.binding[t] = IF t \in S THEN NoBinding ELSE m.binding[t]
        /\ \A n \in Names : r.verified[n] = m.verified[n] \ S
    BY <1>1, <1>4
  <1>6. Holders(r)
    BY <1>f DEF Good, Holders
  <1>7. LiveIndexed(r, B)
    <2> SUFFICES ASSUME NEW k \in Keys, r.tunnels[k] # None, r.tunnels[k] \notin B,
                        cand[r.tunnels[k]].doc # None
                 PROVE  r.tunnels[k] \in r.verified[cand[r.tunnels[k]].name]
      BY DEF LiveIndexed
    <2>0. r.tunnels[k] = m.tunnels[k]
      BY <1>f
    <2>1. m.tunnels[k] \in m.verified[cand[m.tunnels[k]].name]
      BY <2>0 DEF Good, LiveIndexed, Covers
    <2>2. m.tunnels[k] \in Tunnels
      BY <1>m, <2>0 DEF MapState
    <2>3. cand[m.tunnels[k]].name \in Names
      BY <2>0, <2>2 DEF NamedDocs
    <2> QED BY <1>f, <2>0, <2>1, <2>3 DEF Covers
  <1>8. \A k \in Keys : \/ r.tunnels[k] = m.tunnels[k]
                        \/ r.tunnels[k] = None /\ m.tunnels[k] \in S
    <2> TAKE k \in Keys
    <2>1. m.tunnels[k] \in Tunnels \cup {None}
      BY <1>m DEF MapState
    <2>2. CASE <<k, m.tunnels[k]>> \in R
      <3>1. r.tunnels[k] = None
        BY <1>f, <2>2
      <3>2. m.tunnels[k] \in Tunnels => m.tunnels[k] \in S
        BY <2>2 DEF Within
      <3> QED BY <2>1, <3>1, <3>2
    <2>3. CASE <<k, m.tunnels[k]>> \notin R
      BY <1>f, <2>3
    <2> QED BY <2>2, <2>3
  <1>9. Without(r, m, S)
    BY <1>f, <1>8 DEF Without
  <1> QED BY <1>f, <1>5, <1>6, <1>7, <1>9 DEF Good

(* Naming the instance that holds a slot: the target's device is free or   *)
(* already bound to that name.                                             *)
LEMMA BindGood ==
    ASSUME NEW m, NEW C, Good(m, C), NEW e \in Tunnels, NEW n \in Names, NEW k \in Keys,
           m.tunnels[k] = e, FreeFor(m, KeyDev[k], n),
           NEW r, r = RecordInstanceBinding(m, e, n, KeyDev[k], k)
    PROVE  /\ Good(r, C)
           /\ r.tunnels = m.tunnels /\ r.lifecycle = m.lifecycle
           /\ r.verified = m.verified
           /\ \A t \in Tunnels : r.binding[t] = m.binding[t] \/ r.binding[t].name = n
  <1>1. m \in MapState /\ Agree(m) /\ Primary(m)
    BY DEF Good
  <1>2. PICK d \in Devs : d = KeyDev[k]
    OBVIOUS
  <1>3. cand[e].key = k
    BY DEF Good, Holders
  <1>4. m.binding[e] = NoBinding \/ m.binding[e].name = n
    <2> SUFFICES ASSUME m.binding[e] # NoBinding PROVE m.binding[e].name = n
      OBVIOUS
    <2>1. /\ m.binding[e].dev = d
          /\ e \in m.byDev[d].instances
          /\ m.byDev[d].name = m.binding[e].name
      BY <1>1, <1>2, <1>3 DEF Agree, BindingsAreReversed
    <2> QED BY <1>2, <2>1 DEF UnboundDev, FreeFor
  <1>5. BindingsAreReversed(m) /\ ReverseIsBound(m) /\ VerifiedButFor(m, e, n)
    BY <1>1 DEF Agree, VerifiedIsBound, VerifiedButFor
  <1>8. /\ r \in MapState
        /\ Agree(r)
        /\ r.tunnels = m.tunnels /\ r.lifecycle = m.lifecycle
        /\ r.verified = m.verified
        /\ r.binding[e].name = n /\ r.binding[e].key = k
        /\ \A t \in Tunnels \ {e} : r.binding[t] = m.binding[t]
    BY <1>1, <1>3, <1>4, <1>5, RecordFacts
  <1>10. Primary(r)
    BY <1>1, <1>8 DEF Primary
  <1>11. Holders(r) /\ LiveIndexed(r, C)
    BY <1>8 DEF Good, Holders, LiveIndexed
  <1> QED BY <1>8, <1>10, <1>11 DEF Good

(* t takes the free slot of its key: the instance that held it is closed   *)
(* and loses its binding.                                                  *)
LEMMA TakeFacts ==
    ASSUME NEW m, Good(m, closed), NEW t \in Tunnels, NEW k \in Keys, k = cand[t].key,
           ~Live(m, k), \A j \in Keys : m.tunnels[j] # t,
           NEW r, r = TakeSlot(m, t)
    PROVE  /\ r \in MapState /\ Agree(r) /\ Primary(r) /\ Holders(r)
           /\ r.lifecycle = m.lifecycle
           /\ r.tunnels[k] = t /\ \A j \in Keys \ {k} : r.tunnels[j] = m.tunnels[j]
           /\ \A s \in Tunnels : r.binding[s] = m.binding[s] \/ r.binding[s] = NoBinding
           /\ r.binding[t] = NoBinding
           /\ \A n \in Names : /\ r.verified[n] \subseteq m.verified[n]
                               /\ m.verified[n] \ closed \subseteq r.verified[n]
                               /\ t \notin r.verified[n]
           /\ \A d \in Devs : \/ r.byDev[d] = UnboundDev
                              \/ m.byDev[d] # UnboundDev /\ r.byDev[d].name = m.byDev[d].name
  <1>1. m \in MapState /\ Agree(m) /\ Primary(m) /\ Holders(m)
    BY DEF Good
  <1>2. PICK old : old = IF m.tunnels[k] = None THEN {} ELSE {m.tunnels[k]}
    OBVIOUS
  <1>3. old \in SUBSET Tunnels /\ \A s \in old : s \in closed /\ s = m.tunnels[k]
    BY <1>1, <1>2 DEF Live, MapState
  <1>4. PICK q : q = InsertPrimary(m, k, t)
    OBVIOUS
  <1>5. /\ q.tunnels = [m.tunnels EXCEPT ![k] = t]
        /\ q.lifecycle = m.lifecycle /\ q.verified = m.verified
        /\ q.binding = m.binding /\ q.byDev = m.byDev
        /\ q = [lifecycle |-> m.lifecycle, tunnels |-> q.tunnels,
                verified |-> m.verified, binding |-> m.binding, byDev |-> m.byDev]
    BY <1>1, <1>4 DEF InsertPrimary, MapState
  <1>6. q \in MapState
    <2>1. q.tunnels \in [Keys -> Tunnels \cup {None}]
      BY <1>1, <1>5 DEF MapState
    <2> QED BY <1>1, <1>5, <2>1 DEF MapState
  <1>7. Agree(q)
    BY <1>1, <1>5 DEF Agree, BindingsAreReversed, ReverseIsBound, VerifiedIsBound
  <1>8. r = RemoveInstanceBinding(q, old)
    BY <1>2, <1>4 DEF TakeSlot
  <1>9. /\ r \in MapState
        /\ Agree(r)
        /\ r.tunnels = q.tunnels /\ r.lifecycle = q.lifecycle
        /\ \A s \in Tunnels :
             r.binding[s] = IF s \in old THEN NoBinding ELSE q.binding[s]
        /\ \A n \in Names : r.verified[n] = q.verified[n] \ old
        /\ \A d \in Devs : \/ r.byDev[d] = UnboundDev
                           \/ q.byDev[d] # UnboundDev /\ r.byDev[d].name = q.byDev[d].name
    BY <1>3, <1>6, <1>7, <1>8, RemoveFacts
  <1>10. r.tunnels[k] = t /\ \A j \in Keys \ {k} : r.tunnels[j] = m.tunnels[j]
    BY <1>1, <1>5, <1>9 DEF MapState
  <1>11. \A s \in Tunnels : m.binding[s] # NoBinding =>
            m.binding[s].key \in Keys /\ m.tunnels[m.binding[s].key] = s
    BY <1>1 DEF Primary, Agree, BindingsAreReversed
  <1>12. m.binding[t] = NoBinding
    BY <1>11
  <1>13. Primary(r)
    <2> SUFFICES ASSUME NEW s \in Tunnels, r.binding[s] # NoBinding
                 PROVE  r.tunnels[r.binding[s].key] = s
      BY DEF Primary
    <2>1. s \notin old /\ r.binding[s] = m.binding[s]
      BY <1>5, <1>9
    <2>2. m.binding[s].key \in Keys /\ m.tunnels[m.binding[s].key] = s
      BY <1>11, <2>1
    <2>3. m.binding[s].key # k
      BY <1>2, <2>1, <2>2
    <2> QED BY <1>10, <2>1, <2>2, <2>3
  <1>14. Holders(r)
    BY <1>1, <1>10 DEF Holders
  <1>15. \A n \in Names : t \notin r.verified[n]
    BY <1>5, <1>9, <1>12 DEF Agree, VerifiedIsBound, NoBinding
  <1> QED BY <1>3, <1>5, <1>9, <1>10, <1>12, <1>13, <1>14, <1>15

(* An instance without a verified document takes its slot. *)
LEMMA TakeGood ==
    ASSUME NamedDocs, NEW m, Good(m, closed), NEW t \in Tunnels, NEW k \in Keys, k = cand[t].key,
           ~Live(m, k), \A j \in Keys : m.tunnels[j] # t, cand[t].doc = None,
           NEW r, r = TakeSlot(m, t)
    PROVE  Good(r, closed)
  <1>1. /\ r \in MapState /\ Agree(r) /\ Primary(r) /\ Holders(r)
        /\ r.tunnels[k] = t /\ \A j \in Keys \ {k} : r.tunnels[j] = m.tunnels[j]
        /\ \A n \in Names : m.verified[n] \ closed \subseteq r.verified[n]
    BY TakeFacts
  <1>2. LiveIndexed(r, closed)
    <2> SUFFICES ASSUME NEW j \in Keys, r.tunnels[j] # None, r.tunnels[j] \notin closed,
                        cand[r.tunnels[j]].doc # None
                 PROVE  r.tunnels[j] \in r.verified[cand[r.tunnels[j]].name]
      BY DEF LiveIndexed
    <2>1. r.tunnels[j] = m.tunnels[j]
      BY <1>1
    <2>2. m.tunnels[j] \in m.verified[cand[m.tunnels[j]].name]
      BY <2>1 DEF Good, LiveIndexed
    <2>3. cand[m.tunnels[j]].name \in Names
      BY <1>1, <2>1 DEF NamedDocs, MapState
    <2> QED BY <1>1, <2>1, <2>2, <2>3
  <1> QED BY <1>1, <1>2 DEF Good

(* t takes the slot k of m, and only instances of C lose theirs. *)
Takes(r, m, C, k, t) ==
    /\ r.tunnels[k] = t
    /\ \A j \in Keys \ {k} : \/ r.tunnels[j] = m.tunnels[j]
                             \/ r.tunnels[j] = None /\ m.tunnels[j] \in C

(* Only t is indexed anew, and the instances S that it supersedes were     *)
(* indexed.                                                                *)
Indexes(r, m, S, t) ==
    /\ \A o \in Names : r.verified[o] \subseteq m.verified[o] \cup {t}
    /\ \A s \in S : \E o \in Names : s \in m.verified[o]

(* An instance with a verified document takes its slot and is indexed; the *)
(* closed and the superseded instances of its name leave.                  *)
LEMMA IndexGood ==
    ASSUME NamedDocs, NEW m, Good(m, closed), NEW t \in Tunnels, NEW k \in Keys, k = cand[t].key,
           ~Live(m, k), \A j \in Keys : m.tunnels[j] # t, cand[t].doc # None,
           t \notin closed, NEW n, n = cand[t].name,
           FreeFor(m, KeyDev[k], n),
           NEW p, p = TakeSlot(m, t), NEW r, r = IndexVerified(p, t),
           NEW C, C = closed \cup Superseded(p, cand[t].doc)
    PROVE  /\ Good(r, C)
           /\ Superseded(p, cand[t].doc) \subseteq Tunnels
           /\ r.lifecycle = m.lifecycle
           /\ Takes(r, m, C, k, t)
           /\ Indexes(r, m, Superseded(p, cand[t].doc), t)
           /\ \A s \in Tunnels : \/ r.binding[s] = m.binding[s]
                                 \/ r.binding[s] = NoBinding
                                 \/ r.binding[s].name = n
  <1>1. /\ p \in MapState /\ Agree(p) /\ Primary(p) /\ Holders(p)
        /\ p.lifecycle = m.lifecycle
        /\ p.tunnels[k] = t /\ \A j \in Keys \ {k} : p.tunnels[j] = m.tunnels[j]
        /\ \A s \in Tunnels : p.binding[s] = m.binding[s] \/ p.binding[s] = NoBinding
        /\ p.binding[t] = NoBinding
        /\ \A o \in Names : /\ p.verified[o] \subseteq m.verified[o]
                            /\ m.verified[o] \ closed \subseteq p.verified[o]
                            /\ t \notin p.verified[o]
        /\ \A d \in Devs : \/ p.byDev[d] = UnboundDev
                           \/ m.byDev[d] # UnboundDev /\ p.byDev[d].name = m.byDev[d].name
    BY TakeFacts
  <1>2. n \in Names /\ n = DocName[cand[t].doc]
    BY DEF NamedDocs
  <1>3. PICK stale : stale = (p.verified[n] \cap closed) \cup Superseded(p, cand[t].doc)
    OBVIOUS
  <1>4. /\ stale \in SUBSET p.verified[n] /\ stale \in SUBSET Tunnels /\ t \notin stale
        /\ Superseded(p, cand[t].doc) \subseteq stale
        /\ stale \subseteq closed \cup Superseded(p, cand[t].doc)
    BY <1>1, <1>2, <1>3 DEF Superseded, MapState
  <1>5. PICK q : q = InsertVerified(p, n, t)
    OBVIOUS
  <1>6. /\ q.tunnels = p.tunnels /\ q.lifecycle = p.lifecycle
        /\ q.binding = p.binding /\ q.byDev = p.byDev
        /\ q.verified = [p.verified EXCEPT ![n] = p.verified[n] \cup {t}]
    BY <1>1, <1>2, <1>5 DEF InsertVerified, MapState
  <1>q. q = [lifecycle |-> p.lifecycle, tunnels |-> p.tunnels,
             verified |-> q.verified, binding |-> p.binding, byDev |-> p.byDev]
    BY <1>1, <1>2, <1>5 DEF InsertVerified, MapState
  <1>7. \A o \in Names : q.verified[o] = IF o = n THEN p.verified[n] \cup {t}
                                         ELSE p.verified[o]
    BY <1>1, <1>2, <1>6 DEF MapState
  <1>8. q \in MapState
    <2>1. q.verified \in [Names -> SUBSET Tunnels]
      BY <1>1, <1>2, <1>6 DEF MapState
    <2> QED BY <1>1, <1>6, <1>q, <2>1 DEF MapState
  <1>9. BindingsAreReversed(q) /\ ReverseIsBound(q) /\ VerifiedButFor(q, t, n)
    <2>1. BindingsAreReversed(q) /\ ReverseIsBound(q)
      BY <1>1, <1>6 DEF Agree, BindingsAreReversed, ReverseIsBound
    <2>2. \A o \in Names : \A s \in p.verified[o] :
             p.binding[s].name = o /\ cand[s].doc # None /\ cand[s].name = o
      BY <1>1 DEF Agree, VerifiedIsBound
    <2>3. VerifiedButFor(q, t, n)
      BY <1>6, <1>7, <2>2 DEF VerifiedButFor
    <2> QED BY <2>1, <2>3
  <1>10. FreeFor(q, KeyDev[k], n)
    BY <1>1, <1>6 DEF FreeFor
  <1>11. PICK w : w = RecordInstanceBinding(q, t, n, KeyDev[k], k)
    OBVIOUS
  <1>12. /\ w \in MapState
         /\ Agree(w)
         /\ w.tunnels = q.tunnels /\ w.lifecycle = q.lifecycle
         /\ w.verified = q.verified
         /\ w.binding[t].name = n /\ w.binding[t].key = k
         /\ \A s \in Tunnels \ {t} : w.binding[s] = q.binding[s]
    <2>1. q.binding[t] = NoBinding
      BY <1>1, <1>6
    <2> QED BY <1>2, <1>8, <1>9, <1>10, <1>11, <2>1, RecordFacts
  <1>13. Primary(w)
    BY <1>1, <1>6, <1>12 DEF Primary
  <1>14. Holders(w)
    BY <1>1, <1>6, <1>12 DEF Holders
  <1>15. LiveIndexed(w, closed)
    <2> SUFFICES ASSUME NEW j \in Keys, w.tunnels[j] # None, w.tunnels[j] \notin closed,
                        cand[w.tunnels[j]].doc # None
                 PROVE  w.tunnels[j] \in w.verified[cand[w.tunnels[j]].name]
      BY DEF LiveIndexed
    <2>1. CASE j = k
      <3>1. w.tunnels[j] = t /\ t \in w.verified[n]
        BY <1>1, <1>2, <1>6, <1>7, <1>12, <2>1
      <3> QED BY <3>1
    <2>2. CASE j # k
      <3>1. w.tunnels[j] = m.tunnels[j]
        BY <1>1, <1>6, <1>12, <2>2
      <3>2. m.tunnels[j] \in m.verified[cand[m.tunnels[j]].name]
        BY <3>1 DEF Good, LiveIndexed
      <3>3. cand[m.tunnels[j]].name \in Names
        BY <1>12, <3>1 DEF NamedDocs, MapState
      <3>4. m.tunnels[j] \in p.verified[cand[m.tunnels[j]].name]
        BY <1>1, <3>1, <3>2, <3>3
      <3> QED BY <1>7, <1>12, <3>1, <3>3, <3>4
    <2> QED BY <2>1, <2>2
  <1>16. Good(w, closed)
    BY <1>12, <1>13, <1>14, <1>15 DEF Good
  <1>17. PICK R : R = {<<cand[e].key, e>> : e \in stale}
    OBVIOUS
  <1>v. PICK v : v = RemovePrimaryIfInstance(w, R)
    OBVIOUS
  <1>18. r = RemoveInstanceBinding(v, stale)
    BY <1>3, <1>5, <1>11, <1>17, <1>v DEF IndexVerified
  <1>19. Within(R, stale)
    BY <1>17 DEF Within
  <1>21. Covers(C, closed, stale)
    BY <1>4 DEF Covers
  <1>22. /\ Good(r, C)
         /\ \A j \in Keys : \/ r.tunnels[j] = w.tunnels[j]
                            \/ r.tunnels[j] = None /\ w.tunnels[j] \in stale
         /\ r.lifecycle = w.lifecycle
         /\ \A s \in Tunnels : r.binding[s] = IF s \in stale THEN NoBinding ELSE w.binding[s]
         /\ \A o \in Names : r.verified[o] \subseteq w.verified[o]
    <2>1. stale \in SUBSET Tunnels
      BY <1>4
    <2>2. PICK x : x = RemoveInstanceBinding(v, stale)
      OBVIOUS
    <2>3. Good(x, C) /\ Without(x, w, stale)
      BY <1>16, <1>19, <1>21, <1>v, <2>1, <2>2, DetachGood
    <2> QED BY <1>18, <2>2, <2>3 DEF Without
  <1>20. r.tunnels[k] = t
    <2>1. w.tunnels[k] = t
      BY <1>1, <1>6, <1>12
    <2> QED BY <1>4, <1>22, <2>1
  <1>23. Takes(r, m, C, k, t)
    <2>1. \A j \in Keys \ {k} : w.tunnels[j] = m.tunnels[j]
      BY <1>1, <1>6, <1>12
    <2>2. stale \subseteq C
      BY <1>4
    <2>3. \A j \in Keys \ {k} : \/ r.tunnels[j] = m.tunnels[j]
                                \/ r.tunnels[j] = None /\ m.tunnels[j] \in C
      BY <1>22, <2>1, <2>2
    <2> QED BY <1>20, <2>3 DEF Takes
  <1>24. \A s \in Tunnels : \/ r.binding[s] = m.binding[s]
                            \/ r.binding[s] = NoBinding
                            \/ r.binding[s].name = n
    BY <1>1, <1>6, <1>12, <1>22
  <1>25. Indexes(r, m, Superseded(p, cand[t].doc), t)
    <2>1. \A o \in Names : r.verified[o] \subseteq m.verified[o] \cup {t}
      BY <1>1, <1>7, <1>12, <1>22
    <2>2. Superseded(p, cand[t].doc) \subseteq m.verified[n]
      BY <1>1, <1>2, <1>4
    <2> QED BY <1>2, <2>1, <2>2 DEF Indexes
  <1> QED BY <1>1, <1>4, <1>6, <1>12, <1>22, <1>23, <1>24, <1>25

-----------------------------------------------------------------------------
(* The inductive invariant.                                                *)

(* TypeOK of everything but the map. *)
TypeRest ==
    /\ closed \subseteq Tunnels
    /\ pc \in [Tunnels -> PCs]
    /\ cand \in [Tunnels -> [key : Keys \cup {None}, doc : Docs \cup {None},
                             name : Names \cup {None}]]
    /\ snap \in [Tunnels -> Tunnels \cup {None}]
    /\ trust \in [Tunnels -> {"key", "snapshot", "authority"}]
    /\ conf \in [Tunnels -> Confs]
    /\ authority \in [Names -> AuthorityStates]
    /\ commit \in Tunnels \cup {None}
    /\ best \in [Names -> Docs \cup {None}]
    /\ tasks \in [runtime : BOOLEAN, cleanup : BOOLEAN]

(* What the task of an instance is about, at each of its stages. *)
CandOf(t) ==
    /\ pc[t] # "idle" => cand[t].key \in Keys
    /\ pc[t] \in {"hello", "recover", "resolve", "resolved", "commit"} => cand[t].doc # None
    /\ pc[t] \in {"idle", "hello", "recover", "resolve"} => conf[t] = "none"
    /\ pc[t] \in OutCreating => cand[t].doc = None
    /\ conf[t] # "none" => cand[t].doc # None
    /\ pc[t] = "rollback" => t \in closed

CandOK == NamedDocs /\ \A t \in Tunnels : CandOf(t)

(* Before its publication or registration an instance holds no slot. *)
Early == {"idle"} \cup InHandshake \cup OutCreating
Unheld == \A t \in Tunnels : pc[t] \in Early => \A k \in Keys : map.tunnels[k] # t

IInv == TypeRest /\ CandOK /\ Good(map, closed) /\ Unheld

(* The facts about documents, without the integers of DocIat. *)
LEMMA DocFacts ==
    /\ \A doc \in Docs : DocName[doc] \in Names /\ DocDev[doc] \in Devs
    /\ InDocs \subseteq Docs /\ InDevs \subseteq Devs
    /\ \A target \in Dials : target.key \in Keys /\ target.name \in Names \cup {None}
    /\ ReportTrusts \subseteq {"snapshot", "authority"}
  BY DocAssumption, InputAssumption

-----------------------------------------------------------------------------
(* Every action keeps the map well formed.  First the actions that leave   *)
(* the candidates alone: it is enough that the new map is well formed and  *)
(* that no early instance gains a slot.                                    *)

NoEarlyGain ==
    \A s \in Tunnels : pc'[s] \in Early =>
        /\ pc[s] \in Early
        /\ \A k \in Keys : map'.tunnels[k] = s => map.tunnels[k] = s

(* A well-formed new map without such a gain keeps the map invariants. *)
LEMMA KeepCand ==
    ASSUME IInv, cand' = cand, NEW m, m = map', NEW C, C = closed', Good(m, C), NoEarlyGain
    PROVE  Good(map, closed)' /\ Unheld'
  <1>1. Good(map, closed)'
    BY DEF Good, Agree, BindingsAreReversed, ReverseIsBound, VerifiedIsBound, Primary,
           Holders, LiveIndexed
  <1>2. Unheld'
    BY DEF IInv, Unheld, NoEarlyGain
  <1> QED BY <1>1, <1>2

(* The map is unchanged. *)
LEMMA KeepMap ==
    ASSUME IInv, cand' = cand, map' = map, closed \subseteq closed',
           \A s \in Tunnels : pc'[s] \in Early => pc[s] \in Early
    PROVE  Good(map, closed)' /\ Unheld'
  <1>1. PICK C : C = closed'
    OBVIOUS
  <1>2. LiveIndexed(map, C)
    BY <1>1 DEF IInv, Good, LiveIndexed
  <1>3. Good(map, C)
    BY <1>2 DEF IInv, Good
  <1>4. NoEarlyGain
    BY DEF NoEarlyGain
  <1>5. PICK m : m = map'
    OBVIOUS
  <1>6. Good(m, C)
    BY <1>3, <1>5
  <1> QED BY <1>1, <1>4, <1>5, <1>6, KeepCand

(* An early instance has neither a slot nor a binding nor a revision: its  *)
(* candidate may change.                                                   *)
LEMMA NewCand ==
    ASSUME IInv, NEW t \in Tunnels, pc[t] \in Early, map' = map, closed' = closed,
           \A s \in Tunnels \ {t} : cand'[s] = cand[s],
           \A s \in Tunnels : pc'[s] \in Early => pc[s] \in Early
    PROVE  Good(map, closed)' /\ Unheld'
  <1>1. map \in MapState /\ Agree(map) /\ Primary(map) /\ Holders(map) /\ LiveIndexed(map, closed)
    BY DEF IInv, Good
  <1>2. \A k \in Keys : map.tunnels[k] # t
    BY DEF IInv, Unheld
  <1>3. map.binding[t] = NoBinding
    BY <1>1, <1>2 DEF Primary, Agree, BindingsAreReversed
  <1>4. \A n \in Names : t \notin map.verified[n]
    BY <1>1, <1>3 DEF Agree, VerifiedIsBound, NoBinding
  <1>5. BindingsAreReversed(map)'
    BY <1>1, <1>3 DEF Agree, BindingsAreReversed
  <1>6. ReverseIsBound(map)'
    BY <1>1 DEF Agree, ReverseIsBound
  <1>7. VerifiedIsBound(map)'
    BY <1>1, <1>4 DEF Agree, VerifiedIsBound, MapState
  <1>8. Holders(map)' /\ LiveIndexed(map, closed)'
    BY <1>1, <1>2 DEF Holders, LiveIndexed, MapState
  <1>9. Unheld'
    BY DEF IInv, Unheld
  <1> QED BY <1>1, <1>5, <1>6, <1>7, <1>8, <1>9 DEF Good, Agree, Primary

(* remove_if_current of an instance that is closed by then. *)
LEMMA RemoveIfCurrentStep ==
    ASSUME IInv, NEW t \in Tunnels, map' = RemoveIfCurrent(map, t), cand' = cand,
           closed' = closed \cup {t},
           \A s \in Tunnels : pc'[s] \in Early => pc[s] \in Early
    PROVE  Good(map, closed)' /\ Unheld'
  <1>1. PICK C : C = closed'
    OBVIOUS
  <1>2. PICK R : R = {<<cand[t].key, t>>}
    OBVIOUS
  <1>3. PICK S : S = {t}
    OBVIOUS
  <1>4. PICK q : q = RemovePrimaryIfInstance(map, R)
    OBVIOUS
  <1>5. PICK r : r = RemoveInstanceBinding(q, S)
    OBVIOUS
  <1>6. map' = r
    BY <1>2, <1>3, <1>4, <1>5 DEF RemoveIfCurrent
  <1>7. Within(R, S) /\ Covers(C, closed, S) /\ S \in SUBSET Tunnels
    BY <1>1, <1>2, <1>3 DEF Within, Covers
  <1>8. NamedDocs /\ Good(map, closed)
    BY DEF IInv, CandOK
  <1>9. Good(r, C) /\ Without(r, map, S)
    BY <1>4, <1>5, <1>7, <1>8, DetachGood
  <1>10. NoEarlyGain
    BY <1>6, <1>9 DEF NoEarlyGain, Without
  <1> QED BY <1>1, <1>6, <1>9, <1>10, KeepCand

(* The prune of an arbitration that goes no further. *)
LEMMA PruneStep ==
    ASSUME IInv, NEW n, NEW d \in Devs, map' = PruneStaleBinding(map, n, d), cand' = cand,
           closed' = closed, \A s \in Tunnels : pc'[s] \in Early => pc[s] \in Early
    PROVE  Good(map, closed)' /\ Unheld'
  <1>1. NamedDocs /\ Good(map, closed)
    BY DEF IInv, CandOK
  <1>2. map \in MapState /\ Agree(map)
    BY <1>1 DEF Good
  <1>3. PICK r : r = PruneStaleBinding(map, n, d)
    OBVIOUS
  <1>4. Good(r, closed)
    BY <1>1, <1>3, PruneGood
  <1>5. r.tunnels = map.tunnels
    BY <1>2, <1>3, PruneFacts
  <1>6. NoEarlyGain
    BY <1>3, <1>5 DEF NoEarlyGain
  <1>7. PICK C : C = closed'
    OBVIOUS
  <1>8. Good(r, C)
    BY <1>4, <1>7
  <1> QED BY <1>3, <1>6, <1>7, <1>8, KeepCand

(* The two one-to-one gates of an inbound tunnel, passed. *)
LEMMA GatedMapFacts ==
    ASSUME IInv, NEW t \in Tunnels, InMapSection(t), NEW m, m = GatedMap(t)
    PROVE  /\ cand[t].key \in Keys /\ KeyDev[cand[t].key] \in Devs
           /\ Good(m, closed) /\ m.tunnels = map.tunnels /\ m.lifecycle = map.lifecycle
           /\ \A s \in Tunnels : m.binding[s] = map.binding[s] \/ m.binding[s] = NoBinding
           /\ cand[t].doc # None /\ ~NameConflict(t)
                => FreeFor(m, KeyDev[cand[t].key], cand[t].name)
           /\ \A j \in Keys : m.tunnels[j] # t
           /\ \A o \in Names : /\ m.verified[o] \subseteq map.verified[o]
                               /\ map.verified[o] \ closed \subseteq m.verified[o]
  <1>1. NamedDocs /\ Good(map, closed) /\ CandOf(t) /\ Unheld
    BY DEF IInv, CandOK
  <1>2. map \in MapState /\ Agree(map)
    BY <1>1 DEF Good
  <1>3. cand[t].key \in Keys
    BY <1>1 DEF CandOf, InMapSection
  <1>4. PICK d \in Devs : d = KeyDev[cand[t].key]
    BY <1>3
  <1>5. \A j \in Keys : map.tunnels[j] # t
    BY <1>1 DEF Unheld, InMapSection, Early, InHandshake
  <1>6. CASE cand[t].doc = None
    BY <1>1, <1>3, <1>4, <1>5, <1>6 DEF GatedMap
  <1>7. CASE cand[t].doc # None
    <2>1. PICK n : n = cand[t].name
      OBVIOUS
    <2>2. m = PruneStaleBinding(map, n, d)
      BY <1>4, <1>7, <2>1 DEF GatedMap
    <2>3. Good(m, closed)
      BY <1>1, <2>2, PruneGood
    <2>4. /\ m.tunnels = map.tunnels /\ m.lifecycle = map.lifecycle
          /\ \A s \in Tunnels : \/ m.binding[s] = map.binding[s]
                                \/ s \in closed /\ m.binding[s] = NoBinding
          /\ ~Conflicting(map, n, d) => FreeFor(m, d, n)
          /\ \A o \in Names : /\ m.verified[o] \subseteq map.verified[o]
                              /\ map.verified[o] \ closed \subseteq m.verified[o]
      BY <1>2, <2>2, PruneFacts
    <2>5. ~NameConflict(t) => ~Conflicting(map, n, d)
      BY <1>4, <1>7, <2>1 DEF NameConflict
    <2> QED BY <1>3, <1>4, <1>5, <2>1, <2>3, <2>4, <2>5
  <1> QED BY <1>6, <1>7

(* A refusal in replace_authenticated_inbound keeps the map well formed. *)
LEMMA RefuseInboundStep ==
    ASSUME IInv, NEW t \in Tunnels, RefuseInbound(t)
    PROVE  Good(map, closed)' /\ Unheld'
  <1>1. /\ InMapSection(t) /\ cand' = cand
        /\ \A s \in Tunnels : pc'[s] \in Early => pc[s] \in Early
    BY DEF RefuseInbound, Early, InHandshake, OutCreating, IInv, TypeRest
  <1>2. CASE /\ map.lifecycle = "Running"
             /\ closed' = closed \cup {t} /\ map' = RemoveIfCurrent(map, t)
    BY <1>1, <1>2, RemoveIfCurrentStep
  <1>3. CASE map' = map /\ closed \subseteq closed'
    BY <1>1, <1>3, KeepMap
  <1>4. CASE closed' = closed /\ map' = GatedMap(t)
    <2>1. PICK m : m = map'
      OBVIOUS
    <2>2. PICK C : C = closed'
      OBVIOUS
    <2>3. Good(m, closed) /\ m.tunnels = map.tunnels
      BY <1>1, <1>4, <2>1, GatedMapFacts
    <2>4. Good(m, C)
      BY <1>4, <2>2, <2>3
    <2>5. NoEarlyGain
      BY <1>1, <2>1, <2>3 DEF NoEarlyGain
    <2> QED BY <1>1, <2>1, <2>2, <2>4, <2>5, KeepCand
  <1> QED BY <1>2, <1>3, <1>4 DEF RefuseInbound

(* So does an acceptance, with its closing of superseded instances. *)
LEMMA AcceptInboundStep ==
    ASSUME IInv, NEW t \in Tunnels, AcceptInbound(t)
    PROVE  Good(map, closed)' /\ Unheld' /\ closed' \subseteq Tunnels
  <1>1. PICK m : m = GatedMap(t)
    OBVIOUS
  <1>2. InMapSection(t) /\ cand' = cand /\ ~NameConflict(t) /\ ~Live(m, cand[t].key)
        /\ t \notin closed /\ pc' = [pc EXCEPT ![t] = "published"]
    BY <1>1 DEF AcceptInbound, SlotTaken
  <1>3. PICK k \in Keys : k = cand[t].key
    BY <1>1, <1>2, GatedMapFacts
  <1>4. /\ Good(m, closed) /\ m.tunnels = map.tunnels
        /\ cand[t].doc # None => FreeFor(m, KeyDev[k], cand[t].name)
        /\ \A j \in Keys : m.tunnels[j] # t
    BY <1>1, <1>2, <1>3, GatedMapFacts
  <1>5. PICK p : p = TakeSlot(m, t)
    OBVIOUS
  <1>6. PICK r : r = map'
    OBVIOUS
  <1>7. PICK C : C = closed'
    OBVIOUS
  <1>8. NamedDocs /\ closed \subseteq Tunnels
    BY DEF IInv, CandOK, TypeRest
  <1>9. /\ Good(r, C) /\ C \subseteq Tunnels
        /\ \A j \in Keys : r.tunnels[j] \in {map.tunnels[j], None, t}
    <2>1. CASE cand[t].doc = None
      <3>1. r = p /\ C = closed
        BY <1>1, <1>5, <1>6, <1>7, <2>1 DEF AcceptInbound
      <3>2. Good(p, closed)
        BY <1>2, <1>3, <1>4, <1>5, <1>8, <2>1, TakeGood
      <3>3. p.tunnels[k] = t /\ \A j \in Keys \ {k} : p.tunnels[j] = m.tunnels[j]
        BY <1>2, <1>3, <1>4, <1>5, TakeFacts
      <3> QED BY <1>4, <1>8, <3>1, <3>2, <3>3
    <2>2. CASE cand[t].doc # None
      <3>1. PICK x : x = IndexVerified(p, t)
        OBVIOUS
      <3>2. PICK sup : sup = Superseded(p, cand[t].doc)
        OBVIOUS
      <3>3. r = x /\ C = closed \cup sup
        BY <1>1, <1>5, <1>6, <1>7, <2>2, <3>1, <3>2 DEF AcceptInbound
      <3>4. PICK n : n = cand[t].name
        OBVIOUS
      <3>5. FreeFor(m, KeyDev[k], n)
        BY <1>4, <2>2, <3>4
      <3>c. C = closed \cup Superseded(p, cand[t].doc)
        BY <3>2, <3>3
      <3>6. /\ Good(x, C) /\ Takes(x, m, C, k, t)
            /\ Superseded(p, cand[t].doc) \subseteq Tunnels
        BY <1>2, <1>3, <1>4, <1>5, <1>8, <2>2, <3>1, <3>c, <3>4, <3>5, IndexGood
      <3> QED BY <1>4, <1>8, <3>2, <3>3, <3>6 DEF Takes
    <2> QED BY <2>1, <2>2
  <1>10. NoEarlyGain
    BY <1>2, <1>6, <1>9 DEF NoEarlyGain, IInv, TypeRest, Early, InHandshake, OutCreating
  <1>11. Good(map, closed)' /\ Unheld'
    BY <1>2, <1>6, <1>7, <1>9, <1>10, KeepCand
  <1> QED BY <1>7, <1>9, <1>11

(* The gate of the outbound path, passed. *)
LEMMA OutboundGatedFacts ==
    ASSUME IInv, NEW t \in Tunnels, pc[t] \in {"acquire1", "acquire2", "dial"},
           NEW m, m = OutboundGatedMap(t)
    PROVE  /\ cand[t].key \in Keys /\ KeyDev[cand[t].key] \in Devs
           /\ Good(m, closed) /\ m.tunnels = map.tunnels /\ m.lifecycle = map.lifecycle
           /\ \A s \in Tunnels : m.binding[s] = map.binding[s] \/ m.binding[s] = NoBinding
           /\ cand[t].name # None /\ ~OutboundRefused(t)
                => FreeFor(m, KeyDev[cand[t].key], cand[t].name)
           /\ \A j \in Keys : m.tunnels[j] # t
           /\ \A o \in Names : m.verified[o] \subseteq map.verified[o]
  <1>1. NamedDocs /\ Good(map, closed) /\ CandOf(t) /\ Unheld
    BY DEF IInv, CandOK
  <1>2. map \in MapState /\ Agree(map)
    BY <1>1 DEF Good
  <1>3. cand[t].key \in Keys
    BY <1>1 DEF CandOf
  <1>4. PICK d \in Devs : d = KeyDev[cand[t].key]
    BY <1>3
  <1>5. \A j \in Keys : map.tunnels[j] # t
    BY <1>1 DEF Unheld, Early, OutCreating
  <1>6. CASE cand[t].name = None
    BY <1>1, <1>3, <1>4, <1>5, <1>6 DEF OutboundGatedMap
  <1>7. CASE cand[t].name # None
    <2>1. PICK n : n = cand[t].name
      OBVIOUS
    <2>2. m = PruneStaleBinding(map, n, d)
      BY <1>4, <1>7, <2>1 DEF OutboundGatedMap
    <2>3. Good(m, closed)
      BY <1>1, <2>2, PruneGood
    <2>4. /\ m.tunnels = map.tunnels /\ m.lifecycle = map.lifecycle
          /\ \A s \in Tunnels : \/ m.binding[s] = map.binding[s]
                                \/ s \in closed /\ m.binding[s] = NoBinding
          /\ ~Conflicting(map, n, d) => FreeFor(m, d, n)
          /\ \A o \in Names : /\ m.verified[o] \subseteq map.verified[o]
                              /\ map.verified[o] \ closed \subseteq m.verified[o]
      BY <1>2, <2>2, PruneFacts
    <2>5. ~OutboundRefused(t) => ~Conflicting(map, n, d)
      BY <1>4, <1>7, <2>1 DEF OutboundRefused
    <2> QED BY <1>3, <1>4, <1>5, <2>1, <2>3, <2>4, <2>5
  <1> QED BY <1>6, <1>7

(* The name of a dial is recorded on the instance that holds its slot. *)
LEMMA BindNameFacts ==
    ASSUME IInv, NEW t \in Tunnels, NEW m, Good(m, closed), NEW e \in Tunnels,
           NEW k \in Keys, k = cand[t].key, m.tunnels[k] = e,
           cand[t].name # None => FreeFor(m, KeyDev[k], cand[t].name),
           NEW r, r = BindName(m, t, e)
    PROVE  /\ Good(r, closed) /\ r.tunnels = m.tunnels /\ r.lifecycle = m.lifecycle
           /\ r.verified = m.verified
           /\ \A s \in Tunnels : \/ r.binding[s] = m.binding[s]
                                 \/ cand[t].name # None /\ r.binding[s].name = cand[t].name
  <1>1. CASE cand[t].name = None
    BY <1>1 DEF BindName
  <1>2. CASE cand[t].name # None
    <2>1. PICK n \in Names : n = cand[t].name
      BY <1>2 DEF IInv, TypeRest
    <2>2. r = RecordInstanceBinding(m, e, n, KeyDev[k], k) /\ FreeFor(m, KeyDev[k], n)
      BY <1>2, <2>1 DEF BindName
    <2>3. /\ Good(r, closed)
          /\ r.tunnels = m.tunnels /\ r.lifecycle = m.lifecycle
          /\ r.verified = m.verified
          /\ \A s \in Tunnels : r.binding[s] = m.binding[s] \/ r.binding[s].name = n
      BY <2>2, BindGood
    <2> QED BY <1>2, <2>1, <2>3
  <1> QED BY <1>1, <1>2

(* A step that leaves the candidates and the closed set alone, and whose   *)
(* map r gives a slot to t at most, which is then early no more.           *)
LEMMA SlotStep ==
    ASSUME IInv, NEW t \in Tunnels, cand' = cand, closed \subseteq closed',
           NEW r, r = map', Good(r, closed),
           \A j \in Keys : r.tunnels[j] \in {map.tunnels[j], None, t},
           \A s \in Tunnels : pc'[s] \in Early => pc[s] \in Early,
           pc'[t] \in Early => \A j \in Keys : r.tunnels[j] # t
    PROVE  Good(map, closed)' /\ Unheld'
  <1>1. PICK C : C = closed'
    OBVIOUS
  <1>2. LiveIndexed(r, C)
    BY <1>1 DEF Good, LiveIndexed
  <1>3. Good(r, C)
    BY <1>2 DEF Good
  <1>4. NoEarlyGain
    BY DEF NoEarlyGain
  <1> QED BY <1>1, <1>3, <1>4, KeepCand

(* So does acquire_outbound: reuse, removal of a closed holder, refusal. *)
LEMMA AcquireOutboundStep ==
    ASSUME IInv, NEW t \in Tunnels, AcquireOutbound(t)
    PROVE  Good(map, closed)' /\ Unheld'
  <1>1. PICK m : m = OutboundGatedMap(t)
    OBVIOUS
  <1>2. /\ pc[t] \in {"acquire1", "acquire2"} /\ cand' = cand /\ closed' = closed
        /\ \A s \in Tunnels : pc'[s] \in Early => pc[s] \in Early
    BY DEF AcquireOutbound, Early, OutCreating, IInv, TypeRest
  <1>3. PICK k \in Keys : k = cand[t].key
    BY <1>1, <1>2, OutboundGatedFacts
  <1>4. /\ Good(m, closed) /\ m.tunnels = map.tunnels
        /\ cand[t].name # None /\ ~OutboundRefused(t) => FreeFor(m, KeyDev[k], cand[t].name)
        /\ \A j \in Keys : m.tunnels[j] # t
    BY <1>1, <1>2, <1>3, OutboundGatedFacts
  <1>5. PICK r : r = map'
    OBVIOUS
  <1>6. CASE map' = map
    BY <1>2, <1>6, KeepMap
  <1>7. CASE ~OutboundRefused(t) /\ Live(m, k) /\ map' = BindName(m, t, m.tunnels[k])
    <2>1. PICK e \in Tunnels : e = m.tunnels[k]
      BY <1>4, <1>7 DEF Good, MapState, Live
    <2>2. r = BindName(m, t, e) /\ m.tunnels[k] = e
      BY <1>5, <1>7, <2>1
    <2>3. cand[t].name # None => FreeFor(m, KeyDev[k], cand[t].name)
      BY <1>4, <1>7
    <2>4. Good(r, closed) /\ r.tunnels = m.tunnels
      BY <1>3, <1>4, <2>2, <2>3, BindNameFacts
    <2> QED BY <1>2, <1>4, <1>5, <2>4, SlotStep
  <1>8. CASE map' = m
    BY <1>2, <1>4, <1>8, SlotStep
  <1>9. CASE /\ Dead(m, k)
             /\ map' = RemoveInstanceBinding(
                          RemovePrimaryIfInstance(m, {<<k, m.tunnels[k]>>}),
                          {m.tunnels[k]})
    <2>1. PICK e \in Tunnels : e = m.tunnels[k] /\ e \in closed
      BY <1>4, <1>9 DEF Good, MapState, Dead
    <2>2. PICK R : R = {<<k, e>>}
      OBVIOUS
    <2>3. PICK S : S = {e}
      OBVIOUS
    <2>4. PICK q : q = RemovePrimaryIfInstance(m, R)
      OBVIOUS
    <2>5. PICK x : x = RemoveInstanceBinding(q, S)
      OBVIOUS
    <2>6. map' = x
      BY <1>9, <2>1, <2>2, <2>3, <2>4, <2>5
    <2>7. Within(R, S) /\ Covers(closed, closed, S) /\ S \in SUBSET Tunnels
      BY <2>1, <2>2, <2>3 DEF Within, Covers
    <2>8. NamedDocs
      BY DEF IInv, CandOK
    <2>9. Good(x, closed) /\ Without(x, m, S)
      BY <1>4, <2>4, <2>5, <2>7, <2>8, DetachGood
    <2>10. \A j \in Keys : x.tunnels[j] \in {map.tunnels[j], None}
      BY <1>4, <2>9 DEF Without
    <2> QED BY <1>2, <1>4, <2>6, <2>9, <2>10, SlotStep
  <1> QED BY <1>1, <1>3, <1>6, <1>7, <1>8, <1>9 DEF AcquireOutbound

(* So does register_outbound_if_absent. *)
LEMMA RegisterOutboundStep ==
    ASSUME IInv, NEW t \in Tunnels, RegisterOutboundIfAbsent(t), cand[t].doc = None
    PROVE  Good(map, closed)' /\ Unheld'
  <1>1. PICK m : m = OutboundGatedMap(t)
    OBVIOUS
  <1>2. /\ pc[t] = "dial" /\ cand' = cand /\ closed \subseteq closed' /\ pc'[t] \notin Early
        /\ \A s \in Tunnels : pc'[s] \in Early => pc[s] \in Early
    BY DEF RegisterOutboundIfAbsent, Early, OutCreating, InHandshake, IInv, TypeRest
  <1>3. PICK k \in Keys : k = cand[t].key
    BY <1>1, <1>2, OutboundGatedFacts
  <1>4. /\ Good(m, closed) /\ m.tunnels = map.tunnels
        /\ cand[t].name # None /\ ~OutboundRefused(t) => FreeFor(m, KeyDev[k], cand[t].name)
        /\ \A j \in Keys : m.tunnels[j] # t
    BY <1>1, <1>2, <1>3, OutboundGatedFacts
  <1>5. PICK r : r = map'
    OBVIOUS
  <1>6. CASE map' = map
    BY <1>2, <1>6, KeepMap
  <1>7. CASE ~OutboundRefused(t) /\ Live(m, k) /\ map' = BindName(m, t, m.tunnels[k])
    <2>1. PICK e \in Tunnels : e = m.tunnels[k]
      BY <1>4, <1>7 DEF Good, MapState, Live
    <2>2. r = BindName(m, t, e) /\ m.tunnels[k] = e
      BY <1>5, <1>7, <2>1
    <2>3. cand[t].name # None => FreeFor(m, KeyDev[k], cand[t].name)
      BY <1>4, <1>7
    <2>4. Good(r, closed) /\ r.tunnels = m.tunnels
      BY <1>3, <1>4, <2>2, <2>3, BindNameFacts
    <2> QED BY <1>2, <1>4, <1>5, <2>4, SlotStep
  <1>8. CASE ~OutboundRefused(t) /\ ~Live(m, k) /\ map' = BindName(TakeSlot(m, t), t, t)
    <2>1. PICK p : p = TakeSlot(m, t)
      OBVIOUS
    <2>2. NamedDocs
      BY DEF IInv, CandOK
    <2>3. Good(p, closed)
      BY <1>3, <1>4, <1>8, <2>1, <2>2, TakeGood
    <2>4. /\ p.tunnels[k] = t /\ \A j \in Keys \ {k} : p.tunnels[j] = m.tunnels[j]
          /\ \A d \in Devs : \/ p.byDev[d] = UnboundDev
                             \/ m.byDev[d] # UnboundDev /\ p.byDev[d].name = m.byDev[d].name
      BY <1>3, <1>4, <1>8, <2>1, TakeFacts
    <2>5. cand[t].name # None => FreeFor(p, KeyDev[k], cand[t].name)
      BY <1>4, <1>8, <2>4 DEF FreeFor
    <2>6. r = BindName(p, t, t)
      BY <1>5, <1>8, <2>1
    <2>7. Good(r, closed) /\ r.tunnels = p.tunnels
      BY <1>3, <2>3, <2>4, <2>5, <2>6, BindNameFacts
    <2>8. \A j \in Keys : r.tunnels[j] \in {map.tunnels[j], None, t}
      BY <1>4, <2>4, <2>7
    <2> QED BY <1>2, <1>5, <2>7, <2>8, SlotStep
  <1> QED BY <1>1, <1>3, <1>6, <1>7, <1>8 DEF RegisterOutboundIfAbsent

-----------------------------------------------------------------------------
(* Every action keeps the types and what is known of the candidates.       *)

(* An arriving Hello keeps the types and the candidates in order. *)
LEMMA InboundHelloRest ==
    ASSUME IInv, NEW t \in Tunnels, NEW d \in Devs, NEW doc \in Docs \cup {None},
           InboundHello(t, d, doc)
    PROVE  TypeRest' /\ CandOK'
  <1>1. PICK c : c = [key |-> DirectKey[d], doc |-> doc,
                      name |-> IF doc = None THEN None ELSE DocName[doc]]
    OBVIOUS
  <1>2. /\ c \in [key : Keys \cup {None}, doc : Docs \cup {None}, name : Names \cup {None}]
        /\ c.key \in Keys /\ c.doc = doc
        /\ doc # None => c.name \in Names /\ c.name = DocName[doc]
    BY <1>1, DocFacts
  <1>3. cand' = [cand EXCEPT ![t] = c]
    BY <1>1 DEF InboundHello
  <1>4. TypeRest'
    BY <1>2, <1>3 DEF IInv, TypeRest, InboundHello, PCs, InHandshake
  <1>5. NamedDocs'
    BY <1>2, <1>3 DEF IInv, TypeRest, CandOK, NamedDocs
  <1>6. \A s \in Tunnels : CandOf(s)'
    BY <1>2, <1>3 DEF IInv, TypeRest, CandOK, CandOf, InboundHello, OutCreating
  <1> QED BY <1>4, <1>5, <1>6 DEF CandOK

(* So does the start of a dial. *)
LEMMA CreateTunnelRest ==
    ASSUME IInv, NEW t \in Tunnels, NEW target \in Dials, CreateTunnel(t, target)
    PROVE  TypeRest' /\ CandOK'
  <1>1. PICK c : c = [key |-> target.key, doc |-> None, name |-> target.name]
    OBVIOUS
  <1>2. /\ c \in [key : Keys \cup {None}, doc : Docs \cup {None}, name : Names \cup {None}]
        /\ c.key \in Keys /\ c.doc = None
    BY <1>1, DocFacts
  <1>3. cand' = [cand EXCEPT ![t] = c]
    BY <1>1 DEF CreateTunnel
  <1>4. TypeRest'
    BY <1>2, <1>3 DEF IInv, TypeRest, CreateTunnel, PCs, OutCreating
  <1>5. NamedDocs'
    BY <1>2, <1>3 DEF IInv, TypeRest, CandOK, NamedDocs
  <1>6. \A s \in Tunnels : CandOf(s)'
    BY <1>2, <1>3 DEF IInv, TypeRest, CandOK, CandOf, CreateTunnel
  <1> QED BY <1>4, <1>5, <1>6 DEF CandOK

(* So does an admission by key alone, which drops the document. *)
LEMMA ResolveUnavailableRest ==
    ASSUME IInv, NEW t \in Tunnels, ResolveUnavailable(t)
    PROVE  TypeRest' /\ CandOK'
  <1>1. PICK c : c = [key |-> cand[t].key, doc |-> None, name |-> None]
    OBVIOUS
  <1>2. /\ c \in [key : Keys \cup {None}, doc : Docs \cup {None}, name : Names \cup {None}]
        /\ c.key \in Keys /\ c.doc = None
    BY <1>1 DEF IInv, TypeRest, CandOK, CandOf, ResolveUnavailable
  <1>3. cand' = [cand EXCEPT ![t] = c]
    BY <1>1 DEF ResolveUnavailable
  <1>4. TypeRest'
    BY <1>2, <1>3 DEF IInv, TypeRest, ResolveUnavailable, PCs, InHandshake
  <1>5. NamedDocs'
    BY <1>2, <1>3 DEF IInv, TypeRest, CandOK, NamedDocs
  <1>6. \A s \in Tunnels : CandOf(s)'
    BY <1>2, <1>3 DEF IInv, TypeRest, CandOK, CandOf, ResolveUnavailable
  <1> QED BY <1>4, <1>5, <1>6 DEF CandOK

(* Every step of an inbound handshake keeps types and candidates. *)
LEMMA InboundRest ==
    ASSUME IInv, NEW t \in Tunnels, InboundStep(t)
    PROVE  TypeRest' /\ CandOK'
  <1>0. TypeRest /\ t \in Tunnels
    BY DEF IInv
  <1>a. NamedDocs /\ \A s \in Tunnels : CandOf(s)
    BY DEF IInv, CandOK
  <1>1. CASE \E doc \in InDocs : InboundHello(t, DocDev[doc], doc)
    BY <1>1, DocFacts, InboundHelloRest
  <1>2. CASE \E d \in InDevs : InboundHello(t, d, None)
    BY <1>2, DocFacts, InboundHelloRest
  <1>3. CASE ResolveUnavailable(t)
    BY <1>3, ResolveUnavailableRest
  <1>4. CASE RecoverSnapshot(t)
    <2>1. TypeRest'
      <3>1. cand[t].name \in Names
        BY <1>4, <1>a DEF RecoverSnapshot, NamedDocs, CandOf
      <3>2. authority[cand[t].name].gen \in Tunnels \cup {None}
        BY <1>0, <3>1 DEF TypeRest, AuthorityStates
      <3> QED BY <1>4, <1>0, <3>2 DEF TypeRest, RecoverSnapshot, PCs, InHandshake
    <2>2. \A s \in Tunnels : CandOf(s)'
      BY <1>4, <1>0, <1>a DEF TypeRest, CandOf, RecoverSnapshot, InHandshake, OutCreating
    <2>3. cand' = cand
      BY <1>4 DEF RecoverSnapshot
    <2> QED BY <1>a, <2>1, <2>2, <2>3 DEF CandOK, NamedDocs
  <1>5. CASE ClearAuthorityNegativeIfCurrent(t)
    <2>1. TypeRest'
      <3>1. cand[t].doc \in Docs \cup {None}
        BY <1>0 DEF TypeRest
      <3>2. [st |-> "Confirmed", gen |-> None, rev |-> cand[t].doc] \in AuthorityStates
        BY <3>1 DEF AuthorityStates
      <3>3. authority' \in [Names -> AuthorityStates]
        BY <1>5, <1>0, <3>2 DEF TypeRest, ClearAuthorityNegativeIfCurrent
      <3> QED BY <1>5, <1>0, <3>3 DEF TypeRest, ClearAuthorityNegativeIfCurrent, PCs, InHandshake
    <2>2. \A s \in Tunnels : CandOf(s)'
      BY <1>5, <1>0, <1>a DEF TypeRest, CandOf, ClearAuthorityNegativeIfCurrent, InHandshake, OutCreating
    <2>3. cand' = cand
      BY <1>5 DEF ClearAuthorityNegativeIfCurrent
    <2> QED BY <1>a, <2>1, <2>2, <2>3 DEF CandOK, NamedDocs
  <1>6. CASE ResolveVerified(t)
    <2>1. TypeRest'
      <3>1. cand[t].doc \in Docs \cup {None}
        BY <1>0 DEF TypeRest
      <3>2. best' \in [Names -> Docs \cup {None}]
        BY <1>6, <1>0, <3>1 DEF TypeRest, ResolveVerified
      <3>3. /\ trust' \in [Tunnels -> {"key", "snapshot", "authority"}]
            /\ conf' \in [Tunnels -> Confs]
        BY <1>6, <1>0, DocFacts DEF TypeRest, ResolveVerified, Confs
      <3> QED BY <1>6, <1>0, <3>2, <3>3 DEF TypeRest, ResolveVerified, PCs, InHandshake
    <2>2. \A s \in Tunnels : CandOf(s)'
      BY <1>6, <1>0, <1>a DEF TypeRest, CandOf, ResolveVerified, InHandshake, OutCreating
    <2>3. cand' = cand
      BY <1>6 DEF ResolveVerified
    <2> QED BY <1>a, <2>1, <2>2, <2>3 DEF CandOK, NamedDocs
  <1>7. CASE FindConflictingBinding(t)
    <2>1. TypeRest'
      BY <1>7, <1>0 DEF TypeRest, FindConflictingBinding, PCs, InHandshake, OutCreating
    <2>2. \A s \in Tunnels : CandOf(s)'
      BY <1>7, <1>0, <1>a DEF TypeRest, CandOf, FindConflictingBinding, InHandshake, OutCreating
    <2>3. cand' = cand
      BY <1>7 DEF FindConflictingBinding
    <2> QED BY <1>a, <2>1, <2>2, <2>3 DEF CandOK, NamedDocs
  <1>8. CASE HandshakeFails(t)
    <2>1. TypeRest'
      BY <1>8, <1>0 DEF TypeRest, HandshakeFails, PCs, InHandshake, Confs, ConfTask
    <2>2. \A s \in Tunnels : CandOf(s)'
      BY <1>8, <1>0, <1>a DEF TypeRest, CandOf, HandshakeFails, InHandshake, OutCreating
    <2>3. cand' = cand
      BY <1>8 DEF HandshakeFails
    <2> QED BY <1>a, <2>1, <2>2, <2>3 DEF CandOK, NamedDocs
  <1>9. CASE RegisterInboundGate(t)
    <2>1. TypeRest'
      BY <1>9, <1>0 DEF TypeRest, RegisterInboundGate, PCs, InHandshake, OutCreating
    <2>2. \A s \in Tunnels : CandOf(s)'
      BY <1>9, <1>0, <1>a DEF TypeRest, CandOf, RegisterInboundGate, InHandshake, OutCreating
    <2>3. cand' = cand
      BY <1>9 DEF RegisterInboundGate
    <2> QED BY <1>a, <2>1, <2>2, <2>3 DEF CandOK, NamedDocs
  <1>10. CASE RefuseInbound(t)
    <2>1. TypeRest'
      BY <1>10, <1>0 DEF TypeRest, RefuseInbound, InMapSection, PCs, InHandshake, OutCreating
    <2>2. \A s \in Tunnels : CandOf(s)'
      BY <1>10, <1>0, <1>a DEF TypeRest, CandOf, RefuseInbound, InMapSection, InHandshake, OutCreating
    <2>3. cand' = cand
      BY <1>10 DEF RefuseInbound, InMapSection
    <2> QED BY <1>a, <2>1, <2>2, <2>3 DEF CandOK, NamedDocs
  <1>11. CASE AcceptInbound(t)
    <2>1. TypeRest'
      <3>1. closed' \subseteq Tunnels
        BY <1>11, AcceptInboundStep
      <3> QED BY <1>11, <1>0, <3>1 DEF TypeRest, AcceptInbound, InMapSection, PCs
    <2>2. \A s \in Tunnels : CandOf(s)'
      BY <1>11, <1>0, <1>a DEF TypeRest, CandOf, AcceptInbound, InMapSection, InHandshake, OutCreating
    <2>3. cand' = cand
      BY <1>11 DEF AcceptInbound, InMapSection
    <2> QED BY <1>a, <2>1, <2>2, <2>3 DEF CandOK, NamedDocs
  <1>12. CASE DeliverResult(t)
    <2>1. TypeRest'
      BY <1>12, <1>0 DEF TypeRest, DeliverResult, PCs, InHandshake, Confs, ConfTask
    <2>2. \A s \in Tunnels : CandOf(s)'
      BY <1>12, <1>0, <1>a DEF TypeRest, CandOf, DeliverResult, InHandshake, OutCreating
    <2>3. cand' = cand
      BY <1>12 DEF DeliverResult
    <2> QED BY <1>a, <2>1, <2>2, <2>3 DEF CandOK, NamedDocs
  <1>13. CASE DropPublishedGuard(t)
    <2>1. TypeRest'
      BY <1>13, <1>0 DEF TypeRest, DropPublishedGuard, PCs, InHandshake, Confs, ConfTask
    <2>2. \A s \in Tunnels : CandOf(s)'
      BY <1>13, <1>0, <1>a DEF TypeRest, CandOf, DropPublishedGuard, InHandshake, OutCreating
    <2>3. cand' = cand
      BY <1>13 DEF DropPublishedGuard
    <2> QED BY <1>a, <2>1, <2>2, <2>3 DEF CandOK, NamedDocs
  <1>14. CASE RollbackPublication(t)
    <2>1. TypeRest'
      BY <1>14, <1>0 DEF TypeRest, RollbackPublication, PCs, InHandshake, OutCreating
    <2>2. \A s \in Tunnels : CandOf(s)'
      BY <1>14, <1>0, <1>a DEF TypeRest, CandOf, RollbackPublication, InHandshake, OutCreating
    <2>3. cand' = cand
      BY <1>14 DEF RollbackPublication
    <2> QED BY <1>a, <2>1, <2>2, <2>3 DEF CandOK, NamedDocs
  <1> QED BY <1>1, <1>2, <1>3, <1>4, <1>5, <1>6, <1>7, <1>8, <1>9, <1>10, <1>11, <1>12, <1>13, <1>14 DEF InboundStep

(* Every step of an outbound dial keeps types and candidates. *)
LEMMA OutboundRest ==
    ASSUME IInv, NEW t \in Tunnels, OutboundStep(t)
    PROVE  TypeRest' /\ CandOK'
  <1>0. TypeRest /\ t \in Tunnels
    BY DEF IInv
  <1>a. NamedDocs /\ \A s \in Tunnels : CandOf(s)
    BY DEF IInv, CandOK
  <1>1. CASE \E target \in Dials : CreateTunnel(t, target)
    BY <1>1, CreateTunnelRest
  <1>2. CASE OutboundGate(t)
    <2>1. TypeRest'
      BY <1>2, <1>0 DEF TypeRest, OutboundGate, PCs, InHandshake, OutCreating
    <2>2. \A s \in Tunnels : CandOf(s)'
      BY <1>2, <1>0, <1>a DEF TypeRest, CandOf, OutboundGate, InHandshake, OutCreating
    <2>3. cand' = cand
      BY <1>2 DEF OutboundGate
    <2> QED BY <1>a, <2>1, <2>2, <2>3 DEF CandOK, NamedDocs
  <1>3. CASE AcquireOutbound(t)
    <2>1. TypeRest'
      BY <1>3, <1>0 DEF TypeRest, AcquireOutbound, PCs, InHandshake, OutCreating
    <2>2. \A s \in Tunnels : CandOf(s)'
      BY <1>3, <1>0, <1>a DEF TypeRest, CandOf, AcquireOutbound, InHandshake, OutCreating
    <2>3. cand' = cand
      BY <1>3 DEF AcquireOutbound
    <2> QED BY <1>a, <2>1, <2>2, <2>3 DEF CandOK, NamedDocs
  <1>4. CASE AcquireFlight(t)
    <2>1. TypeRest'
      BY <1>4, <1>0 DEF TypeRest, AcquireFlight, PCs, InHandshake, OutCreating
    <2>2. \A s \in Tunnels : CandOf(s)'
      BY <1>4, <1>0, <1>a DEF TypeRest, CandOf, AcquireFlight, InHandshake, OutCreating
    <2>3. cand' = cand
      BY <1>4 DEF AcquireFlight
    <2> QED BY <1>a, <2>1, <2>2, <2>3 DEF CandOK, NamedDocs
  <1>5. CASE DialFails(t)
    <2>1. TypeRest'
      BY <1>5, <1>0 DEF TypeRest, DialFails, PCs, InHandshake, OutCreating
    <2>2. \A s \in Tunnels : CandOf(s)'
      BY <1>5, <1>0, <1>a DEF TypeRest, CandOf, DialFails, InHandshake, OutCreating
    <2>3. cand' = cand
      BY <1>5 DEF DialFails
    <2> QED BY <1>a, <2>1, <2>2, <2>3 DEF CandOK, NamedDocs
  <1>6. CASE RegisterOutboundIfAbsent(t)
    <2>1. TypeRest'
      BY <1>6, <1>0 DEF TypeRest, RegisterOutboundIfAbsent, PCs, InHandshake, OutCreating
    <2>2. \A s \in Tunnels : CandOf(s)'
      BY <1>6, <1>0, <1>a DEF TypeRest, CandOf, RegisterOutboundIfAbsent, InHandshake, OutCreating
    <2>3. cand' = cand
      BY <1>6 DEF RegisterOutboundIfAbsent
    <2> QED BY <1>a, <2>1, <2>2, <2>3 DEF CandOK, NamedDocs
  <1>7. CASE SpawnRun(t)
    <2>1. TypeRest'
      BY <1>7, <1>0 DEF TypeRest, SpawnRun, PCs, InHandshake, OutCreating
    <2>2. \A s \in Tunnels : CandOf(s)'
      BY <1>7, <1>0, <1>a DEF TypeRest, CandOf, SpawnRun, InHandshake, OutCreating
    <2>3. cand' = cand
      BY <1>7 DEF SpawnRun
    <2> QED BY <1>a, <2>1, <2>2, <2>3 DEF CandOK, NamedDocs
  <1>8. CASE SpawnRefused(t)
    <2>1. TypeRest'
      BY <1>8, <1>0 DEF TypeRest, SpawnRefused, PCs, InHandshake, OutCreating
    <2>2. \A s \in Tunnels : CandOf(s)'
      BY <1>8, <1>0, <1>a DEF TypeRest, CandOf, SpawnRefused, InHandshake, OutCreating
    <2>3. cand' = cand
      BY <1>8 DEF SpawnRefused
    <2> QED BY <1>a, <2>1, <2>2, <2>3 DEF CandOK, NamedDocs
  <1> QED BY <1>1, <1>2, <1>3, <1>4, <1>5, <1>6, <1>7, <1>8 DEF OutboundStep

(* Every step of a running tunnel keeps types and candidates. *)
LEMMA TunnelRest ==
    ASSUME IInv, NEW t \in Tunnels, TunnelStep(t)
    PROVE  TypeRest' /\ CandOK'
  <1>0. TypeRest /\ t \in Tunnels
    BY DEF IInv
  <1>a. NamedDocs /\ \A s \in Tunnels : CandOf(s)
    BY DEF IInv, CandOK
  <1>1. CASE CloseTunnel(t)
    <2>1. TypeRest'
      BY <1>1, <1>0 DEF TypeRest, CloseTunnel, PCs, InHandshake, OutCreating
    <2>2. \A s \in Tunnels : CandOf(s)'
      BY <1>1, <1>0, <1>a DEF TypeRest, CandOf, CloseTunnel, InHandshake, OutCreating
    <2>3. cand' = cand
      BY <1>1 DEF CloseTunnel
    <2> QED BY <1>a, <2>1, <2>2, <2>3 DEF CandOK, NamedDocs
  <1>2. CASE RemoveClosed(t)
    <2>1. TypeRest'
      BY <1>2, <1>0 DEF TypeRest, RemoveClosed, PCs, InHandshake, OutCreating
    <2>2. \A s \in Tunnels : CandOf(s)'
      BY <1>2, <1>0, <1>a DEF TypeRest, CandOf, RemoveClosed, InHandshake, OutCreating
    <2>3. cand' = cand
      BY <1>2 DEF RemoveClosed
    <2> QED BY <1>a, <2>1, <2>2, <2>3 DEF CandOK, NamedDocs
  <1>3. CASE RunExit(t)
    <2>1. TypeRest'
      BY <1>3, <1>0 DEF TypeRest, RunExit, PCs, InHandshake, OutCreating
    <2>2. \A s \in Tunnels : CandOf(s)'
      BY <1>3, <1>0, <1>a DEF TypeRest, CandOf, RunExit, InHandshake, OutCreating
    <2>3. cand' = cand
      BY <1>3 DEF RunExit
    <2> QED BY <1>a, <2>1, <2>2, <2>3 DEF CandOK, NamedDocs
  <1>4. CASE AbortRun(t)
    <2>1. TypeRest'
      BY <1>4, <1>0 DEF TypeRest, AbortRun, PCs, InHandshake, OutCreating
    <2>2. \A s \in Tunnels : CandOf(s)'
      BY <1>4, <1>0, <1>a DEF TypeRest, CandOf, AbortRun, InHandshake, OutCreating
    <2>3. cand' = cand
      BY <1>4 DEF AbortRun
    <2> QED BY <1>a, <2>1, <2>2, <2>3 DEF CandOK, NamedDocs
  <1> QED BY <1>1, <1>2, <1>3, <1>4 DEF TunnelStep

(* Every step of a confirmation keeps types and candidates. *)
LEMMA ConfirmationRest ==
    ASSUME IInv, NEW t \in Tunnels, ConfirmationStep(t)
    PROVE  TypeRest' /\ CandOK'
  <1>0. TypeRest /\ t \in Tunnels
    BY DEF IInv
  <1>a. NamedDocs /\ \A s \in Tunnels : CandOf(s)
    BY DEF IInv, CandOK
  <1>1. CASE BeginAuthorityConfirmation(t)
    <2>1. TypeRest'
      <3>1. cand[t].doc \in Docs \cup {None}
        BY <1>0 DEF TypeRest
      <3>2. [st |-> "InFlight", gen |-> t, rev |-> cand[t].doc] \in AuthorityStates
        BY <3>1 DEF AuthorityStates
      <3>3. authority' \in [Names -> AuthorityStates]
        BY <1>1, <1>0, <3>2 DEF TypeRest, BeginAuthorityConfirmation
      <3>4. \E c \in {"inflight", "none"} : conf' = [conf EXCEPT ![t] = c]
        BY <1>1 DEF BeginAuthorityConfirmation
      <3>5. conf' \in [Tunnels -> Confs]
        BY <1>0, <3>4 DEF TypeRest, Confs, ConfTask
      <3> QED BY <1>1, <1>0, <3>3, <3>5 DEF TypeRest, BeginAuthorityConfirmation
    <2>2. \A s \in Tunnels : CandOf(s)'
      BY <1>1, <1>0, <1>a DEF TypeRest, CandOf, BeginAuthorityConfirmation, InHandshake, OutCreating
    <2>3. cand' = cand
      BY <1>1 DEF BeginAuthorityConfirmation
    <2> QED BY <1>a, <2>1, <2>2, <2>3 DEF CandOK, NamedDocs
  <1>2. CASE CompleteAuthorityUnavailable(t)
    <2>1. TypeRest'
      <3>1. cand[t].doc \in Docs \cup {None}
        BY <1>0 DEF TypeRest
      <3>2. [st |-> "Unavailable", gen |-> None, rev |-> cand[t].doc] \in AuthorityStates
        BY <3>1 DEF AuthorityStates
      <3>3. authority' \in [Names -> AuthorityStates]
        BY <1>2, <1>0, <3>2 DEF TypeRest, CompleteAuthorityUnavailable
      <3> QED BY <1>2, <1>0, <3>3 DEF TypeRest, CompleteAuthorityUnavailable, Confs
    <2>2. \A s \in Tunnels : CandOf(s)'
      BY <1>2, <1>0, <1>a DEF TypeRest, CandOf, CompleteAuthorityUnavailable, InHandshake, OutCreating
    <2>3. cand' = cand
      BY <1>2 DEF CompleteAuthorityUnavailable
    <2> QED BY <1>a, <2>1, <2>2, <2>3 DEF CandOK, NamedDocs
  <1>3. CASE CompleteAuthorityConfirmed(t)
    <2>1. TypeRest'
      <3>1. cand[t].doc \in Docs \cup {None}
        BY <1>0 DEF TypeRest
      <3>2. [st |-> "Confirmed", gen |-> None, rev |-> cand[t].doc] \in AuthorityStates
        BY <3>1 DEF AuthorityStates
      <3>3. authority' \in [Names -> AuthorityStates]
        BY <1>3, <1>0, <3>2 DEF TypeRest, CompleteAuthorityConfirmed, CompleteAuthority
      <3>4. conf' \in [Tunnels -> Confs]
        BY <1>3, <1>0 DEF TypeRest, CompleteAuthorityConfirmed, CompleteAuthority, Confs, ConfTask
      <3> QED BY <1>3, <1>0, <3>3, <3>4 DEF TypeRest, CompleteAuthorityConfirmed, CompleteAuthority
    <2>2. \A s \in Tunnels : CandOf(s)'
      BY <1>3, <1>0, <1>a DEF TypeRest, CandOf, CompleteAuthorityConfirmed, CompleteAuthority, InHandshake, OutCreating
    <2>3. cand' = cand
      BY <1>3 DEF CompleteAuthorityConfirmed, CompleteAuthority
    <2> QED BY <1>a, <2>1, <2>2, <2>3 DEF CandOK, NamedDocs
  <1>4. CASE CompleteAuthorityNegative(t)
    <2>1. TypeRest'
      <3>1. cand[t].doc \in Docs \cup {None}
        BY <1>0 DEF TypeRest
      <3>2. [st |-> "Negative", gen |-> t, rev |-> cand[t].doc] \in AuthorityStates
        BY <3>1 DEF AuthorityStates
      <3>3. authority' \in [Names -> AuthorityStates]
        BY <1>4, <1>0, <3>2 DEF TypeRest, CompleteAuthorityNegative, CompleteAuthority
      <3>4. conf' \in [Tunnels -> Confs]
        BY <1>4, <1>0 DEF TypeRest, CompleteAuthorityNegative, CompleteAuthority, Confs, ConfTask
      <3> QED BY <1>4, <1>0, <3>3, <3>4 DEF TypeRest, CompleteAuthorityNegative, CompleteAuthority
    <2>2. \A s \in Tunnels : CandOf(s)'
      BY <1>4, <1>0, <1>a DEF TypeRest, CandOf, CompleteAuthorityNegative, CompleteAuthority, InHandshake, OutCreating
    <2>3. cand' = cand
      BY <1>4 DEF CompleteAuthorityNegative, CompleteAuthority
    <2> QED BY <1>a, <2>1, <2>2, <2>3 DEF CandOK, NamedDocs
  <1>5. CASE UpgradeTrust(t)
    <2>1. TypeRest'
      BY <1>5, <1>0 DEF TypeRest, UpgradeTrust, Confs
    <2>2. \A s \in Tunnels : CandOf(s)'
      BY <1>5, <1>0, <1>a DEF TypeRest, CandOf, UpgradeTrust, InHandshake, OutCreating
    <2>3. cand' = cand
      BY <1>5 DEF UpgradeTrust
    <2> QED BY <1>a, <2>1, <2>2, <2>3 DEF CandOK, NamedDocs
  <1>6. CASE DetachInstances(t)
    <2>1. TypeRest'
      <3>1. closed' \subseteq Tunnels
        BY <1>6, <1>0 DEF TypeRest, DetachInstances, BoundTo
      <3> QED BY <1>6, <1>0, <3>1 DEF TypeRest, DetachInstances, Confs
    <2>2. \A s \in Tunnels : CandOf(s)'
      BY <1>6, <1>0, <1>a DEF TypeRest, CandOf, DetachInstances, InHandshake, OutCreating
    <2>3. cand' = cand
      BY <1>6 DEF DetachInstances
    <2> QED BY <1>a, <2>1, <2>2, <2>3 DEF CandOK, NamedDocs
  <1>7. CASE AbortConfirmation(t)
    <2>1. TypeRest'
      BY <1>7, <1>0 DEF TypeRest, AbortConfirmation, PCs, InHandshake, Confs, ConfTask
    <2>2. \A s \in Tunnels : CandOf(s)'
      BY <1>7, <1>0, <1>a DEF TypeRest, CandOf, AbortConfirmation, InHandshake, OutCreating
    <2>3. cand' = cand
      BY <1>7 DEF AbortConfirmation
    <2> QED BY <1>a, <2>1, <2>2, <2>3 DEF CandOK, NamedDocs
  <1> QED BY <1>1, <1>2, <1>3, <1>4, <1>5, <1>6, <1>7 DEF ConfirmationStep

-----------------------------------------------------------------------------
(* Every action keeps the map well formed.                                 *)

(* Every step of an inbound handshake keeps the map well formed. *)
LEMMA InboundMap ==
    ASSUME IInv, NEW t \in Tunnels, InboundStep(t)
    PROVE  Good(map, closed)' /\ Unheld'
  <1>0. TypeRest /\ CandOf(t)
    BY DEF IInv, CandOK
  <1>1. CASE \E doc \in InDocs : InboundHello(t, DocDev[doc], doc)
    BY <1>1, <1>0, NewCand DEF TypeRest, InboundHello, Early, InHandshake, OutCreating
  <1>2. CASE \E d \in InDevs : InboundHello(t, d, None)
    BY <1>2, <1>0, NewCand DEF TypeRest, InboundHello, Early, InHandshake, OutCreating
  <1>3. CASE ResolveUnavailable(t)
    BY <1>3, <1>0, NewCand DEF TypeRest, ResolveUnavailable, Early, InHandshake, OutCreating
  <1>4. CASE FindConflictingBinding(t)
    <2>1. PICK n : n = cand[t].name
      OBVIOUS
    <2>2. PICK d \in Devs : d = KeyDev[cand[t].key]
      BY <1>4, <1>0 DEF CandOf, FindConflictingBinding
    <2>3. /\ map' = PruneStaleBinding(map, n, d) /\ cand' = cand /\ closed' = closed
          /\ \A s \in Tunnels : pc'[s] \in Early => pc[s] \in Early
      BY <1>4, <1>0, <2>1, <2>2 DEF TypeRest, FindConflictingBinding, Early, InHandshake, OutCreating
    <2> QED BY <2>3, PruneStep
  <1>5. CASE RefuseInbound(t)
    BY <1>5, RefuseInboundStep
  <1>6. CASE AcceptInbound(t)
    BY <1>6, AcceptInboundStep
  <1>7. CASE RollbackPublication(t)
    <2>1. closed' = closed \cup {t}
      BY <1>7, <1>0 DEF CandOf, RollbackPublication
    <2> QED BY <1>7, <1>0, <2>1, RemoveIfCurrentStep
            DEF TypeRest, RollbackPublication, Early, InHandshake, OutCreating
  <1>8. CASE RecoverSnapshot(t)
    BY <1>8, <1>0, KeepMap DEF TypeRest, RecoverSnapshot, Early, InHandshake, OutCreating
  <1>9. CASE ClearAuthorityNegativeIfCurrent(t)
    BY <1>9, <1>0, KeepMap DEF TypeRest, ClearAuthorityNegativeIfCurrent, Early, InHandshake, OutCreating
  <1>10. CASE ResolveVerified(t)
    BY <1>10, <1>0, KeepMap DEF TypeRest, ResolveVerified, Early, InHandshake, OutCreating
  <1>11. CASE HandshakeFails(t)
    BY <1>11, <1>0, KeepMap DEF TypeRest, HandshakeFails, Early, InHandshake, OutCreating
  <1>12. CASE RegisterInboundGate(t)
    BY <1>12, <1>0, KeepMap DEF TypeRest, RegisterInboundGate, Early, InHandshake, OutCreating
  <1>13. CASE DeliverResult(t)
    BY <1>13, <1>0, KeepMap DEF TypeRest, DeliverResult, Early, InHandshake, OutCreating
  <1>14. CASE DropPublishedGuard(t)
    BY <1>14, <1>0, KeepMap DEF TypeRest, DropPublishedGuard, Early, InHandshake, OutCreating
  <1> QED BY <1>1, <1>2, <1>3, <1>4, <1>5, <1>6, <1>7, <1>8, <1>9, <1>10, <1>11, <1>12, <1>13, <1>14 DEF InboundStep

(* Every step of an outbound dial keeps the map well formed. *)
LEMMA OutboundMap ==
    ASSUME IInv, NEW t \in Tunnels, OutboundStep(t)
    PROVE  Good(map, closed)' /\ Unheld'
  <1>0. TypeRest /\ CandOf(t)
    BY DEF IInv, CandOK
  <1>1. CASE \E target \in Dials : CreateTunnel(t, target)
    BY <1>1, <1>0, NewCand DEF TypeRest, CreateTunnel, Early, InHandshake, OutCreating
  <1>2. CASE AcquireOutbound(t)
    BY <1>2, AcquireOutboundStep
  <1>3. CASE RegisterOutboundIfAbsent(t)
    <2>1. cand[t].doc = None
      BY <1>3, <1>0 DEF CandOf, RegisterOutboundIfAbsent, OutCreating
    <2> QED BY <1>3, <2>1, RegisterOutboundStep
  <1>4. CASE SpawnRefused(t)
    BY <1>4, <1>0, RemoveIfCurrentStep
       DEF TypeRest, SpawnRefused, Early, InHandshake, OutCreating
  <1>5. CASE OutboundGate(t)
    BY <1>5, <1>0, KeepMap DEF TypeRest, OutboundGate, Early, InHandshake, OutCreating
  <1>6. CASE AcquireFlight(t)
    BY <1>6, <1>0, KeepMap DEF TypeRest, AcquireFlight, Early, InHandshake, OutCreating
  <1>7. CASE DialFails(t)
    BY <1>7, <1>0, KeepMap DEF TypeRest, DialFails, Early, InHandshake, OutCreating
  <1>8. CASE SpawnRun(t)
    BY <1>8, <1>0, KeepMap DEF TypeRest, SpawnRun, Early, InHandshake, OutCreating
  <1> QED BY <1>1, <1>2, <1>3, <1>4, <1>5, <1>6, <1>7, <1>8 DEF OutboundStep

(* Every step of a running tunnel keeps the map well formed. *)
LEMMA TunnelMap ==
    ASSUME IInv, NEW t \in Tunnels, TunnelStep(t)
    PROVE  Good(map, closed)' /\ Unheld'
  <1>0. TypeRest /\ CandOf(t)
    BY DEF IInv, CandOK
  <1>1. CASE RemoveClosed(t)
    <2>1. closed' = closed \cup {t}
      BY <1>1 DEF RemoveClosed
    <2> QED BY <1>1, <2>1, RemoveIfCurrentStep DEF RemoveClosed
  <1>2. CASE RunExit(t)
    <2>1. closed' = closed \cup {t}
      BY <1>2 DEF RunExit
    <2> QED BY <1>2, <1>0, <2>1, RemoveIfCurrentStep
            DEF TypeRest, RunExit, Early, InHandshake, OutCreating
  <1>3. CASE CloseTunnel(t)
    BY <1>3, <1>0, KeepMap DEF TypeRest, CloseTunnel, Early, InHandshake, OutCreating
  <1>4. CASE AbortRun(t)
    BY <1>4, <1>0, KeepMap DEF TypeRest, AbortRun, Early, InHandshake, OutCreating
  <1> QED BY <1>1, <1>2, <1>3, <1>4 DEF TunnelStep

(* detach_verified_identity_instances keeps the map well formed. *)
LEMMA DetachInstancesStep ==
    ASSUME IInv, NEW t \in Tunnels, DetachInstances(t)
    PROVE  Good(map, closed)' /\ Unheld'
  <1>1. PICK S : S = BoundTo(map, cand[t].name)
    OBVIOUS
  <1>2. PICK R : R = {<<map.binding[e].key, e>> : e \in S}
    OBVIOUS
  <1>3. PICK C : C = closed'
    OBVIOUS
  <1>4. PICK q : q = RemovePrimaryIfInstance(map, R)
    OBVIOUS
  <1>5. PICK r : r = RemoveInstanceBinding(q, S)
    OBVIOUS
  <1>6. map' = r /\ C = closed \cup S /\ cand' = cand /\ pc' = pc
    BY <1>1, <1>2, <1>3, <1>4, <1>5 DEF DetachInstances
  <1>7. Within(R, S) /\ Covers(C, closed, S) /\ S \in SUBSET Tunnels
    BY <1>1, <1>2, <1>6 DEF Within, Covers, BoundTo
  <1>8. NamedDocs /\ Good(map, closed)
    BY DEF IInv, CandOK
  <1>9. Good(r, C) /\ Without(r, map, S)
    BY <1>4, <1>5, <1>7, <1>8, DetachGood
  <1>10. NoEarlyGain
    BY <1>6, <1>9 DEF NoEarlyGain, Without
  <1> QED BY <1>3, <1>6, <1>9, <1>10, KeepCand

(* Every step of a confirmation keeps the map well formed. *)
LEMMA ConfirmationMap ==
    ASSUME IInv, NEW t \in Tunnels, ConfirmationStep(t)
    PROVE  Good(map, closed)' /\ Unheld'
  <1>0. TypeRest /\ CandOf(t)
    BY DEF IInv, CandOK
  <1>1. CASE DetachInstances(t)
    BY <1>1, DetachInstancesStep
  <1>2. CASE BeginAuthorityConfirmation(t)
    BY <1>2, <1>0, KeepMap DEF TypeRest, BeginAuthorityConfirmation, Early, InHandshake, OutCreating
  <1>3. CASE CompleteAuthorityUnavailable(t)
    BY <1>3, <1>0, KeepMap DEF TypeRest, CompleteAuthorityUnavailable, Early, InHandshake, OutCreating
  <1>4. CASE CompleteAuthorityConfirmed(t)
    BY <1>4, <1>0, KeepMap DEF TypeRest, CompleteAuthorityConfirmed, CompleteAuthority, Early, InHandshake, OutCreating
  <1>5. CASE CompleteAuthorityNegative(t)
    BY <1>5, <1>0, KeepMap DEF TypeRest, CompleteAuthorityNegative, CompleteAuthority, Early, InHandshake, OutCreating
  <1>6. CASE UpgradeTrust(t)
    BY <1>6, <1>0, KeepMap DEF TypeRest, UpgradeTrust, Early, InHandshake, OutCreating
  <1>7. CASE AbortConfirmation(t)
    BY <1>7, <1>0, KeepMap DEF TypeRest, AbortConfirmation, Early, InHandshake, OutCreating
  <1> QED BY <1>1, <1>2, <1>3, <1>4, <1>5, <1>6, <1>7 DEF ConfirmationStep

(* The steps of RTcp::shutdown keep the whole invariant. *)
LEMMA ShutdownMap ==
    ASSUME IInv, ShutdownStep
    PROVE  Good(map, closed)' /\ Unheld' /\ TypeRest' /\ CandOK'
  <1>0. TypeRest /\ NamedDocs /\ (\A t \in Tunnels : CandOf(t)) /\ Good(map, closed) /\ Unheld
    BY DEF IInv, CandOK
  <1>1. CASE BeginShutdown
    <2>1. closed' \subseteq Tunnels
      BY <1>0, <1>1 DEF BeginShutdown, TypeRest, Good, MapState
    <2>2. TypeRest' /\ CandOK'
      BY <1>0, <1>1, <2>1 DEF BeginShutdown, TypeRest, CandOK, NamedDocs, CandOf
    <2>3. /\ map'.tunnels = [k \in Keys |-> None]
          /\ map'.verified = [n \in Names |-> {}]
          /\ map'.binding = [t \in Tunnels |-> NoBinding]
          /\ map'.byDev = [d \in Devs |-> UnboundDev]
      BY <1>1 DEF BeginShutdown
    <2>4. map' \in MapState
      BY <1>1 DEF BeginShutdown, MapState, NoBinding, UnboundDev
    <2>5. Agree(map)'
      BY <2>3 DEF Agree, BindingsAreReversed, ReverseIsBound, VerifiedIsBound, UnboundDev
    <2>6. Primary(map)' /\ Holders(map)' /\ LiveIndexed(map, closed)' /\ Unheld'
      BY <2>3 DEF Primary, Holders, LiveIndexed, Unheld
    <2> QED BY <2>2, <2>4, <2>5, <2>6 DEF Good
  <1>2. CASE FinishShutdown
    <2>1. TypeRest' /\ CandOK'
      BY <1>0, <1>2 DEF FinishShutdown, TypeRest, CandOK, NamedDocs, CandOf
    <2>2. /\ map'.tunnels = map.tunnels /\ map'.verified = map.verified
          /\ map'.binding = map.binding /\ map'.byDev = map.byDev
          /\ map' \in MapState
      BY <1>0, <1>2 DEF FinishShutdown, Good, MapState
    <2>3. cand' = cand /\ closed' = closed /\ pc' = pc
      BY <1>2 DEF FinishShutdown
    <2>4. Agree(map)'
      BY <1>0, <2>2, <2>3 DEF Good, Agree, BindingsAreReversed, ReverseIsBound, VerifiedIsBound
    <2>5. Primary(map)' /\ Holders(map)' /\ LiveIndexed(map, closed)' /\ Unheld'
      BY <1>0, <2>2, <2>3 DEF Good, Primary, Holders, LiveIndexed, Unheld
    <2> QED BY <2>1, <2>2, <2>4, <2>5 DEF Good
  <1>3. CASE CloseRuntimeTasks
    <2>1. TypeRest' /\ CandOK'
      BY <1>0, <1>3 DEF CloseRuntimeTasks, TypeRest, CandOK, NamedDocs, CandOf
    <2> QED BY <1>3, <2>1, KeepMap DEF CloseRuntimeTasks
  <1>4. CASE CloseCleanupTasks
    <2>1. TypeRest' /\ CandOK'
      BY <1>0, <1>4 DEF CloseCleanupTasks, TypeRest, CandOK, NamedDocs, CandOf
    <2> QED BY <1>4, <2>1, KeepMap DEF CloseCleanupTasks
  <1> QED BY <1>1, <1>2, <1>3, <1>4 DEF ShutdownStep

(* The invariant holds initially. *)
LEMMA IInvInit == Init => IInv
  <1> SUFFICES ASSUME Init PROVE IInv
    OBVIOUS
  <1>1. TypeRest
    BY DEF Init, TypeRest, PCs, NoCand, Confs, AuthorityStates, NoAuthority
  <1>2. CandOK
    BY DEF Init, CandOK, NamedDocs, CandOf, NoCand, OutCreating
  <1>3. /\ map.tunnels = [k \in Keys |-> None]
        /\ map.verified = [n \in Names |-> {}]
        /\ map.binding = [t \in Tunnels |-> NoBinding]
        /\ map.byDev = [d \in Devs |-> UnboundDev]
    BY DEF Init
  <1>4. map \in MapState
    BY DEF Init, MapState, NoBinding, UnboundDev
  <1>5. Agree(map)
    BY <1>3 DEF Agree, BindingsAreReversed, ReverseIsBound, VerifiedIsBound, UnboundDev
  <1>6. Primary(map) /\ Holders(map) /\ LiveIndexed(map, closed) /\ Unheld
    BY <1>3 DEF Primary, Holders, LiveIndexed, Unheld
  <1> QED BY <1>1, <1>2, <1>4, <1>5, <1>6 DEF IInv, Good

(* The invariant is inductive. *)
LEMMA IInvNext == IInv /\ [Next]_vars => IInv'
  <1> SUFFICES ASSUME IInv, [Next]_vars PROVE IInv'
    OBVIOUS
  <1>1. CASE \E t \in Tunnels :
               InboundStep(t) \/ OutboundStep(t) \/ TunnelStep(t) \/ ConfirmationStep(t)
    <2>1. PICK t \in Tunnels :
             InboundStep(t) \/ OutboundStep(t) \/ TunnelStep(t) \/ ConfirmationStep(t)
      BY <1>1
    <2>2. CASE InboundStep(t)
      BY <2>2, InboundRest, InboundMap DEF IInv
    <2>3. CASE OutboundStep(t)
      BY <2>3, OutboundRest, OutboundMap DEF IInv
    <2>4. CASE TunnelStep(t)
      BY <2>4, TunnelRest, TunnelMap DEF IInv
    <2>5. CASE ConfirmationStep(t)
      BY <2>5, ConfirmationRest, ConfirmationMap DEF IInv
    <2> QED BY <2>1, <2>2, <2>3, <2>4, <2>5
  <1>2. CASE ShutdownStep
    BY <1>2, ShutdownMap DEF IInv
  <1>3. CASE UNCHANGED vars
    BY <1>3 DEF vars, IInv, TypeRest, CandOK, NamedDocs, CandOf, Good, Agree,
                BindingsAreReversed, ReverseIsBound, VerifiedIsBound, Primary, Holders,
                LiveIndexed, Unheld
  <1> QED BY <1>1, <1>2, <1>3 DEF Next

(* The invariant holds in every reachable state. *)
THEOREM Invariance == Spec => []IInv
  BY IInvInit, IInvNext, PTL DEF Spec

-----------------------------------------------------------------------------
(* What the invariant implies.                                             *)

(* Type correctness: every critical section of the map mutex leaves a map  *)
(* state, whatever the tasks interleave.                                   *)
THEOREM TypeCorrect == Spec => []TypeOK
  <1>1. IInv => TypeOK
    BY DEF IInv, TypeRest, Good, TypeOK
  <1> QED BY <1>1, Invariance, PTL

(* The primary map, the revision index and the reverse index never         *)
(* disagree (record_instance_binding, remove_instance_binding).            *)
THEOREM IndexesAlwaysAgree == Spec => []IndexesAgree
  <1>1. IInv => IndexesAgree
    BY DEF IInv, Good, IndexesAgree
  <1> QED BY <1>1, Invariance, PTL

(* A canonical device belongs to at most one name at a time, for inbound   *)
(* and outbound bindings alike (conflicting_logical_binding).              *)
THEOREM DeviceHasOneName == Spec => []OneToOne
  <1>1. IInv => OneToOne
    BY DEF IInv, Good, Agree, BindingsAreReversed, OneToOne, Bound
  <1> QED BY <1>1, Invariance, PTL

(* Every named instance is the one registered under its key.               *)
THEOREM NamedIsRegistered == Spec => []BoundIsPrimary
  <1>1. IInv => BoundIsPrimary
    BY DEF IInv, Good, Primary, BoundIsPrimary, Bound
  <1> QED BY <1>1, Invariance, PTL

(* No live verified tunnel escapes the revocation index, however many      *)
(* tunnels, names and devices there are (replace_authenticated_inbound,    *)
(* remove_if_current, prune).                                              *)
THEOREM VerifiedIsRevocable == Spec => []LiveVerifiedIsIndexed
  <1>1. IInv => LiveVerifiedIsIndexed
    BY DEF IInv, Good, LiveIndexed, LiveVerifiedIsIndexed, Live
  <1> QED BY <1>1, Invariance, PTL

-----------------------------------------------------------------------------
(***************************************************************************)
(* The fence proofs: the commit lock, the authority's Negative and the     *)
(* shutdown.  They rest on the invariant above.                            *)
(***************************************************************************)

-----------------------------------------------------------------------------
(* What one step of the task of t can do to the map: nobody but a task     *)
(* past the Negative gate gives an instance a name; slots are freed, or t  *)
(* enters one that is free or dead, and not after shutdown began; only     *)
(* closed instances lose a slot; and nobody but t is indexed anew, past    *)
(* the gate on documents of one iat.                                       *)

NamesKept(t) ==
    \A s \in Tunnels :
        \/ map'.binding[s] = map.binding[s]
        \/ map'.binding[s] = NoBinding
        \/ commit = t /\ pc[t] \in Early /\ map'.binding[s].name = cand[t].name

SlotsKept(t) ==
    \A k \in Keys :
        \/ map'.tunnels[k] \in {map.tunnels[k], None}
        \/ /\ map.lifecycle = "Running" /\ pc[t] \in Early
           /\ k = cand[t].key /\ map'.tunnels[k] = t
           /\ pc'[t] \in {"published", "registered"}
           /\ map.tunnels[k] \in closed \cup {None}

IndexKept(t) ==
    \A n \in Names : \A s \in map'.verified[n] :
        \/ s \in map.verified[n]
        \/ (s = t) /\ ~SameIatConflict(map, cand[t].doc)

OnlyClosedLose ==
    \A k \in Keys :
        map'.tunnels[k] = map.tunnels[k] \/ map.tunnels[k] \in closed' \cup {None}

Effect(t) ==
    /\ map'.lifecycle = map.lifecycle
    /\ NamesKept(t) /\ SlotsKept(t) /\ OnlyClosedLose /\ IndexKept(t)

(* A step that leaves the map alone has such an effect. *)
LEMMA SameMapEffect ==
    ASSUME NEW t \in Tunnels, map' = map
    PROVE  Effect(t)
  BY DEF Effect, NamesKept, SlotsKept, OnlyClosedLose, IndexKept

(* So has remove_if_current of an instance that is closed by then. *)
LEMMA RemoveIfCurrentEffect ==
    ASSUME IInv, NEW t \in Tunnels, map' = RemoveIfCurrent(map, t), closed' = closed \cup {t}
    PROVE  Effect(t)
  <1>1. PICK C : C = closed'
    OBVIOUS
  <1>2. PICK R : R = {<<cand[t].key, t>>}
    OBVIOUS
  <1>3. PICK S : S = {t}
    OBVIOUS
  <1>4. PICK q : q = RemovePrimaryIfInstance(map, R)
    OBVIOUS
  <1>5. PICK r : r = RemoveInstanceBinding(q, S)
    OBVIOUS
  <1>6. map' = r
    BY <1>2, <1>3, <1>4, <1>5 DEF RemoveIfCurrent
  <1>7. Within(R, S) /\ Covers(C, closed, S) /\ S \in SUBSET Tunnels
    BY <1>1, <1>2, <1>3 DEF Within, Covers
  <1>8. NamedDocs /\ Good(map, closed)
    BY DEF IInv, CandOK
  <1>9. Good(r, C) /\ Without(r, map, S)
    BY <1>4, <1>5, <1>7, <1>8, DetachGood
  <1>10. \A s \in S : s \in closed'
    BY <1>3
  <1> QED BY <1>6, <1>9, <1>10 DEF Effect, NamesKept, SlotsKept, OnlyClosedLose, IndexKept, Without

(* So has the detach of all the instances that are bound to a name. *)
LEMMA DetachEffect ==
    ASSUME IInv, NEW t \in Tunnels, DetachInstances(t)
    PROVE  /\ Effect(t)
           /\ \A s \in Tunnels : \/ map'.binding[s] = NoBinding
                                 \/ /\ map'.binding[s] = map.binding[s]
                                    /\ map.binding[s].name # cand[t].name
  <1>1. PICK S : S = BoundTo(map, cand[t].name)
    OBVIOUS
  <1>2. PICK R : R = {<<map.binding[e].key, e>> : e \in S}
    OBVIOUS
  <1>3. PICK C : C = closed'
    OBVIOUS
  <1>4. PICK q : q = RemovePrimaryIfInstance(map, R)
    OBVIOUS
  <1>5. PICK r : r = RemoveInstanceBinding(q, S)
    OBVIOUS
  <1>6. map' = r /\ C = closed \cup S
    BY <1>1, <1>2, <1>3, <1>4, <1>5 DEF DetachInstances
  <1>7. Within(R, S) /\ Covers(C, closed, S) /\ S \in SUBSET Tunnels
    BY <1>1, <1>2, <1>6 DEF Within, Covers, BoundTo
  <1>8. NamedDocs /\ Good(map, closed)
    BY DEF IInv, CandOK
  <1>9. Good(r, C) /\ Without(r, map, S)
    BY <1>4, <1>5, <1>7, <1>8, DetachGood
  <1>10. \A s \in S : s \in closed'
    BY <1>3, <1>6
  <1>11. Effect(t)
    BY <1>6, <1>9, <1>10 DEF Effect, NamesKept, SlotsKept, OnlyClosedLose, IndexKept, Without
  <1>12. \A s \in Tunnels : s \notin S => map.binding[s].name # cand[t].name
    BY <1>1 DEF BoundTo
  <1> QED BY <1>6, <1>9, <1>11, <1>12 DEF Without

(* So has the prune of an arbitration. *)
LEMMA PruneEffect ==
    ASSUME IInv, NEW t \in Tunnels, NEW n, NEW d \in Devs, map' = PruneStaleBinding(map, n, d)
    PROVE  Effect(t)
  <1>1. map \in MapState /\ Agree(map)
    BY DEF IInv, Good
  <1>2. PICK r : r = PruneStaleBinding(map, n, d)
    OBVIOUS
  <1>3. /\ r.tunnels = map.tunnels /\ r.lifecycle = map.lifecycle
        /\ \A s \in Tunnels : \/ r.binding[s] = map.binding[s]
                              \/ s \in closed /\ r.binding[s] = NoBinding
        /\ \A o \in Names : r.verified[o] \subseteq map.verified[o]
    BY <1>1, <1>2, PruneFacts
  <1> QED BY <1>2, <1>3 DEF Effect, NamesKept, SlotsKept, OnlyClosedLose, IndexKept

(* A refusal of an inbound tunnel. *)
LEMMA RefuseEffect ==
    ASSUME IInv, NEW t \in Tunnels, RefuseInbound(t)
    PROVE  Effect(t)
  <1>1. InMapSection(t)
    BY DEF RefuseInbound
  <1>2. CASE closed' = closed \cup {t} /\ map' = RemoveIfCurrent(map, t)
    BY <1>2, RemoveIfCurrentEffect
  <1>3. CASE map' = map
    BY <1>3, SameMapEffect
  <1>4. CASE map' = GatedMap(t)
    <2>1. PICK m : m = GatedMap(t)
      OBVIOUS
    <2>2. /\ m.tunnels = map.tunnels /\ m.lifecycle = map.lifecycle
          /\ \A s \in Tunnels : m.binding[s] = map.binding[s] \/ m.binding[s] = NoBinding
          /\ \A o \in Names : m.verified[o] \subseteq map.verified[o]
      BY <1>1, <2>1, GatedMapFacts
    <2> QED BY <1>4, <2>1, <2>2 DEF Effect, NamesKept, SlotsKept, OnlyClosedLose, IndexKept
  <1> QED BY <1>2, <1>3, <1>4 DEF RefuseInbound

(* The acceptance of an inbound tunnel, which afterwards holds its slot. *)
LEMMA AcceptEffect ==
    ASSUME IInv, NEW t \in Tunnels, AcceptInbound(t),
           pc[t] \in Early, cand[t].doc # None => commit = t
    PROVE  Effect(t) /\ map'.tunnels[cand[t].key] = t
  <1>1. PICK m : m = GatedMap(t)
    OBVIOUS
  <1>2. /\ InMapSection(t) /\ ~NameConflict(t) /\ ~Live(m, cand[t].key) /\ t \notin closed
        /\ map.lifecycle = "Running"
    BY <1>1 DEF AcceptInbound, SlotTaken
  <1>3. PICK k \in Keys : k = cand[t].key
    BY <1>1, <1>2, GatedMapFacts
  <1>4. /\ Good(m, closed) /\ m.tunnels = map.tunnels /\ m.lifecycle = map.lifecycle
        /\ \A s \in Tunnels : m.binding[s] = map.binding[s] \/ m.binding[s] = NoBinding
        /\ cand[t].doc # None => FreeFor(m, KeyDev[k], cand[t].name)
        /\ \A j \in Keys : m.tunnels[j] # t
    BY <1>1, <1>2, <1>3, GatedMapFacts
  <1>v. \A o \in Names : /\ m.verified[o] \subseteq map.verified[o]
                         /\ map.verified[o] \ closed \subseteq m.verified[o]
    BY <1>1, <1>2, GatedMapFacts
  <1>5. PICK p : p = TakeSlot(m, t)
    OBVIOUS
  <1>6. NamedDocs
    BY DEF IInv, CandOK
  <1>7. m.tunnels[k] \in closed \cup {None}
    BY <1>2, <1>3 DEF Live
  <1>p. pc'[t] \in {"published", "registered"}
    BY DEF AcceptInbound, IInv, TypeRest
  <1>8. CASE cand[t].doc = None
    <2>1. map' = p /\ closed' = closed
      BY <1>1, <1>5, <1>8 DEF AcceptInbound
    <2>2. /\ p.lifecycle = m.lifecycle
          /\ p.tunnels[k] = t /\ \A j \in Keys \ {k} : p.tunnels[j] = m.tunnels[j]
          /\ \A s \in Tunnels : p.binding[s] = m.binding[s] \/ p.binding[s] = NoBinding
          /\ \A o \in Names : p.verified[o] \subseteq m.verified[o]
      BY <1>2, <1>3, <1>4, <1>5, TakeFacts
    <2>3. OnlyClosedLose
      BY <1>4, <1>7, <2>1, <2>2 DEF OnlyClosedLose
    <2>4. SlotsKept(t)
      BY <1>2, <1>3, <1>4, <1>7, <1>p, <2>1, <2>2 DEF SlotsKept
    <2>5. IndexKept(t)
      BY <1>v, <2>1, <2>2 DEF IndexKept
    <2> QED BY <1>2, <1>3, <1>4, <2>1, <2>2, <2>3, <2>4, <2>5 DEF Effect, NamesKept
  <1>9. CASE cand[t].doc # None
    <2>1. PICK x : x = IndexVerified(p, t)
      OBVIOUS
    <2>2. PICK C : C = closed \cup Superseded(p, cand[t].doc)
      OBVIOUS
    <2>3. map' = x /\ closed' = C
      BY <1>1, <1>5, <1>9, <2>1, <2>2 DEF AcceptInbound
    <2>4. PICK n : n = cand[t].name
      OBVIOUS
    <2>5. FreeFor(m, KeyDev[k], n)
      BY <1>4, <1>9, <2>4
    <2>6. /\ x.lifecycle = m.lifecycle
          /\ Takes(x, m, C, k, t)
          /\ Indexes(x, m, Superseded(p, cand[t].doc), t)
          /\ \A s \in Tunnels : \/ x.binding[s] = m.binding[s]
                                \/ x.binding[s] = NoBinding
                                \/ x.binding[s].name = n
      BY <1>2, <1>3, <1>4, <1>5, <1>6, <1>9, <2>1, <2>2, <2>4, <2>5, IndexGood
    <2>7. closed \subseteq C
      BY <2>2
    <2>8. OnlyClosedLose
      BY <1>4, <1>7, <2>3, <2>6, <2>7 DEF OnlyClosedLose, Takes
    <2>9. NamesKept(t)
      BY <1>4, <1>9, <2>3, <2>4, <2>6 DEF NamesKept
    <2>10. map'.tunnels[cand[t].key] = t
      BY <1>3, <2>3, <2>6 DEF Takes
    <2>11. SlotsKept(t)
      BY <1>2, <1>3, <1>4, <1>7, <1>p, <2>3, <2>6 DEF SlotsKept, Takes
    <2>12. ~SameIatConflict(map, cand[t].doc)
      <3>1. ~SameIatConflict(m, cand[t].doc)
        BY <1>1, <1>9 DEF AcceptInbound, SlotTaken
      <3>2. DocName[cand[t].doc] \in Names
        BY <1>6, <1>9 DEF NamedDocs
      <3> QED BY <1>v, <3>1, <3>2 DEF SameIatConflict
    <2>13. IndexKept(t)
      BY <1>v, <2>3, <2>6, <2>12 DEF IndexKept, Indexes
    <2> QED BY <1>2, <1>4, <2>3, <2>6, <2>8, <2>9, <2>10, <2>11, <2>13 DEF Effect
  <1> QED BY <1>8, <1>9

(* acquire_outbound. *)
LEMMA AcquireEffect ==
    ASSUME IInv, NEW t \in Tunnels, AcquireOutbound(t)
    PROVE  Effect(t)
  <1>1. PICK m : m = OutboundGatedMap(t)
    OBVIOUS
  <1>2. /\ pc[t] \in {"acquire1", "acquire2"} /\ pc[t] \in Early /\ closed' = closed
        /\ cand[t].name # None => commit = t
    BY DEF AcquireOutbound, PastOutboundGate, Early, OutCreating
  <1>3. PICK k \in Keys : k = cand[t].key
    BY <1>1, <1>2, OutboundGatedFacts
  <1>4. /\ Good(m, closed) /\ m.tunnels = map.tunnels /\ m.lifecycle = map.lifecycle
        /\ \A s \in Tunnels : m.binding[s] = map.binding[s] \/ m.binding[s] = NoBinding
        /\ cand[t].name # None /\ ~OutboundRefused(t) => FreeFor(m, KeyDev[k], cand[t].name)
        /\ \A o \in Names : m.verified[o] \subseteq map.verified[o]
    BY <1>1, <1>2, <1>3, OutboundGatedFacts
  <1>5. PICK r : r = map'
    OBVIOUS
  <1>6. CASE map' = map
    BY <1>6, SameMapEffect
  <1>7. CASE ~OutboundRefused(t) /\ Live(m, k) /\ map' = BindName(m, t, m.tunnels[k])
    <2>1. PICK e \in Tunnels : e = m.tunnels[k]
      BY <1>4, <1>7 DEF Good, MapState, Live
    <2>2. r = BindName(m, t, e) /\ m.tunnels[k] = e
      BY <1>5, <1>7, <2>1
    <2>3. cand[t].name # None => FreeFor(m, KeyDev[k], cand[t].name)
      BY <1>4, <1>7
    <2>4. /\ r.tunnels = m.tunnels /\ r.lifecycle = m.lifecycle /\ r.verified = m.verified
          /\ \A s \in Tunnels : \/ r.binding[s] = m.binding[s]
                                \/ cand[t].name # None /\ r.binding[s].name = cand[t].name
      BY <1>3, <1>4, <2>2, <2>3, BindNameFacts
    <2> QED BY <1>2, <1>4, <1>5, <2>4 DEF Effect, NamesKept, SlotsKept, OnlyClosedLose, IndexKept
  <1>8. CASE map' = m
    BY <1>4, <1>8 DEF Effect, NamesKept, SlotsKept, OnlyClosedLose, IndexKept
  <1>9. CASE /\ Dead(m, k)
             /\ map' = RemoveInstanceBinding(
                          RemovePrimaryIfInstance(m, {<<k, m.tunnels[k]>>}),
                          {m.tunnels[k]})
    <2>1. PICK e \in Tunnels : e = m.tunnels[k] /\ e \in closed
      BY <1>4, <1>9 DEF Good, MapState, Dead
    <2>2. PICK R : R = {<<k, e>>}
      OBVIOUS
    <2>3. PICK S : S = {e}
      OBVIOUS
    <2>4. PICK q : q = RemovePrimaryIfInstance(m, R)
      OBVIOUS
    <2>5. PICK x : x = RemoveInstanceBinding(q, S)
      OBVIOUS
    <2>6. map' = x
      BY <1>9, <2>1, <2>2, <2>3, <2>4, <2>5
    <2>7. Within(R, S) /\ Covers(closed, closed, S) /\ S \in SUBSET Tunnels
      BY <2>1, <2>2, <2>3 DEF Within, Covers
    <2>8. NamedDocs
      BY DEF IInv, CandOK
    <2>9. Good(x, closed) /\ Without(x, m, S)
      BY <1>4, <2>4, <2>5, <2>7, <2>8, DetachGood
    <2>10. \A s \in S : s \in closed'
      BY <1>2, <2>1, <2>3
    <2> QED BY <1>4, <2>6, <2>9, <2>10
            DEF Effect, NamesKept, SlotsKept, OnlyClosedLose, IndexKept, Without
  <1> QED BY <1>1, <1>3, <1>6, <1>7, <1>8, <1>9 DEF AcquireOutbound

(* register_outbound_if_absent; a registered tunnel holds its slot. *)
LEMMA RegisterEffect ==
    ASSUME IInv, NEW t \in Tunnels, RegisterOutboundIfAbsent(t)
    PROVE  /\ Effect(t)
           /\ pc'[t] = "registered" => map'.tunnels[cand[t].key] = t
  <1>1. PICK m : m = OutboundGatedMap(t)
    OBVIOUS
  <1>2. /\ pc[t] = "dial" /\ pc[t] \in Early /\ closed \subseteq closed'
        /\ cand[t].name # None => commit = t
    BY DEF RegisterOutboundIfAbsent, PastOutboundGate, Early, OutCreating
  <1>3. PICK k \in Keys : k = cand[t].key
    BY <1>1, <1>2, OutboundGatedFacts
  <1>4. /\ Good(m, closed) /\ m.tunnels = map.tunnels /\ m.lifecycle = map.lifecycle
        /\ \A s \in Tunnels : m.binding[s] = map.binding[s] \/ m.binding[s] = NoBinding
        /\ cand[t].name # None /\ ~OutboundRefused(t) => FreeFor(m, KeyDev[k], cand[t].name)
        /\ \A j \in Keys : m.tunnels[j] # t
        /\ \A o \in Names : m.verified[o] \subseteq map.verified[o]
    BY <1>1, <1>2, <1>3, OutboundGatedFacts
  <1>5. PICK r : r = map'
    OBVIOUS
  <1>6. CASE map' = map /\ pc' = [pc EXCEPT ![t] = "done"]
    BY <1>6, SameMapEffect DEF IInv, TypeRest
  <1>7. CASE /\ ~OutboundRefused(t) /\ Live(m, k) /\ map' = BindName(m, t, m.tunnels[k])
             /\ pc' = [pc EXCEPT ![t] = "reused"]
    <2>1. PICK e \in Tunnels : e = m.tunnels[k]
      BY <1>4, <1>7 DEF Good, MapState, Live
    <2>2. r = BindName(m, t, e) /\ m.tunnels[k] = e
      BY <1>5, <1>7, <2>1
    <2>3. cand[t].name # None => FreeFor(m, KeyDev[k], cand[t].name)
      BY <1>4, <1>7
    <2>4. /\ r.tunnels = m.tunnels /\ r.lifecycle = m.lifecycle /\ r.verified = m.verified
          /\ \A s \in Tunnels : \/ r.binding[s] = m.binding[s]
                                \/ cand[t].name # None /\ r.binding[s].name = cand[t].name
      BY <1>3, <1>4, <2>2, <2>3, BindNameFacts
    <2>5. Effect(t)
      BY <1>2, <1>4, <1>5, <2>4 DEF Effect, NamesKept, SlotsKept, OnlyClosedLose, IndexKept
    <2> QED BY <1>7, <2>5 DEF IInv, TypeRest
  <1>8. CASE /\ ~OutboundRefused(t) /\ ~Live(m, k) /\ closed' = closed
             /\ map' = BindName(TakeSlot(m, t), t, t)
             /\ pc' = [pc EXCEPT ![t] = "registered"]
    <2>1. PICK p : p = TakeSlot(m, t)
      OBVIOUS
    <2>2. NamedDocs /\ cand[t].doc = None /\ map.lifecycle = "Running"
      BY <1>2, <1>8 DEF IInv, CandOK, CandOf, OutCreating, OutboundRefused
    <2>3. Good(p, closed)
      BY <1>3, <1>4, <1>8, <2>1, <2>2, TakeGood
    <2>4. /\ p.tunnels[k] = t /\ \A j \in Keys \ {k} : p.tunnels[j] = m.tunnels[j]
          /\ p.lifecycle = m.lifecycle
          /\ \A s \in Tunnels : p.binding[s] = m.binding[s] \/ p.binding[s] = NoBinding
          /\ \A o \in Names : p.verified[o] \subseteq m.verified[o]
      BY <1>3, <1>4, <1>8, <2>1, TakeFacts
    <2>d. \A d \in Devs : \/ p.byDev[d] = UnboundDev
                          \/ m.byDev[d] # UnboundDev /\ p.byDev[d].name = m.byDev[d].name
      BY <1>3, <1>4, <1>8, <2>1, TakeFacts
    <2>5. cand[t].name # None => FreeFor(p, KeyDev[k], cand[t].name)
      <3>1. cand[t].name # None => FreeFor(m, KeyDev[k], cand[t].name)
        BY <1>4, <1>8
      <3>2. KeyDev[k] \in Devs
        OBVIOUS
      <3> QED BY <2>d, <3>1, <3>2 DEF FreeFor
    <2>6. r = BindName(p, t, t)
      BY <1>5, <1>8, <2>1
    <2>7. /\ r.tunnels = p.tunnels /\ r.lifecycle = p.lifecycle /\ r.verified = p.verified
          /\ \A s \in Tunnels : \/ r.binding[s] = p.binding[s]
                                \/ cand[t].name # None /\ r.binding[s].name = cand[t].name
      BY <1>3, <2>3, <2>4, <2>5, <2>6, BindNameFacts
    <2>8. m.tunnels[k] \in closed \cup {None} /\ closed' = closed
      BY <1>8 DEF Live
    <2>9. OnlyClosedLose
      BY <1>4, <1>5, <2>4, <2>7, <2>8 DEF OnlyClosedLose
    <2>10. NamesKept(t)
      BY <1>2, <1>4, <1>5, <2>4, <2>7 DEF NamesKept
    <2>11. SlotsKept(t)
      <3>1. pc'[t] \in {"published", "registered"}
        BY <1>8 DEF IInv, TypeRest
      <3> QED BY <1>2, <1>3, <1>4, <1>5, <2>2, <2>4, <2>7, <2>8, <3>1 DEF SlotsKept
    <2>12. IndexKept(t)
      BY <1>4, <1>5, <2>4, <2>7 DEF IndexKept
    <2> QED BY <1>3, <1>4, <1>5, <2>2, <2>4, <2>7, <2>9, <2>10, <2>11, <2>12 DEF Effect
  <1> QED BY <1>1, <1>3, <1>6, <1>7, <1>8 DEF RegisterOutboundIfAbsent

-----------------------------------------------------------------------------
(* The commit lock: its holder is a registration past the Negative gate or *)
(* a confirmation that has recorded its decision.                          *)

LockOf(t) ==
    /\ pc[t] = "commit" => commit = t
    /\ conf[t] \in {"detach", "upgrade"} => commit = t
    /\ conf[t] \in ConfTask => pc[t] \in {"running", "done"}
    /\ commit = t /\ pc[t] \in Early =>
         cand[t].name \in Names /\ authority[cand[t].name].st # "Negative"

Locks == CommitLockHeld /\ \A t \in Tunnels : LockOf(t)

(* An instance whose hold on the lock, whose stage and whose candidate a   *)
(* step leaves alone, and whose name does not become Negative meanwhile.   *)
Untouched(s) ==
    /\ pc'[s] = pc[s] /\ conf'[s] = conf[s] /\ cand'[s] = cand[s]
    /\ (commit' = s) <=> (commit = s)
    /\ commit = s /\ authority[cand[s].name].st # "Negative"
         => authority'[cand[s].name].st # "Negative"

(* Such an instance stays within the discipline of the lock. *)
LEMMA LockOthers ==
    ASSUME NEW s \in Tunnels, LockOf(s), Untouched(s)
    PROVE  LockOf(s)'
  BY DEF LockOf, Untouched

(* The steps of InboundStep keep the lock in such hands. *)
LEMMA InboundLocks ==
    ASSUME IInv, Locks, NEW t \in Tunnels, InboundStep(t)
    PROVE  Locks'
  <1>0. TypeRest /\ CandOf(t) /\ NamedDocs
    BY DEF IInv, CandOK
  <1>a. CommitLockHeld /\ \A s \in Tunnels : LockOf(s)
    BY DEF Locks
  <1>1. CASE \E doc \in InDocs : InboundHello(t, DocDev[doc], doc)
    <2>1. CommitLockHeld'
      BY <1>1, <1>0, <1>a DEF TypeRest, CandOf, LockOf, CommitLockHeld, InboundHello, Early, InHandshake, OutCreating, ConfTask
    <2>2. LockOf(t)'
      <3>1. commit # t
        BY <1>1, <1>a DEF InboundHello, CommitLockHeld, LockOf, ConfTask
      <3> QED BY <1>1, <1>0, <1>a, <3>1
              DEF TypeRest, CandOf, LockOf, InboundHello, ConfTask
    <2>3. \A s \in Tunnels \ {t} : Untouched(s)
      BY <1>1, <1>0, <1>a DEF TypeRest, LockOf, Untouched, InboundHello
    <2> QED BY <1>a, <2>1, <2>2, <2>3, LockOthers DEF Locks
  <1>2. CASE \E d \in InDevs : InboundHello(t, d, None)
    <2>1. CommitLockHeld'
      BY <1>2, <1>0, <1>a DEF TypeRest, CandOf, LockOf, CommitLockHeld, InboundHello, Early, InHandshake, OutCreating, ConfTask
    <2>2. LockOf(t)'
      <3>1. commit # t
        BY <1>2, <1>a DEF InboundHello, CommitLockHeld, LockOf, ConfTask
      <3> QED BY <1>2, <1>0, <1>a, <3>1
              DEF TypeRest, CandOf, LockOf, InboundHello, ConfTask
    <2>3. \A s \in Tunnels \ {t} : Untouched(s)
      BY <1>2, <1>0, <1>a DEF TypeRest, LockOf, Untouched, InboundHello
    <2> QED BY <1>a, <2>1, <2>2, <2>3, LockOthers DEF Locks
  <1>3. CASE RecoverSnapshot(t)
    <2>1. CommitLockHeld'
      BY <1>3, <1>0, <1>a DEF TypeRest, CandOf, LockOf, CommitLockHeld, RecoverSnapshot, Early, InHandshake, OutCreating, ConfTask
    <2>2. \A s \in Tunnels : LockOf(s)'
      BY <1>3, <1>0, <1>a DEF TypeRest, CandOf, LockOf, CommitLockHeld, RecoverSnapshot, Early, InHandshake, OutCreating, ConfTask
    <2> QED BY <2>1, <2>2 DEF Locks
  <1>4. CASE ClearAuthorityNegativeIfCurrent(t)
    <2>1. CommitLockHeld'
      BY <1>4, <1>0, <1>a DEF TypeRest, CandOf, LockOf, CommitLockHeld, ClearAuthorityNegativeIfCurrent, Early, InHandshake, OutCreating, ConfTask
    <2>2. \A s \in Tunnels : LockOf(s)'
      BY <1>4, <1>0, <1>a DEF TypeRest, CandOf, LockOf, CommitLockHeld, ClearAuthorityNegativeIfCurrent, Early, InHandshake, OutCreating, ConfTask
    <2> QED BY <2>1, <2>2 DEF Locks
  <1>5. CASE ResolveVerified(t)
    <2>1. CommitLockHeld'
      BY <1>5, <1>0, <1>a DEF TypeRest, CandOf, LockOf, CommitLockHeld, ResolveVerified, Early, InHandshake, OutCreating, ConfTask
    <2>2. \A s \in Tunnels : LockOf(s)'
      BY <1>5, <1>0, <1>a DEF TypeRest, CandOf, LockOf, CommitLockHeld, ResolveVerified, Early, InHandshake, OutCreating, ConfTask
    <2> QED BY <2>1, <2>2 DEF Locks
  <1>6. CASE ResolveUnavailable(t)
    <2>1. CommitLockHeld'
      BY <1>6, <1>0, <1>a DEF TypeRest, CandOf, LockOf, CommitLockHeld, ResolveUnavailable, Early, InHandshake, OutCreating, ConfTask
    <2>2. LockOf(t)'
      <3>1. commit # t
        BY <1>6, <1>a DEF ResolveUnavailable, CommitLockHeld, LockOf, ConfTask
      <3> QED BY <1>6, <1>0, <1>a, <3>1
              DEF TypeRest, CandOf, LockOf, ResolveUnavailable, ConfTask
    <2>3. \A s \in Tunnels \ {t} : Untouched(s)
      BY <1>6, <1>0, <1>a DEF TypeRest, LockOf, Untouched, ResolveUnavailable
    <2> QED BY <1>a, <2>1, <2>2, <2>3, LockOthers DEF Locks
  <1>7. CASE FindConflictingBinding(t)
    <2>1. CommitLockHeld'
      BY <1>7, <1>0, <1>a DEF TypeRest, CandOf, LockOf, CommitLockHeld, FindConflictingBinding, Early, InHandshake, OutCreating, ConfTask
    <2>2. \A s \in Tunnels : LockOf(s)'
      BY <1>7, <1>0, <1>a DEF TypeRest, CandOf, LockOf, CommitLockHeld, FindConflictingBinding, Early, InHandshake, OutCreating, ConfTask
    <2> QED BY <2>1, <2>2 DEF Locks
  <1>8. CASE HandshakeFails(t)
    <2>1. CommitLockHeld'
      BY <1>8, <1>0, <1>a DEF TypeRest, CandOf, LockOf, CommitLockHeld, HandshakeFails, Early, InHandshake, OutCreating, ConfTask
    <2>2. LockOf(t)'
      BY <1>8, <1>0, <1>a DEF TypeRest, CandOf, LockOf, CommitLockHeld, HandshakeFails, Early, InHandshake, OutCreating, ConfTask
    <2>3. \A s \in Tunnels \ {t} : Untouched(s)
      BY <1>8, <1>0, <1>a DEF TypeRest, LockOf, Untouched, HandshakeFails
    <2> QED BY <1>a, <2>1, <2>2, <2>3, LockOthers DEF Locks
  <1>9. CASE RegisterInboundGate(t)
    <2>1. CommitLockHeld'
      BY <1>9, <1>0, <1>a DEF TypeRest, CandOf, LockOf, CommitLockHeld, RegisterInboundGate, NamedDocs, Early, InHandshake, OutCreating, ConfTask
    <2>2. LockOf(t)'
      BY <1>9, <1>0, <1>a DEF TypeRest, CandOf, LockOf, CommitLockHeld, RegisterInboundGate, NamedDocs, Early, InHandshake, OutCreating, ConfTask
    <2>3. \A s \in Tunnels \ {t} : Untouched(s)
      BY <1>9, <1>0, <1>a DEF TypeRest, LockOf, Untouched, RegisterInboundGate, NamedDocs
    <2> QED BY <1>a, <2>1, <2>2, <2>3, LockOthers DEF Locks
  <1>10. CASE RefuseInbound(t)
    <2>1. CommitLockHeld'
      BY <1>10, <1>0, <1>a DEF TypeRest, CandOf, LockOf, CommitLockHeld, RefuseInbound, InMapSection, Early, InHandshake, OutCreating, ConfTask
    <2>2. LockOf(t)'
      BY <1>10, <1>0, <1>a DEF TypeRest, CandOf, LockOf, CommitLockHeld, RefuseInbound, InMapSection, Early, InHandshake, OutCreating, ConfTask
    <2>3. \A s \in Tunnels \ {t} : Untouched(s)
      BY <1>10, <1>0, <1>a DEF TypeRest, LockOf, Untouched, RefuseInbound, InMapSection
    <2> QED BY <1>a, <2>1, <2>2, <2>3, LockOthers DEF Locks
  <1>11. CASE AcceptInbound(t)
    <2>1. CommitLockHeld'
      BY <1>11, <1>0, <1>a DEF TypeRest, CandOf, LockOf, CommitLockHeld, AcceptInbound, InMapSection, Early, InHandshake, OutCreating, ConfTask
    <2>2. LockOf(t)'
      BY <1>11, <1>0, <1>a DEF TypeRest, CandOf, LockOf, CommitLockHeld, AcceptInbound, InMapSection, Early, InHandshake, OutCreating, ConfTask
    <2>3. \A s \in Tunnels \ {t} : Untouched(s)
      BY <1>11, <1>0, <1>a DEF TypeRest, LockOf, Untouched, AcceptInbound, InMapSection
    <2> QED BY <1>a, <2>1, <2>2, <2>3, LockOthers DEF Locks
  <1>12. CASE DeliverResult(t)
    <2>1. CommitLockHeld'
      BY <1>12, <1>0, <1>a DEF TypeRest, CandOf, LockOf, CommitLockHeld, DeliverResult, Early, InHandshake, OutCreating, ConfTask
    <2>2. \A s \in Tunnels : LockOf(s)'
      BY <1>12, <1>0, <1>a DEF TypeRest, CandOf, LockOf, CommitLockHeld, DeliverResult, Early, InHandshake, OutCreating, ConfTask
    <2> QED BY <2>1, <2>2 DEF Locks
  <1>13. CASE DropPublishedGuard(t)
    <2>1. CommitLockHeld'
      BY <1>13, <1>0, <1>a DEF TypeRest, CandOf, LockOf, CommitLockHeld, DropPublishedGuard, Early, InHandshake, OutCreating, ConfTask
    <2>2. \A s \in Tunnels : LockOf(s)'
      BY <1>13, <1>0, <1>a DEF TypeRest, CandOf, LockOf, CommitLockHeld, DropPublishedGuard, Early, InHandshake, OutCreating, ConfTask
    <2> QED BY <2>1, <2>2 DEF Locks
  <1>14. CASE RollbackPublication(t)
    <2>1. CommitLockHeld'
      BY <1>14, <1>0, <1>a DEF TypeRest, CandOf, LockOf, CommitLockHeld, RollbackPublication, Early, InHandshake, OutCreating, ConfTask
    <2>2. \A s \in Tunnels : LockOf(s)'
      BY <1>14, <1>0, <1>a DEF TypeRest, CandOf, LockOf, CommitLockHeld, RollbackPublication, Early, InHandshake, OutCreating, ConfTask
    <2> QED BY <2>1, <2>2 DEF Locks
  <1> QED BY <1>1, <1>2, <1>3, <1>4, <1>5, <1>6, <1>7, <1>8, <1>9, <1>10, <1>11, <1>12, <1>13, <1>14 DEF InboundStep

(* The steps of OutboundStep keep the lock in such hands. *)
LEMMA OutboundLocks ==
    ASSUME IInv, Locks, NEW t \in Tunnels, OutboundStep(t)
    PROVE  Locks'
  <1>0. TypeRest /\ CandOf(t) /\ NamedDocs
    BY DEF IInv, CandOK
  <1>a. CommitLockHeld /\ \A s \in Tunnels : LockOf(s)
    BY DEF Locks
  <1>1. CASE \E target \in Dials : CreateTunnel(t, target)
    <2>1. CommitLockHeld'
      BY <1>1, <1>0, <1>a DEF TypeRest, CandOf, LockOf, CommitLockHeld, CreateTunnel, Early, InHandshake, OutCreating, ConfTask
    <2>2. LockOf(t)'
      <3>1. commit # t
        BY <1>1, <1>a DEF CreateTunnel, CommitLockHeld, LockOf, ConfTask
      <3> QED BY <1>1, <1>0, <1>a, <3>1
              DEF TypeRest, CandOf, LockOf, CreateTunnel, ConfTask
    <2>3. \A s \in Tunnels \ {t} : Untouched(s)
      BY <1>1, <1>0, <1>a DEF TypeRest, LockOf, Untouched, CreateTunnel
    <2> QED BY <1>a, <2>1, <2>2, <2>3, LockOthers DEF Locks
  <1>2. CASE OutboundGate(t)
    <2>1. CommitLockHeld'
      BY <1>2, <1>0, <1>a DEF TypeRest, CandOf, LockOf, CommitLockHeld, OutboundGate, Early, InHandshake, OutCreating, ConfTask
    <2>2. LockOf(t)'
      BY <1>2, <1>0, <1>a DEF TypeRest, CandOf, LockOf, CommitLockHeld, OutboundGate, Early, InHandshake, OutCreating, ConfTask
    <2>3. \A s \in Tunnels \ {t} : Untouched(s)
      BY <1>2, <1>0, <1>a DEF TypeRest, LockOf, Untouched, OutboundGate
    <2> QED BY <1>a, <2>1, <2>2, <2>3, LockOthers DEF Locks
  <1>3. CASE AcquireOutbound(t)
    <2>1. CommitLockHeld'
      BY <1>3, <1>0, <1>a DEF TypeRest, CandOf, LockOf, CommitLockHeld, AcquireOutbound, PastOutboundGate, Early, InHandshake, OutCreating, ConfTask
    <2>2. LockOf(t)'
      BY <1>3, <1>0, <1>a DEF TypeRest, CandOf, LockOf, CommitLockHeld, AcquireOutbound, PastOutboundGate, Early, InHandshake, OutCreating, ConfTask
    <2>3. \A s \in Tunnels \ {t} : Untouched(s)
      BY <1>3, <1>0, <1>a DEF TypeRest, LockOf, Untouched, AcquireOutbound, PastOutboundGate
    <2> QED BY <1>a, <2>1, <2>2, <2>3, LockOthers DEF Locks
  <1>4. CASE AcquireFlight(t)
    <2>1. CommitLockHeld'
      BY <1>4, <1>0, <1>a DEF TypeRest, CandOf, LockOf, CommitLockHeld, AcquireFlight, Early, InHandshake, OutCreating, ConfTask
    <2>2. \A s \in Tunnels : LockOf(s)'
      BY <1>4, <1>0, <1>a DEF TypeRest, CandOf, LockOf, CommitLockHeld, AcquireFlight, Early, InHandshake, OutCreating, ConfTask
    <2> QED BY <2>1, <2>2 DEF Locks
  <1>5. CASE DialFails(t)
    <2>1. CommitLockHeld'
      BY <1>5, <1>0, <1>a DEF TypeRest, CandOf, LockOf, CommitLockHeld, DialFails, Early, InHandshake, OutCreating, ConfTask
    <2>2. LockOf(t)'
      BY <1>5, <1>0, <1>a DEF TypeRest, CandOf, LockOf, CommitLockHeld, DialFails, Early, InHandshake, OutCreating, ConfTask
    <2>3. \A s \in Tunnels \ {t} : Untouched(s)
      BY <1>5, <1>0, <1>a DEF TypeRest, LockOf, Untouched, DialFails
    <2> QED BY <1>a, <2>1, <2>2, <2>3, LockOthers DEF Locks
  <1>6. CASE RegisterOutboundIfAbsent(t)
    <2>1. CommitLockHeld'
      BY <1>6, <1>0, <1>a DEF TypeRest, CandOf, LockOf, CommitLockHeld, RegisterOutboundIfAbsent, PastOutboundGate, Early, InHandshake, OutCreating, ConfTask
    <2>2. LockOf(t)'
      BY <1>6, <1>0, <1>a DEF TypeRest, CandOf, LockOf, CommitLockHeld, RegisterOutboundIfAbsent, PastOutboundGate, Early, InHandshake, OutCreating, ConfTask
    <2>3. \A s \in Tunnels \ {t} : Untouched(s)
      BY <1>6, <1>0, <1>a DEF TypeRest, LockOf, Untouched, RegisterOutboundIfAbsent, PastOutboundGate
    <2> QED BY <1>a, <2>1, <2>2, <2>3, LockOthers DEF Locks
  <1>7. CASE SpawnRun(t)
    <2>1. CommitLockHeld'
      BY <1>7, <1>0, <1>a DEF TypeRest, CandOf, LockOf, CommitLockHeld, SpawnRun, Early, InHandshake, OutCreating, ConfTask
    <2>2. \A s \in Tunnels : LockOf(s)'
      BY <1>7, <1>0, <1>a DEF TypeRest, CandOf, LockOf, CommitLockHeld, SpawnRun, Early, InHandshake, OutCreating, ConfTask
    <2> QED BY <2>1, <2>2 DEF Locks
  <1>8. CASE SpawnRefused(t)
    <2>1. CommitLockHeld'
      BY <1>8, <1>0, <1>a DEF TypeRest, CandOf, LockOf, CommitLockHeld, SpawnRefused, Early, InHandshake, OutCreating, ConfTask
    <2>2. \A s \in Tunnels : LockOf(s)'
      BY <1>8, <1>0, <1>a DEF TypeRest, CandOf, LockOf, CommitLockHeld, SpawnRefused, Early, InHandshake, OutCreating, ConfTask
    <2> QED BY <2>1, <2>2 DEF Locks
  <1> QED BY <1>1, <1>2, <1>3, <1>4, <1>5, <1>6, <1>7, <1>8 DEF OutboundStep

(* The steps of TunnelStep keep the lock in such hands. *)
LEMMA TunnelLocks ==
    ASSUME IInv, Locks, NEW t \in Tunnels, TunnelStep(t)
    PROVE  Locks'
  <1>0. TypeRest /\ CandOf(t) /\ NamedDocs
    BY DEF IInv, CandOK
  <1>a. CommitLockHeld /\ \A s \in Tunnels : LockOf(s)
    BY DEF Locks
  <1>1. CASE CloseTunnel(t)
    <2>1. CommitLockHeld'
      BY <1>1, <1>0, <1>a DEF TypeRest, CandOf, LockOf, CommitLockHeld, CloseTunnel, Early, InHandshake, OutCreating, ConfTask
    <2>2. \A s \in Tunnels : LockOf(s)'
      BY <1>1, <1>0, <1>a DEF TypeRest, CandOf, LockOf, CommitLockHeld, CloseTunnel, Early, InHandshake, OutCreating, ConfTask
    <2> QED BY <2>1, <2>2 DEF Locks
  <1>2. CASE RemoveClosed(t)
    <2>1. CommitLockHeld'
      BY <1>2, <1>0, <1>a DEF TypeRest, CandOf, LockOf, CommitLockHeld, RemoveClosed, Early, InHandshake, OutCreating, ConfTask
    <2>2. \A s \in Tunnels : LockOf(s)'
      BY <1>2, <1>0, <1>a DEF TypeRest, CandOf, LockOf, CommitLockHeld, RemoveClosed, Early, InHandshake, OutCreating, ConfTask
    <2> QED BY <2>1, <2>2 DEF Locks
  <1>3. CASE RunExit(t)
    <2>1. CommitLockHeld'
      BY <1>3, <1>0, <1>a DEF TypeRest, CandOf, LockOf, CommitLockHeld, RunExit, Early, InHandshake, OutCreating, ConfTask
    <2>2. \A s \in Tunnels : LockOf(s)'
      BY <1>3, <1>0, <1>a DEF TypeRest, CandOf, LockOf, CommitLockHeld, RunExit, Early, InHandshake, OutCreating, ConfTask
    <2> QED BY <2>1, <2>2 DEF Locks
  <1>4. CASE AbortRun(t)
    <2>1. CommitLockHeld'
      BY <1>4, <1>0, <1>a DEF TypeRest, CandOf, LockOf, CommitLockHeld, AbortRun, Early, InHandshake, OutCreating, ConfTask
    <2>2. \A s \in Tunnels : LockOf(s)'
      BY <1>4, <1>0, <1>a DEF TypeRest, CandOf, LockOf, CommitLockHeld, AbortRun, Early, InHandshake, OutCreating, ConfTask
    <2> QED BY <2>1, <2>2 DEF Locks
  <1> QED BY <1>1, <1>2, <1>3, <1>4 DEF TunnelStep

(* The steps of ConfirmationStep keep the lock in such hands. *)
LEMMA ConfirmationLocks ==
    ASSUME IInv, Locks, NEW t \in Tunnels, ConfirmationStep(t)
    PROVE  Locks'
  <1>0. TypeRest /\ CandOf(t) /\ NamedDocs
    BY DEF IInv, CandOK
  <1>a. CommitLockHeld /\ \A s \in Tunnels : LockOf(s)
    BY DEF Locks
  <1>1. CASE BeginAuthorityConfirmation(t)
    <2>1. CommitLockHeld'
      BY <1>1, <1>0, <1>a DEF TypeRest, CandOf, LockOf, CommitLockHeld, BeginAuthorityConfirmation, Early, InHandshake, OutCreating, ConfTask
    <2>2. \A s \in Tunnels : LockOf(s)'
      BY <1>1, <1>0, <1>a DEF TypeRest, CandOf, LockOf, CommitLockHeld, BeginAuthorityConfirmation, Early, InHandshake, OutCreating, ConfTask
    <2> QED BY <2>1, <2>2 DEF Locks
  <1>2. CASE CompleteAuthorityUnavailable(t)
    <2>1. CommitLockHeld'
      BY <1>2, <1>0, <1>a DEF TypeRest, CandOf, LockOf, CommitLockHeld, CompleteAuthorityUnavailable, Early, InHandshake, OutCreating, ConfTask
    <2>2. \A s \in Tunnels : LockOf(s)'
      BY <1>2, <1>0, <1>a DEF TypeRest, CandOf, LockOf, CommitLockHeld, CompleteAuthorityUnavailable, Early, InHandshake, OutCreating, ConfTask
    <2> QED BY <2>1, <2>2 DEF Locks
  <1>3. CASE CompleteAuthorityConfirmed(t)
    <2>1. CommitLockHeld'
      BY <1>3, <1>0, <1>a DEF TypeRest, CandOf, LockOf, CommitLockHeld, CompleteAuthorityConfirmed, CompleteAuthority, Early, InHandshake, OutCreating, ConfTask
    <2>2. LockOf(t)'
      BY <1>3, <1>0, <1>a DEF TypeRest, CandOf, LockOf, CommitLockHeld, CompleteAuthorityConfirmed, CompleteAuthority, Early, InHandshake, OutCreating, ConfTask
    <2>3. \A s \in Tunnels \ {t} : Untouched(s)
      BY <1>3, <1>0, <1>a DEF TypeRest, LockOf, Untouched, CompleteAuthorityConfirmed, CompleteAuthority
    <2> QED BY <1>a, <2>1, <2>2, <2>3, LockOthers DEF Locks
  <1>4. CASE CompleteAuthorityNegative(t)
    <2>1. CommitLockHeld'
      BY <1>4, <1>0, <1>a DEF TypeRest, CandOf, LockOf, CommitLockHeld, CompleteAuthorityNegative, CompleteAuthority, Early, InHandshake, OutCreating, ConfTask
    <2>2. LockOf(t)'
      BY <1>4, <1>0, <1>a DEF TypeRest, CandOf, LockOf, CommitLockHeld, CompleteAuthorityNegative, CompleteAuthority, Early, InHandshake, OutCreating, ConfTask
    <2>3. \A s \in Tunnels \ {t} : Untouched(s)
      BY <1>4, <1>0, <1>a DEF TypeRest, LockOf, Untouched, CompleteAuthorityNegative, CompleteAuthority
    <2> QED BY <1>a, <2>1, <2>2, <2>3, LockOthers DEF Locks
  <1>5. CASE UpgradeTrust(t)
    <2>1. CommitLockHeld'
      BY <1>5, <1>0, <1>a DEF TypeRest, CandOf, LockOf, CommitLockHeld, UpgradeTrust, Early, InHandshake, OutCreating, ConfTask
    <2>2. LockOf(t)'
      BY <1>5, <1>0, <1>a DEF TypeRest, CandOf, LockOf, CommitLockHeld, UpgradeTrust, Early, InHandshake, OutCreating, ConfTask
    <2>3. \A s \in Tunnels \ {t} : Untouched(s)
      BY <1>5, <1>0, <1>a DEF TypeRest, LockOf, Untouched, UpgradeTrust
    <2> QED BY <1>a, <2>1, <2>2, <2>3, LockOthers DEF Locks
  <1>6. CASE DetachInstances(t)
    <2>1. CommitLockHeld'
      BY <1>6, <1>0, <1>a DEF TypeRest, CandOf, LockOf, CommitLockHeld, DetachInstances, Early, InHandshake, OutCreating, ConfTask
    <2>2. LockOf(t)'
      BY <1>6, <1>0, <1>a DEF TypeRest, CandOf, LockOf, CommitLockHeld, DetachInstances, Early, InHandshake, OutCreating, ConfTask
    <2>3. \A s \in Tunnels \ {t} : Untouched(s)
      BY <1>6, <1>0, <1>a DEF TypeRest, LockOf, Untouched, DetachInstances
    <2> QED BY <1>a, <2>1, <2>2, <2>3, LockOthers DEF Locks
  <1>7. CASE AbortConfirmation(t)
    <2>1. CommitLockHeld'
      BY <1>7, <1>0, <1>a DEF TypeRest, CandOf, LockOf, CommitLockHeld, AbortConfirmation, Early, InHandshake, OutCreating, ConfTask
    <2>2. LockOf(t)'
      BY <1>7, <1>0, <1>a DEF TypeRest, CandOf, LockOf, CommitLockHeld, AbortConfirmation, Early, InHandshake, OutCreating, ConfTask
    <2>3. \A s \in Tunnels \ {t} : Untouched(s)
      BY <1>7, <1>0, <1>a DEF TypeRest, LockOf, Untouched, AbortConfirmation
    <2> QED BY <1>a, <2>1, <2>2, <2>3, LockOthers DEF Locks
  <1> QED BY <1>1, <1>2, <1>3, <1>4, <1>5, <1>6, <1>7 DEF ConfirmationStep

-----------------------------------------------------------------------------
(* Every step of a task has the effect above.                              *)

(* Inbound, outbound and tunnel steps, and those of the confirmations. *)
LEMMA StepEffect ==
    ASSUME IInv, Locks, NEW t \in Tunnels,
           InboundStep(t) \/ OutboundStep(t) \/ TunnelStep(t) \/ ConfirmationStep(t)
    PROVE  Effect(t) /\ closed \subseteq closed' /\ tasks' = tasks
  <1>0. CandOf(t) /\ LockOf(t) /\ TypeRest
    BY DEF IInv, CandOK, Locks
  <1>1. CASE InboundStep(t)
    <2>1. CASE FindConflictingBinding(t)
      <3>1. PICK n : n = cand[t].name
        OBVIOUS
      <3>2. PICK d \in Devs : d = KeyDev[cand[t].key]
        BY <2>1, <1>0 DEF CandOf, FindConflictingBinding
      <3>3. map' = PruneStaleBinding(map, n, d) /\ closed' = closed /\ tasks' = tasks
        BY <2>1, <3>1, <3>2 DEF FindConflictingBinding
      <3> QED BY <3>3, PruneEffect
    <2>2. CASE RefuseInbound(t)
      BY <2>2, RefuseEffect DEF RefuseInbound
    <2>3. CASE AcceptInbound(t)
      <3>1. pc[t] \in Early /\ (cand[t].doc # None => commit = t)
        BY <2>3 DEF AcceptInbound, InMapSection, Early, InHandshake
      <3>2. Effect(t)
        BY <2>3, <3>1, AcceptEffect
      <3> QED BY <2>3, <3>2 DEF AcceptInbound
    <2>4. CASE RollbackPublication(t)
      <3>1. closed' = closed \cup {t} /\ map' = RemoveIfCurrent(map, t) /\ tasks' = tasks
        BY <2>4, <1>0 DEF CandOf, RollbackPublication
      <3> QED BY <3>1, RemoveIfCurrentEffect
    <2>5. CASE map' = map /\ closed \subseteq closed' /\ tasks' = tasks
      BY <2>5, SameMapEffect
    <2> QED BY <1>1, <2>1, <2>2, <2>3, <2>4, <2>5
            DEF InboundStep, InboundHello, RecoverSnapshot, ClearAuthorityNegativeIfCurrent,
                ResolveVerified, ResolveUnavailable, HandshakeFails, RegisterInboundGate,
                DeliverResult, DropPublishedGuard
  <1>2. CASE OutboundStep(t)
    <2>1. CASE AcquireOutbound(t)
      BY <2>1, AcquireEffect DEF AcquireOutbound
    <2>2. CASE RegisterOutboundIfAbsent(t)
      BY <2>2, RegisterEffect DEF RegisterOutboundIfAbsent
    <2>3. CASE SpawnRefused(t)
      BY <2>3, RemoveIfCurrentEffect DEF SpawnRefused
    <2>4. CASE map' = map /\ closed \subseteq closed' /\ tasks' = tasks
      BY <2>4, SameMapEffect
    <2> QED BY <1>2, <2>1, <2>2, <2>3, <2>4
            DEF OutboundStep, CreateTunnel, OutboundGate, AcquireFlight, DialFails, SpawnRun
  <1>3. CASE TunnelStep(t)
    <2>1. CASE RemoveClosed(t) \/ RunExit(t)
      <3>1. closed' = closed \cup {t} /\ map' = RemoveIfCurrent(map, t) /\ tasks' = tasks
        BY <2>1 DEF RemoveClosed, RunExit
      <3> QED BY <3>1, RemoveIfCurrentEffect
    <2>2. CASE map' = map /\ closed \subseteq closed' /\ tasks' = tasks
      BY <2>2, SameMapEffect
    <2> QED BY <1>3, <2>1, <2>2 DEF TunnelStep, CloseTunnel, AbortRun
  <1>4. CASE ConfirmationStep(t)
    <2>1. CASE DetachInstances(t)
      BY <2>1, DetachEffect DEF DetachInstances
    <2>2. CASE map' = map /\ closed \subseteq closed' /\ tasks' = tasks
      BY <2>2, SameMapEffect
    <2> QED BY <1>4, <2>1, <2>2
            DEF ConfirmationStep, BeginAuthorityConfirmation, CompleteAuthorityUnavailable,
                CompleteAuthorityConfirmed, CompleteAuthorityNegative, CompleteAuthority,
                UpgradeTrust, AbortConfirmation
  <1> QED BY <1>1, <1>2, <1>3, <1>4

-----------------------------------------------------------------------------
(* Shutdown: the order of the task sets, and what is left in the map.      *)

TasksOf(t) ==
    /\ ~tasks.cleanup => ~RuntimeTask(t)
    /\ map.lifecycle = "Stopped" => pc[t] # "rollback"
    /\ pc[t] # "lost"

Ordered ==
    /\ ~tasks.runtime => map.lifecycle # "Running"
    /\ ~tasks.cleanup => ~tasks.runtime
    /\ map.lifecycle = "Stopped" => ~tasks.cleanup
    /\ \A t \in Tunnels : TasksOf(t)

Drained ==
    /\ map.lifecycle # "Running" => \A k \in Keys : map.tunnels[k] = None
    /\ NoOrphan

(* The steps of InboundStep start no task behind a closed task set. *)
LEMMA InboundTasks ==
    ASSUME IInv, Ordered, NEW t \in Tunnels, InboundStep(t),
           map'.lifecycle = map.lifecycle, tasks' = tasks
    PROVE  \A s \in Tunnels : TasksOf(s)'
  <1>0. TypeRest /\ CandOf(t)
    BY DEF IInv, CandOK
  <1>a. /\ ~tasks.runtime => map.lifecycle # "Running"
        /\ ~tasks.cleanup => ~tasks.runtime
        /\ map.lifecycle = "Stopped" => ~tasks.cleanup
        /\ \A s \in Tunnels : TasksOf(s)
    BY DEF Ordered
  <1>1. CASE \E doc \in InDocs : InboundHello(t, DocDev[doc], doc)
    BY <1>1, <1>0, <1>a DEF TypeRest, TasksOf, RuntimeTask, InboundHello, InHandshake, OutCreating, ConfTask
  <1>2. CASE \E d \in InDevs : InboundHello(t, d, None)
    BY <1>2, <1>0, <1>a DEF TypeRest, TasksOf, RuntimeTask, InboundHello, InHandshake, OutCreating, ConfTask
  <1>3. CASE RecoverSnapshot(t)
    BY <1>3, <1>0, <1>a DEF TypeRest, TasksOf, RuntimeTask, RecoverSnapshot, InHandshake, OutCreating, ConfTask
  <1>4. CASE ClearAuthorityNegativeIfCurrent(t)
    BY <1>4, <1>0, <1>a DEF TypeRest, TasksOf, RuntimeTask, ClearAuthorityNegativeIfCurrent, InHandshake, OutCreating, ConfTask
  <1>5. CASE ResolveVerified(t)
    BY <1>5, <1>0, <1>a DEF TypeRest, TasksOf, RuntimeTask, ResolveVerified, InHandshake, OutCreating, ConfTask
  <1>6. CASE ResolveUnavailable(t)
    BY <1>6, <1>0, <1>a DEF TypeRest, TasksOf, RuntimeTask, ResolveUnavailable, InHandshake, OutCreating, ConfTask
  <1>7. CASE FindConflictingBinding(t)
    BY <1>7, <1>0, <1>a DEF TypeRest, TasksOf, RuntimeTask, FindConflictingBinding, InHandshake, OutCreating, ConfTask
  <1>8. CASE HandshakeFails(t)
    BY <1>8, <1>0, <1>a DEF TypeRest, TasksOf, RuntimeTask, HandshakeFails, InHandshake, OutCreating, ConfTask
  <1>9. CASE RegisterInboundGate(t)
    BY <1>9, <1>0, <1>a DEF TypeRest, TasksOf, RuntimeTask, RegisterInboundGate, InHandshake, OutCreating, ConfTask
  <1>10. CASE RefuseInbound(t)
    BY <1>10, <1>0, <1>a DEF TypeRest, TasksOf, RuntimeTask, RefuseInbound, InMapSection, InHandshake, OutCreating, ConfTask
  <1>11. CASE AcceptInbound(t)
    BY <1>11, <1>0, <1>a DEF TypeRest, TasksOf, RuntimeTask, AcceptInbound, InMapSection, InHandshake, OutCreating, ConfTask
  <1>12. CASE DeliverResult(t)
    BY <1>12, <1>0, <1>a DEF TypeRest, TasksOf, RuntimeTask, DeliverResult, InHandshake, OutCreating, ConfTask
  <1>13. CASE DropPublishedGuard(t)
    BY <1>13, <1>0, <1>a DEF TypeRest, TasksOf, RuntimeTask, DropPublishedGuard, InHandshake, OutCreating, ConfTask
  <1>14. CASE RollbackPublication(t)
    BY <1>14, <1>0, <1>a DEF TypeRest, TasksOf, RuntimeTask, RollbackPublication, InHandshake, OutCreating, ConfTask
  <1> QED BY <1>1, <1>2, <1>3, <1>4, <1>5, <1>6, <1>7, <1>8, <1>9, <1>10, <1>11, <1>12, <1>13, <1>14 DEF InboundStep

(* The steps of OutboundStep start no task behind a closed task set. *)
LEMMA OutboundTasks ==
    ASSUME IInv, Ordered, NEW t \in Tunnels, OutboundStep(t),
           map'.lifecycle = map.lifecycle, tasks' = tasks
    PROVE  \A s \in Tunnels : TasksOf(s)'
  <1>0. TypeRest /\ CandOf(t)
    BY DEF IInv, CandOK
  <1>a. /\ ~tasks.runtime => map.lifecycle # "Running"
        /\ ~tasks.cleanup => ~tasks.runtime
        /\ map.lifecycle = "Stopped" => ~tasks.cleanup
        /\ \A s \in Tunnels : TasksOf(s)
    BY DEF Ordered
  <1>1. CASE \E target \in Dials : CreateTunnel(t, target)
    BY <1>1, <1>0, <1>a DEF TypeRest, TasksOf, RuntimeTask, CreateTunnel, InHandshake, OutCreating, ConfTask
  <1>2. CASE OutboundGate(t)
    BY <1>2, <1>0, <1>a DEF TypeRest, TasksOf, RuntimeTask, OutboundGate, InHandshake, OutCreating, ConfTask
  <1>3. CASE AcquireOutbound(t)
    BY <1>3, <1>0, <1>a DEF TypeRest, TasksOf, RuntimeTask, AcquireOutbound, InHandshake, OutCreating, ConfTask
  <1>4. CASE AcquireFlight(t)
    BY <1>4, <1>0, <1>a DEF TypeRest, TasksOf, RuntimeTask, AcquireFlight, InHandshake, OutCreating, ConfTask
  <1>5. CASE DialFails(t)
    BY <1>5, <1>0, <1>a DEF TypeRest, TasksOf, RuntimeTask, DialFails, InHandshake, OutCreating, ConfTask
  <1>6. CASE RegisterOutboundIfAbsent(t)
    BY <1>6, <1>0, <1>a DEF TypeRest, TasksOf, RuntimeTask, RegisterOutboundIfAbsent, InHandshake, OutCreating, ConfTask
  <1>7. CASE SpawnRun(t)
    BY <1>7, <1>0, <1>a DEF TypeRest, TasksOf, RuntimeTask, SpawnRun, InHandshake, OutCreating, ConfTask
  <1>8. CASE SpawnRefused(t)
    BY <1>8, <1>0, <1>a DEF TypeRest, TasksOf, RuntimeTask, SpawnRefused, InHandshake, OutCreating, ConfTask
  <1> QED BY <1>1, <1>2, <1>3, <1>4, <1>5, <1>6, <1>7, <1>8 DEF OutboundStep

(* The steps of TunnelStep start no task behind a closed task set. *)
LEMMA TunnelTasks ==
    ASSUME IInv, Ordered, NEW t \in Tunnels, TunnelStep(t),
           map'.lifecycle = map.lifecycle, tasks' = tasks
    PROVE  \A s \in Tunnels : TasksOf(s)'
  <1>0. TypeRest /\ CandOf(t)
    BY DEF IInv, CandOK
  <1>a. /\ ~tasks.runtime => map.lifecycle # "Running"
        /\ ~tasks.cleanup => ~tasks.runtime
        /\ map.lifecycle = "Stopped" => ~tasks.cleanup
        /\ \A s \in Tunnels : TasksOf(s)
    BY DEF Ordered
  <1>1. CASE CloseTunnel(t)
    BY <1>1, <1>0, <1>a DEF TypeRest, TasksOf, RuntimeTask, CloseTunnel, InHandshake, OutCreating, ConfTask
  <1>2. CASE RemoveClosed(t)
    BY <1>2, <1>0, <1>a DEF TypeRest, TasksOf, RuntimeTask, RemoveClosed, InHandshake, OutCreating, ConfTask
  <1>3. CASE RunExit(t)
    BY <1>3, <1>0, <1>a DEF TypeRest, TasksOf, RuntimeTask, RunExit, InHandshake, OutCreating, ConfTask
  <1>4. CASE AbortRun(t)
    BY <1>4, <1>0, <1>a DEF TypeRest, TasksOf, RuntimeTask, AbortRun, InHandshake, OutCreating, ConfTask
  <1> QED BY <1>1, <1>2, <1>3, <1>4 DEF TunnelStep

(* The steps of ConfirmationStep start no task behind a closed task set. *)
LEMMA ConfirmationTasks ==
    ASSUME IInv, Ordered, NEW t \in Tunnels, ConfirmationStep(t),
           map'.lifecycle = map.lifecycle, tasks' = tasks
    PROVE  \A s \in Tunnels : TasksOf(s)'
  <1>0. TypeRest /\ CandOf(t)
    BY DEF IInv, CandOK
  <1>a. /\ ~tasks.runtime => map.lifecycle # "Running"
        /\ ~tasks.cleanup => ~tasks.runtime
        /\ map.lifecycle = "Stopped" => ~tasks.cleanup
        /\ \A s \in Tunnels : TasksOf(s)
    BY DEF Ordered
  <1>1. CASE BeginAuthorityConfirmation(t)
    BY <1>1, <1>0, <1>a DEF TypeRest, TasksOf, RuntimeTask, BeginAuthorityConfirmation, InHandshake, OutCreating, ConfTask
  <1>2. CASE CompleteAuthorityUnavailable(t)
    BY <1>2, <1>0, <1>a DEF TypeRest, TasksOf, RuntimeTask, CompleteAuthorityUnavailable, InHandshake, OutCreating, ConfTask
  <1>3. CASE CompleteAuthorityConfirmed(t)
    BY <1>3, <1>0, <1>a DEF TypeRest, TasksOf, RuntimeTask, CompleteAuthorityConfirmed, CompleteAuthority, InHandshake, OutCreating, ConfTask
  <1>4. CASE CompleteAuthorityNegative(t)
    BY <1>4, <1>0, <1>a DEF TypeRest, TasksOf, RuntimeTask, CompleteAuthorityNegative, CompleteAuthority, InHandshake, OutCreating, ConfTask
  <1>5. CASE UpgradeTrust(t)
    BY <1>5, <1>0, <1>a DEF TypeRest, TasksOf, RuntimeTask, UpgradeTrust, InHandshake, OutCreating, ConfTask
  <1>6. CASE DetachInstances(t)
    BY <1>6, <1>0, <1>a DEF TypeRest, TasksOf, RuntimeTask, DetachInstances, InHandshake, OutCreating, ConfTask
  <1>7. CASE AbortConfirmation(t)
    BY <1>7, <1>0, <1>a DEF TypeRest, TasksOf, RuntimeTask, AbortConfirmation, InHandshake, OutCreating, ConfTask
  <1> QED BY <1>1, <1>2, <1>3, <1>4, <1>5, <1>6, <1>7 DEF ConfirmationStep

(* A tunnel that is placed afterwards was placed before, or holds its slot. *)
Placed == {"published", "registered", "unspawned", "running"}
StaysPlaced(s) ==
    pc'[s] \in Placed =>
        \/ pc[s] \in Placed /\ cand'[s] = cand[s]
        \/ map'.tunnels[cand'[s].key] = s

(* Every step of a task leaves the tunnels placed. *)
LEMMA StepPlaced ==
    ASSUME IInv, Locks, NEW t \in Tunnels,
           InboundStep(t) \/ OutboundStep(t) \/ TunnelStep(t) \/ ConfirmationStep(t)
    PROVE  \A s \in Tunnels : StaysPlaced(s)
  <1>0. CandOf(t) /\ LockOf(t) /\ TypeRest
    BY DEF IInv, CandOK, Locks
  <1>1. CASE \E doc \in InDocs : InboundHello(t, DocDev[doc], doc)
    BY <1>1, <1>0 DEF TypeRest, StaysPlaced, InboundHello, Placed
  <1>2. CASE \E d \in InDevs : InboundHello(t, d, None)
    BY <1>2, <1>0 DEF TypeRest, StaysPlaced, InboundHello, Placed
  <1>3. CASE AcceptInbound(t)
    <2>1. pc[t] \in Early /\ (cand[t].doc # None => commit = t)
      BY <1>3 DEF AcceptInbound, InMapSection, Early, InHandshake
    <2>2. map'.tunnels[cand[t].key] = t
      BY <1>3, <2>1, AcceptEffect
    <2>3. cand' = cand /\ pc' = [pc EXCEPT ![t] = "published"]
      BY <1>3 DEF AcceptInbound
    <2> QED BY <1>0, <2>2, <2>3 DEF TypeRest, StaysPlaced
  <1>4. CASE RegisterOutboundIfAbsent(t)
    <2>1. pc'[t] = "registered" => map'.tunnels[cand[t].key] = t
      BY <1>4, RegisterEffect
    <2>2. cand' = cand /\ pc'[t] \in {"done", "reused", "registered"}
      BY <1>4, <1>0 DEF TypeRest, RegisterOutboundIfAbsent
    <2>3. \A s \in Tunnels \ {t} : pc'[s] = pc[s]
      BY <1>4, <1>0 DEF TypeRest, RegisterOutboundIfAbsent
    <2> QED BY <2>1, <2>2, <2>3 DEF StaysPlaced, Placed
  <1>5. CASE \E target \in Dials : CreateTunnel(t, target)
    BY <1>5, <1>0 DEF TypeRest, StaysPlaced, CreateTunnel, Placed
  <1>6. CASE AcquireOutbound(t)
    BY <1>6, <1>0 DEF TypeRest, StaysPlaced, AcquireOutbound, Placed
  <1>7. CASE RefuseInbound(t)
    BY <1>7, <1>0 DEF TypeRest, StaysPlaced, RefuseInbound, Placed
  <1>8. CASE RecoverSnapshot(t)
    BY <1>8, <1>0 DEF TypeRest, StaysPlaced, RecoverSnapshot, Placed
  <1>9. CASE ClearAuthorityNegativeIfCurrent(t)
    BY <1>9, <1>0 DEF TypeRest, StaysPlaced, ClearAuthorityNegativeIfCurrent, Placed
  <1>10. CASE ResolveVerified(t)
    BY <1>10, <1>0 DEF TypeRest, StaysPlaced, ResolveVerified, Placed
  <1>11. CASE ResolveUnavailable(t)
    BY <1>11, <1>0 DEF TypeRest, StaysPlaced, ResolveUnavailable, Placed
  <1>12. CASE FindConflictingBinding(t)
    BY <1>12, <1>0 DEF TypeRest, StaysPlaced, FindConflictingBinding, Placed
  <1>13. CASE HandshakeFails(t)
    BY <1>13, <1>0 DEF TypeRest, StaysPlaced, HandshakeFails, Placed
  <1>14. CASE RegisterInboundGate(t)
    BY <1>14, <1>0 DEF TypeRest, StaysPlaced, RegisterInboundGate, Placed
  <1>15. CASE DeliverResult(t)
    BY <1>15, <1>0 DEF TypeRest, StaysPlaced, DeliverResult, Placed
  <1>16. CASE DropPublishedGuard(t)
    BY <1>16, <1>0 DEF TypeRest, StaysPlaced, DropPublishedGuard, Placed
  <1>17. CASE RollbackPublication(t)
    BY <1>17, <1>0 DEF TypeRest, StaysPlaced, RollbackPublication, Placed
  <1>18. CASE OutboundGate(t)
    BY <1>18, <1>0 DEF TypeRest, StaysPlaced, OutboundGate, Placed
  <1>19. CASE AcquireFlight(t)
    BY <1>19, <1>0 DEF TypeRest, StaysPlaced, AcquireFlight, Placed
  <1>20. CASE DialFails(t)
    BY <1>20, <1>0 DEF TypeRest, StaysPlaced, DialFails, Placed
  <1>21. CASE SpawnRun(t)
    BY <1>21, <1>0 DEF TypeRest, StaysPlaced, SpawnRun, Placed
  <1>22. CASE SpawnRefused(t)
    BY <1>22, <1>0 DEF TypeRest, StaysPlaced, SpawnRefused, Placed
  <1>23. CASE TunnelStep(t)
    BY <1>23, <1>0 DEF TypeRest, StaysPlaced, TunnelStep, CloseTunnel, RemoveClosed, RunExit,
       AbortRun, Placed
  <1>24. CASE ConfirmationStep(t)
    BY <1>24, <1>0 DEF StaysPlaced, ConfirmationStep, BeginAuthorityConfirmation,
       CompleteAuthorityUnavailable, CompleteAuthorityConfirmed, CompleteAuthorityNegative,
       CompleteAuthority, UpgradeTrust, DetachInstances, AbortConfirmation
  <1> QED BY <1>1, <1>2, <1>3, <1>4, <1>5, <1>6, <1>7, <1>8, <1>9, <1>10, <1>11, <1>12, <1>13, <1>14, <1>15, <1>16, <1>17, <1>18, <1>19, <1>20, <1>21, <1>22, <1>23, <1>24 DEF InboundStep, OutboundStep

(* So no step of a task orphans a tunnel or puts one into a drained map. *)
LEMMA StepDrained ==
    ASSUME IInv, Locks, Drained, NEW t \in Tunnels,
           InboundStep(t) \/ OutboundStep(t) \/ TunnelStep(t) \/ ConfirmationStep(t)
    PROVE  Drained'
  <1>1. /\ map'.lifecycle = map.lifecycle /\ SlotsKept(t) /\ OnlyClosedLose
        /\ closed \subseteq closed'
    BY StepEffect DEF Effect
  <1>2. \A s \in Tunnels : StaysPlaced(s)
    BY StepPlaced
  <1>3. (map.lifecycle # "Running" => \A k \in Keys : map.tunnels[k] = None)'
    BY <1>1 DEF Drained, SlotsKept
  <1>4. NoOrphan'
    <2> SUFFICES ASSUME NEW s \in Tunnels, pc'[s] \in Placed, s \notin closed'
                 PROVE  map'.tunnels[cand'[s].key] = s
      BY DEF NoOrphan, Placed
    <2>1. CASE pc[s] \in Placed /\ cand'[s] = cand[s]
      <3>1. PICK k \in Keys : k = cand[s].key
        BY <2>1 DEF IInv, CandOK, CandOf, Placed
      <3>2. map.tunnels[k] = s
        BY <1>1, <2>1, <3>1 DEF Drained, NoOrphan, Placed
      <3> QED BY <1>1, <2>1, <3>1, <3>2 DEF OnlyClosedLose
    <2> QED BY <1>2, <2>1 DEF StaysPlaced
  <1> QED BY <1>3, <1>4 DEF Drained

-----------------------------------------------------------------------------
(* The fence: with a Negative recorded and not being detached, no instance *)
(* holds the name.                                                         *)

Fenced ==
    \A n \in Names : authority[n].st = "Negative" /\ ~Detaching(n) =>
        \A s \in Tunnels : map.binding[s].name # n

(* A step that records no Negative and ends no detach ... *)
FenceKept ==
    /\ \A n \in Names : authority'[n].st = "Negative" => authority[n].st = "Negative"
    /\ \A s \in Tunnels : conf[s] = "detach" => conf'[s] = "detach" /\ cand'[s] = cand[s]

(* ... leaves the fence standing: whoever gives an instance a name is past *)
(* the Negative gate and still holds the commit lock.                      *)
LEMMA KeptFence ==
    ASSUME IInv, Locks, Fenced, NEW t \in Tunnels, Effect(t), FenceKept
    PROVE  Fenced'
  <1> SUFFICES ASSUME NEW n \in Names, authority'[n].st = "Negative", ~Detaching(n)',
                      NEW s \in Tunnels
               PROVE  map'.binding[s].name # n
    BY DEF Fenced
  <1>1. authority[n].st = "Negative" /\ ~Detaching(n)
    BY DEF FenceKept, Detaching
  <1>2. map.binding[s].name # n
    BY <1>1 DEF Fenced
  <1>3. commit = t /\ pc[t] \in Early => cand[t].name # n
    BY <1>1 DEF Locks, LockOf
  <1>4. NoBinding.name # n
    BY DEF NoBinding
  <1> QED BY <1>2, <1>3, <1>4 DEF Effect, NamesKept

(* The steps of the handshakes, the dials and the run loops keep it. *)
LEMMA TaskFence ==
    ASSUME IInv, Locks, NEW t \in Tunnels, InboundStep(t) \/ OutboundStep(t) \/ TunnelStep(t)
    PROVE  FenceKept
  <1>0. CandOf(t) /\ LockOf(t) /\ TypeRest
    BY DEF IInv, CandOK, Locks
  <1>1. CASE \E doc \in InDocs : InboundHello(t, DocDev[doc], doc)
    BY <1>1, <1>0 DEF FenceKept, TypeRest, CandOf, LockOf, InHandshake, ConfTask, InboundHello
  <1>2. CASE \E d \in InDevs : InboundHello(t, d, None)
    BY <1>2, <1>0 DEF FenceKept, TypeRest, CandOf, LockOf, InHandshake, ConfTask, InboundHello
  <1>3. CASE RecoverSnapshot(t)
    BY <1>3, <1>0 DEF FenceKept, TypeRest, CandOf, LockOf, InHandshake, ConfTask, RecoverSnapshot
  <1>4. CASE ClearAuthorityNegativeIfCurrent(t)
    BY <1>4, <1>0 DEF FenceKept, TypeRest, CandOf, LockOf, InHandshake, ConfTask, ClearAuthorityNegativeIfCurrent
  <1>5. CASE ResolveVerified(t)
    BY <1>5, <1>0 DEF FenceKept, TypeRest, CandOf, LockOf, InHandshake, ConfTask, ResolveVerified
  <1>6. CASE ResolveUnavailable(t)
    BY <1>6, <1>0 DEF FenceKept, TypeRest, CandOf, LockOf, InHandshake, ConfTask, ResolveUnavailable
  <1>7. CASE FindConflictingBinding(t)
    BY <1>7, <1>0 DEF FenceKept, TypeRest, CandOf, LockOf, InHandshake, ConfTask, FindConflictingBinding
  <1>8. CASE HandshakeFails(t)
    BY <1>8, <1>0 DEF FenceKept, TypeRest, CandOf, LockOf, InHandshake, ConfTask, HandshakeFails
  <1>9. CASE RegisterInboundGate(t)
    BY <1>9, <1>0 DEF FenceKept, TypeRest, CandOf, LockOf, InHandshake, ConfTask, RegisterInboundGate
  <1>10. CASE RefuseInbound(t)
    BY <1>10, <1>0 DEF FenceKept, TypeRest, CandOf, LockOf, InHandshake, ConfTask, RefuseInbound
  <1>11. CASE AcceptInbound(t)
    BY <1>11, <1>0 DEF FenceKept, TypeRest, CandOf, LockOf, InHandshake, ConfTask, AcceptInbound
  <1>12. CASE DeliverResult(t)
    BY <1>12, <1>0 DEF FenceKept, TypeRest, CandOf, LockOf, InHandshake, ConfTask, DeliverResult
  <1>13. CASE DropPublishedGuard(t)
    BY <1>13, <1>0 DEF FenceKept, TypeRest, CandOf, LockOf, InHandshake, ConfTask, DropPublishedGuard
  <1>14. CASE RollbackPublication(t)
    BY <1>14, <1>0 DEF FenceKept, TypeRest, CandOf, LockOf, InHandshake, ConfTask, RollbackPublication
  <1>15. CASE \E target \in Dials : CreateTunnel(t, target)
    BY <1>15, <1>0 DEF FenceKept, TypeRest, CandOf, LockOf, InHandshake, ConfTask, CreateTunnel
  <1>16. CASE cand' = cand /\ conf' = conf /\ authority' = authority
    BY <1>16 DEF FenceKept
  <1> QED BY <1>1, <1>2, <1>3, <1>4, <1>5, <1>6, <1>7, <1>8, <1>9, <1>10, <1>11, <1>12, <1>13, <1>14, <1>15, <1>16
          DEF InboundStep, OutboundStep, OutboundGate, AcquireOutbound, AcquireFlight, DialFails,
              RegisterOutboundIfAbsent, SpawnRun, SpawnRefused, TunnelStep, CloseTunnel,
              RemoveClosed, RunExit, AbortRun

(* The steps of the confirmations: a Negative is fenced by its detach, the *)
(* detach leaves nobody bound to the name, and a detach is aborted only    *)
(* once shutdown has drained the map.                                      *)
LEMMA ConfirmationFence ==
    ASSUME IInv, Locks, Ordered, Drained, Fenced, NEW t \in Tunnels, ConfirmationStep(t)
    PROVE  Fenced'
  <1>0. CandOf(t) /\ LockOf(t) /\ TypeRest /\ NamedDocs
    BY DEF IInv, CandOK, Locks
  <1>e. Effect(t)
    BY StepEffect
  <1>1. CASE BeginAuthorityConfirmation(t)
    <2>1. FenceKept
      BY <1>1, <1>0 DEF FenceKept, TypeRest, BeginAuthorityConfirmation
    <2> QED BY <1>e, <2>1, KeptFence
  <1>2. CASE CompleteAuthorityUnavailable(t)
    <2>1. FenceKept
      BY <1>2, <1>0 DEF FenceKept, TypeRest, CompleteAuthorityUnavailable
    <2> QED BY <1>e, <2>1, KeptFence
  <1>3. CASE CompleteAuthorityConfirmed(t)
    <2>1. FenceKept
      BY <1>3, <1>0 DEF FenceKept, TypeRest, CompleteAuthorityConfirmed, CompleteAuthority
    <2> QED BY <1>e, <2>1, KeptFence
  <1>4. CASE UpgradeTrust(t)
    <2>1. FenceKept
      BY <1>4, <1>0 DEF FenceKept, TypeRest, UpgradeTrust
    <2> QED BY <1>e, <2>1, KeptFence
  <1>5. CASE CompleteAuthorityNegative(t)
    <2> SUFFICES ASSUME NEW n \in Names, authority'[n].st = "Negative", ~Detaching(n)',
                        NEW s \in Tunnels
                 PROVE  map'.binding[s].name # n
      BY DEF Fenced
    <2>1. map' = map /\ cand' = cand /\ conf[t] = "inflight"
      BY <1>5 DEF CompleteAuthorityNegative, CompleteAuthority
    <2>2. authority[n].st = "Negative" \/ (n = cand[t].name /\ conf'[t] = "detach")
      BY <1>5, <1>0 DEF TypeRest, CompleteAuthorityNegative, CompleteAuthority
    <2>3. ~(n = cand[t].name /\ conf'[t] = "detach")
      BY <2>1 DEF Detaching
    <2>4. \A u \in Tunnels \ {t} : conf'[u] = conf[u]
      BY <1>5, <1>0 DEF TypeRest, CompleteAuthorityNegative, CompleteAuthority
    <2>5. ~Detaching(n)
      BY <2>1, <2>4 DEF Detaching
    <2> QED BY <2>1, <2>2, <2>3, <2>5 DEF Fenced
  <1>6. CASE DetachInstances(t)
    <2> SUFFICES ASSUME NEW n \in Names, authority'[n].st = "Negative", ~Detaching(n)',
                        NEW s \in Tunnels
                 PROVE  map'.binding[s].name # n
      BY DEF Fenced
    <2>1. authority' = authority /\ cand' = cand
      BY <1>6 DEF DetachInstances
    <2>2. \/ map'.binding[s] = NoBinding
          \/ map'.binding[s] = map.binding[s] /\ map.binding[s].name # cand[t].name
      BY <1>6, DetachEffect
    <2>3. \A u \in Tunnels \ {t} : conf'[u] = conf[u]
      BY <1>6, <1>0 DEF TypeRest, DetachInstances
    <2>4. n # cand[t].name => ~Detaching(n)
      BY <2>1, <2>3 DEF Detaching
    <2> QED BY <2>1, <2>2, <2>4 DEF Fenced, NoBinding
  <1>7. CASE AbortConfirmation(t)
    <2>1. map' = map /\ map.lifecycle # "Running"
      BY <1>7 DEF AbortConfirmation, Ordered
    <2>2. \A k \in Keys : map.tunnels[k] = None
      BY <2>1 DEF Drained
    <2>3. \A s \in Tunnels : map.binding[s] = NoBinding
      BY <2>2 DEF IInv, Good, Primary, Agree, BindingsAreReversed
    <2> QED BY <2>1, <2>3 DEF Fenced, NoBinding
  <1> QED BY <1>1, <1>2, <1>3, <1>4, <1>5, <1>6, <1>7 DEF ConfirmationStep

-----------------------------------------------------------------------------
(* Everything together.                                                    *)

FInv == IInv /\ Locks /\ Ordered /\ Drained /\ Fenced

(* Nothing holds or orders anything at the start. *)
LEMMA FInvInit == Init => FInv
  <1> SUFFICES ASSUME Init PROVE FInv
    OBVIOUS
  <1>1. IInv
    BY IInvInit
  <1>2. Locks
    BY DEF Init, Locks, CommitLockHeld, LockOf, ConfTask
  <1>3. Ordered
    BY DEF Init, Ordered, TasksOf, RuntimeTask, InHandshake, ConfTask
  <1>4. Drained
    BY DEF Init, Drained, NoOrphan
  <1>5. Fenced
    BY DEF Init, Fenced, NoBinding, NoAuthority
  <1> QED BY <1>1, <1>2, <1>3, <1>4, <1>5 DEF FInv

(* The steps of the tasks keep the invariant. *)
LEMMA TaskFInv ==
    ASSUME FInv, NEW t \in Tunnels,
           InboundStep(t) \/ OutboundStep(t) \/ TunnelStep(t) \/ ConfirmationStep(t)
    PROVE  Locks' /\ Ordered' /\ Drained' /\ Fenced'
  <1>0. IInv /\ Locks /\ Ordered /\ Drained /\ Fenced
    BY DEF FInv
  <1>1. Locks'
    BY <1>0, InboundLocks, OutboundLocks, TunnelLocks, ConfirmationLocks
  <1>2. Effect(t) /\ tasks' = tasks
    BY <1>0, StepEffect
  <1>3. map'.lifecycle = map.lifecycle
    BY <1>2 DEF Effect
  <1>4. \A s \in Tunnels : TasksOf(s)'
    BY <1>0, <1>2, <1>3, InboundTasks, OutboundTasks, TunnelTasks, ConfirmationTasks
  <1>5. Ordered'
    BY <1>0, <1>2, <1>3, <1>4 DEF Ordered
  <1>6. Drained'
    BY <1>0, StepDrained
  <1>7. CASE InboundStep(t) \/ OutboundStep(t) \/ TunnelStep(t)
    <2>1. FenceKept
      BY <1>0, <1>7, TaskFence
    <2>2. Fenced'
      BY <1>0, <1>2, <2>1, KeptFence
    <2> QED BY <1>1, <1>5, <1>6, <2>2
  <1>8. CASE ConfirmationStep(t)
    <2>1. Fenced'
      BY <1>0, <1>8, ConfirmationFence
    <2> QED BY <1>1, <1>5, <1>6, <2>1
  <1> QED BY <1>7, <1>8

(* begin_shutdown closes every holder of a slot, so it orphans nobody; the *)
(* later steps of shutdown wait for the tasks they must find joined.       *)
LEMMA ShutdownFInv ==
    ASSUME FInv, ShutdownStep
    PROVE  Locks' /\ Ordered' /\ Drained' /\ Fenced'
  <1>0. IInv /\ Locks /\ Ordered /\ Drained /\ Fenced /\ TypeRest /\ map \in MapState
    BY DEF FInv, IInv, Good
  <1>1. /\ pc' = pc /\ cand' = cand /\ conf' = conf /\ commit' = commit
        /\ authority' = authority
    BY DEF ShutdownStep, BeginShutdown, CloseRuntimeTasks, CloseCleanupTasks, FinishShutdown
  <1>2. Locks'
    BY <1>0, <1>1 DEF Locks, LockOf, CommitLockHeld
  <1>3. CASE BeginShutdown
    <2>1. /\ map.lifecycle = "Running" /\ map'.lifecycle = "Stopping" /\ tasks' = tasks
          /\ \A k \in Keys : map'.tunnels[k] = None
          /\ \A s \in Tunnels : map'.binding[s] = NoBinding
      BY <1>3 DEF BeginShutdown
    <2>2. Ordered'
      BY <1>0, <1>1, <2>1 DEF Ordered, TasksOf, RuntimeTask
    <2>3. NoOrphan'
      <3> SUFFICES ASSUME NEW s \in Tunnels, pc[s] \in Placed, s \notin closed'
                   PROVE  FALSE
        BY <1>1 DEF NoOrphan, Placed
      <3>1. PICK k \in Keys : k = cand[s].key
        BY <1>0 DEF IInv, CandOK, CandOf, Placed
      <3>2. map.tunnels[k] = s
        BY <1>0, <1>3, <3>1 DEF Drained, NoOrphan, Placed, BeginShutdown
      <3> QED BY <1>3, <3>2 DEF BeginShutdown
    <2>4. Drained'
      BY <2>1, <2>3 DEF Drained
    <2>5. Fenced'
      BY <2>1 DEF Fenced, NoBinding
    <2> QED BY <1>2, <2>2, <2>4, <2>5
  <1>4. CASE map' = map /\ closed' = closed /\ (CloseRuntimeTasks \/ CloseCleanupTasks)
    <2>1. Ordered'
      BY <1>0, <1>1, <1>4
         DEF Ordered, TasksOf, RuntimeTask, CloseRuntimeTasks, CloseCleanupTasks, TypeRest
    <2>2. Drained'
      BY <1>0, <1>1, <1>4 DEF Drained, NoOrphan
    <2>3. Fenced'
      BY <1>0, <1>1, <1>4 DEF Fenced, Detaching
    <2> QED BY <1>2, <2>1, <2>2, <2>3
  <1>5. CASE FinishShutdown
    <2>1. /\ map.lifecycle = "Stopping" /\ map'.lifecycle = "Stopped" /\ tasks' = tasks
          /\ map'.tunnels = map.tunnels /\ map'.binding = map.binding /\ closed' = closed
          /\ ~tasks.cleanup /\ \A s \in Tunnels : pc[s] # "rollback"
      BY <1>0, <1>5 DEF FinishShutdown, MapState
    <2>2. Ordered'
      BY <1>0, <1>1, <2>1 DEF Ordered, TasksOf, RuntimeTask
    <2>3. Drained'
      BY <1>0, <1>1, <2>1 DEF Drained, NoOrphan
    <2>4. Fenced'
      BY <1>0, <1>1, <2>1 DEF Fenced, Detaching
    <2> QED BY <1>2, <2>2, <2>3, <2>4
  <1> QED BY <1>3, <1>4, <1>5 DEF ShutdownStep, CloseRuntimeTasks, CloseCleanupTasks

(* FInv is inductive. *)
LEMMA FInvNext == FInv /\ [Next]_vars => FInv'
  <1> SUFFICES ASSUME FInv, [Next]_vars PROVE FInv'
    OBVIOUS
  <1>1. IInv'
    BY IInvNext DEF FInv
  <1>2. CASE UNCHANGED vars
    <2>1. Locks'
      BY <1>2 DEF FInv, vars, Locks, LockOf, CommitLockHeld
    <2>2. Ordered'
      BY <1>2 DEF FInv, vars, Ordered, TasksOf, RuntimeTask
    <2>3. Drained'
      BY <1>2 DEF FInv, vars, Drained, NoOrphan
    <2>4. Fenced'
      BY <1>2 DEF FInv, vars, Fenced, Detaching
    <2> QED BY <1>1, <2>1, <2>2, <2>3, <2>4 DEF FInv
  <1>3. CASE ShutdownStep
    BY <1>1, <1>3, ShutdownFInv DEF FInv
  <1>4. CASE \E t \in Tunnels :
               InboundStep(t) \/ OutboundStep(t) \/ TunnelStep(t) \/ ConfirmationStep(t)
    BY <1>1, <1>4, TaskFInv DEF FInv
  <1> QED BY <1>2, <1>3, <1>4 DEF Next

(* The invariant holds in every reachable state. *)
THEOREM FenceInvariance == Spec => []FInv
  <1>1. Init => FInv
    BY FInvInit
  <1>2. FInv /\ [Next]_vars => FInv'
    BY FInvNext
  <1> QED BY <1>1, <1>2, PTL DEF Spec

(* The commit lock always has a holder that will release it: every path    *)
(* that takes authenticated_commit_lock, cancelled or not, gives it back.  *)
THEOREM CommitLockIsHeld == Spec => []CommitLockHeld
  <1>1. FInv => CommitLockHeld
    BY DEF FInv, Locks
  <1> QED BY <1>1, FenceInvariance, PTL

(* Behind a recorded and detached Negative no instance holds the name and  *)
(* no verified tunnel of it is reachable, however registrations, reuses,   *)
(* recoveries and confirmations interleave.                                *)
THEOREM NegativeIsFenced == Spec => []NegativeFence
  <1>1. FInv => NegativeFence
    <2> SUFFICES ASSUME FInv, NEW n \in Names, authority[n].st = "Negative", ~Detaching(n)
                 PROVE  /\ BoundTo(map, n) = {}
                        /\ \A k \in Keys : Live(map, k) =>
                             ~(/\ cand[map.tunnels[k]].doc # None
                               /\ cand[map.tunnels[k]].name = n)
      BY DEF NegativeFence
    <2>1. \A s \in Tunnels : map.binding[s].name # n
      BY DEF FInv, Fenced
    <2>2. ASSUME NEW k \in Keys, Live(map, k), cand[map.tunnels[k]].doc # None,
                 cand[map.tunnels[k]].name = n
          PROVE  FALSE
      <3>1. PICK e : e = map.tunnels[k]
        OBVIOUS
      <3>2. e \in Tunnels
        BY <2>2, <3>1 DEF FInv, IInv, Good, MapState, Live
      <3>3. e \in map.verified[n]
        BY <2>2, <3>1 DEF FInv, IInv, Good, LiveIndexed, Live
      <3>4. map.binding[e].name = n
        BY <3>3 DEF FInv, IInv, Good, Agree, VerifiedIsBound
      <3> QED BY <2>1, <3>2, <3>4
    <2> QED BY <2>1, <2>2 DEF BoundTo
  <1> QED BY <1>1, FenceInvariance, PTL

(* A live published or registered tunnel is always in the map.             *)
THEOREM NoTunnelIsOrphaned == Spec => []NoOrphan
  <1>1. FInv => NoOrphan
    BY DEF FInv, Drained
  <1> QED BY <1>1, FenceInvariance, PTL

(* After begin_shutdown the map is empty and every tunnel that ever was    *)
(* published or registered is closed.                                      *)
THEOREM ShutdownDrains == Spec => []ShutdownDrained
  <1>1. FInv => ShutdownDrained
    <2> SUFFICES ASSUME FInv, map.lifecycle # "Running"
                 PROVE  /\ \A k \in Keys : map.tunnels[k] = None
                        /\ \A t \in Tunnels : ~Bound(t)
                        /\ \A n \in Names : map.verified[n] = {}
                        /\ \A t \in Tunnels : pc[t] \in Placed => t \in closed
      BY DEF ShutdownDrained, Placed
    <2>1. \A k \in Keys : map.tunnels[k] = None
      BY DEF FInv, Drained
    <2>2. \A t \in Tunnels : map.binding[t] = NoBinding
      BY <2>1 DEF FInv, IInv, Good, Primary, Agree, BindingsAreReversed
    <2>3. \A n \in Names : map.verified[n] = {}
      <3>1. \A n \in Names : map.verified[n] \subseteq Tunnels
        BY DEF FInv, IInv, Good, MapState
      <3>2. \A n \in Names : \A t \in map.verified[n] : map.binding[t].name = n
        BY DEF FInv, IInv, Good, Agree, VerifiedIsBound
      <3> QED BY <2>2, <3>1, <3>2 DEF NoBinding
    <2>4. ASSUME NEW t \in Tunnels, pc[t] \in Placed, t \notin closed PROVE FALSE
      <3>1. cand[t].key \in Keys
        BY <2>4 DEF FInv, IInv, CandOK, CandOf, Placed
      <3>2. map.tunnels[cand[t].key] = t
        BY <2>4 DEF FInv, Drained, NoOrphan, Placed
      <3> QED BY <2>1, <3>1, <3>2
    <2> QED BY <2>1, <2>2, <2>3, <2>4 DEF Bound
  <1> QED BY <1>1, FenceInvariance, PTL

(* No rollback is lost to a closed cleanup set, and shutdown finishes with *)
(* no task left.                                                           *)
THEOREM ShutdownIsOrdered == Spec => []ShutdownOrdered
  <1>1. FInv => ShutdownOrdered
    BY DEF FInv, Ordered, TasksOf, ShutdownOrdered
  <1> QED BY <1>1, FenceInvariance, PTL

-----------------------------------------------------------------------------
(***************************************************************************)
(* The tunnel map implements TunnelRegistry, and its indexes never hold    *)
(* two live documents of one iat.  The proofs rest on the invariant of the *)
(* fence proofs above and on two more facts: an instance that is not       *)
(* yet published or registered is not closed, and gate 2 is inductive.     *)
(***************************************************************************)

TaskStep(t) == InboundStep(t) \/ OutboundStep(t) \/ TunnelStep(t) \/ ConfirmationStep(t)

LiveEarly == \A t \in Tunnels : pc[t] \in Early => t \notin closed

RInv == FInv /\ LiveEarly /\ NoSameIatConflict

Held(s) == \E k \in Keys : map.tunnels[k] = s
Entered == {"published", "registered"}

(* Who is closed by a step: instances with a slot, and an instance that    *)
(* leaves its early stages without one.                                    *)
ClosesOnly ==
    \A s \in Tunnels :
        /\ s \in closed' => s \in closed \/ Held(s) \/ pc'[s] \notin Early \cup Entered
        /\ pc'[s] \in Early => pc[s] \in Early
        /\ pc'[s] \in Entered => pc[s] \in Early \cup Entered

-----------------------------------------------------------------------------
(* An instance that holds a name holds a slot, and so does one that is     *)
(* indexed.                                                                *)
LEMMA BoundHeld ==
    ASSUME IInv
    PROVE  /\ \A s \in Tunnels : map.binding[s] # NoBinding => Held(s)
           /\ \A n \in Names : \A s \in map.verified[n] : s \in Tunnels /\ Held(s)
  <1>1. map \in MapState /\ Agree(map) /\ Primary(map)
    BY DEF IInv, Good
  <1>2. ASSUME NEW s \in Tunnels, map.binding[s] # NoBinding
        PROVE  Held(s)
    BY <1>1, <1>2 DEF Primary, Agree, BindingsAreReversed, Held
  <1>3. ASSUME NEW n \in Names, NEW s \in map.verified[n]
        PROVE  s \in Tunnels /\ Held(s)
    <2>1. s \in Tunnels
      BY <1>1 DEF MapState
    <2>2. map.binding[s].name = n
      BY <1>1 DEF Agree, VerifiedIsBound
    <2>3. map.binding[s] # NoBinding
      BY <2>2 DEF NoBinding
    <2> QED BY <1>2, <2>1, <2>3
  <1> QED BY <1>2, <1>3

(* Accepting an instance closes the superseded ones, which hold slots. *)
LEMMA AcceptCloses ==
    ASSUME IInv, NEW t \in Tunnels, AcceptInbound(t)
    PROVE  \A s \in closed' : s \in closed \/ Held(s)
  <1>1. PICK m : m = GatedMap(t)
    OBVIOUS
  <1>2. /\ InMapSection(t) /\ ~NameConflict(t) /\ ~Live(m, cand[t].key) /\ t \notin closed
    BY <1>1 DEF AcceptInbound, SlotTaken
  <1>3. PICK k \in Keys : k = cand[t].key
    BY <1>1, <1>2, GatedMapFacts
  <1>4. /\ Good(m, closed)
        /\ \A j \in Keys : m.tunnels[j] # t
    BY <1>1, <1>2, <1>3, GatedMapFacts
  <1>5. \A o \in Names : m.verified[o] \subseteq map.verified[o]
    BY <1>1, <1>2, GatedMapFacts
  <1>6. PICK p : p = TakeSlot(m, t)
    OBVIOUS
  <1>7. m.tunnels[k] \in closed \cup {None}
    BY <1>2, <1>3 DEF Live
  <1>8. \A o \in Names : p.verified[o] \subseteq m.verified[o]
    BY <1>2, <1>3, <1>4, <1>6, TakeFacts
  <1>9. CASE cand[t].doc = None
    BY <1>9 DEF AcceptInbound
  <1>10. CASE cand[t].doc # None
    <2>1. closed' = closed \cup Superseded(p, cand[t].doc)
      BY <1>1, <1>6, <1>10 DEF AcceptInbound
    <2>2. DocName[cand[t].doc] \in Names
      BY <1>10 DEF IInv, CandOK, NamedDocs
    <2>3. Superseded(p, cand[t].doc) \subseteq map.verified[DocName[cand[t].doc]]
      BY <1>5, <1>8, <2>2 DEF Superseded
    <2> QED BY <2>1, <2>2, <2>3, BoundHeld
  <1> QED BY <1>9, <1>10

(* A detach closes instances with a name. *)
LEMMA DetachCloses ==
    ASSUME IInv, NEW t \in Tunnels, DetachInstances(t), conf[t] # "none"
    PROVE  \A s \in closed' : s \in closed \/ Held(s)
  <1>1. cand[t].name # None
    BY DEF IInv, CandOK, CandOf, NamedDocs
  <1>2. closed' = closed \cup BoundTo(map, cand[t].name)
    BY DEF DetachInstances
  <1>3. \A s \in BoundTo(map, cand[t].name) : s \in Tunnels /\ map.binding[s] # NoBinding
    BY <1>1 DEF BoundTo, NoBinding
  <1> QED BY <1>2, <1>3, BoundHeld

(* Every step of a task closes only such instances. *)
LEMMA StepCloses ==
    ASSUME IInv, NEW t \in Tunnels, TaskStep(t)
    PROVE  ClosesOnly
  <1>0. TypeRest /\ CandOf(t)
    BY DEF IInv, CandOK
  <1> USE DEF Early, Entered, InHandshake, OutCreating
  <1>1. CASE \E doc \in InDocs : InboundHello(t, DocDev[doc], doc)
    BY <1>1, <1>0 DEF TypeRest, ClosesOnly, InboundHello
  <1>2. CASE \E d \in InDevs : InboundHello(t, d, None)
    BY <1>2, <1>0 DEF TypeRest, ClosesOnly, InboundHello
  <1>3. CASE AcceptInbound(t)
    <2>1. \A s \in closed' : s \in closed \/ Held(s)
      BY <1>3, AcceptCloses
    <2>2. pc[t] \in Early /\ pc' = [pc EXCEPT ![t] = "published"]
      BY <1>3 DEF AcceptInbound, InMapSection
    <2> QED BY <1>0, <2>1, <2>2 DEF TypeRest, ClosesOnly
  <1>4. CASE RegisterOutboundIfAbsent(t)
    <2>1. /\ pc[t] \in Early /\ pc'[t] \in {"done", "reused", "registered"}
          /\ \A s \in Tunnels \ {t} : pc'[s] = pc[s]
      BY <1>4, <1>0 DEF TypeRest, RegisterOutboundIfAbsent
    <2>2. closed' \subseteq closed \cup {t} /\ (pc'[t] = "registered" => closed' = closed)
      BY <1>4, <1>0 DEF TypeRest, RegisterOutboundIfAbsent
    <2> QED BY <1>0, <2>1, <2>2 DEF TypeRest, ClosesOnly
  <1>5. CASE \E target \in Dials : CreateTunnel(t, target)
    BY <1>5, <1>0 DEF TypeRest, ClosesOnly, CreateTunnel
  <1>6. CASE AcquireOutbound(t)
    BY <1>6, <1>0 DEF TypeRest, ClosesOnly, AcquireOutbound
  <1>7. CASE RefuseInbound(t)
    <2>1. /\ pc[t] \in Early /\ pc' = [pc EXCEPT ![t] = "refused"]
          /\ closed' \subseteq closed \cup {t}
      BY <1>7 DEF RefuseInbound, InMapSection
    <2> QED BY <1>0, <2>1 DEF TypeRest, ClosesOnly
  <1>8. CASE RecoverSnapshot(t)
    BY <1>8, <1>0 DEF TypeRest, ClosesOnly, RecoverSnapshot
  <1>9. CASE ClearAuthorityNegativeIfCurrent(t)
    BY <1>9, <1>0 DEF TypeRest, ClosesOnly, ClearAuthorityNegativeIfCurrent
  <1>10. CASE ResolveVerified(t)
    BY <1>10, <1>0 DEF TypeRest, ClosesOnly, ResolveVerified
  <1>11. CASE ResolveUnavailable(t)
    BY <1>11, <1>0 DEF TypeRest, ClosesOnly, ResolveUnavailable
  <1>12. CASE FindConflictingBinding(t)
    BY <1>12, <1>0 DEF TypeRest, ClosesOnly, FindConflictingBinding
  <1>13. CASE HandshakeFails(t)
    BY <1>13, <1>0 DEF TypeRest, ClosesOnly, HandshakeFails
  <1>14. CASE RegisterInboundGate(t)
    BY <1>14, <1>0 DEF TypeRest, ClosesOnly, RegisterInboundGate
  <1>15. CASE DeliverResult(t)
    BY <1>15, <1>0 DEF TypeRest, ClosesOnly, DeliverResult
  <1>16. CASE DropPublishedGuard(t)
    BY <1>16, <1>0 DEF TypeRest, ClosesOnly, DropPublishedGuard
  <1>17. CASE RollbackPublication(t)
    BY <1>17, <1>0 DEF TypeRest, ClosesOnly, RollbackPublication
  <1>18. CASE OutboundGate(t)
    BY <1>18, <1>0 DEF TypeRest, ClosesOnly, OutboundGate
  <1>19. CASE AcquireFlight(t)
    BY <1>19, <1>0 DEF TypeRest, ClosesOnly, AcquireFlight
  <1>20. CASE DialFails(t)
    BY <1>20, <1>0 DEF TypeRest, ClosesOnly, DialFails
  <1>21. CASE SpawnRun(t)
    BY <1>21, <1>0 DEF TypeRest, ClosesOnly, SpawnRun
  <1>22. CASE SpawnRefused(t)
    BY <1>22, <1>0 DEF TypeRest, ClosesOnly, SpawnRefused
  <1>23. CASE TunnelStep(t)
    BY <1>23, <1>0 DEF TypeRest, ClosesOnly, TunnelStep, CloseTunnel, RemoveClosed, RunExit,
       AbortRun, Held
  <1>24. CASE DetachInstances(t)
    <2>1. \A s \in closed' : s \in closed \/ Held(s)
      BY <1>24, DetachCloses DEF DetachInstances
    <2>2. pc' = pc
      BY <1>24 DEF DetachInstances
    <2> QED BY <2>1, <2>2 DEF ClosesOnly
  <1>25. CASE ConfirmationStep(t) /\ ~DetachInstances(t)
    BY <1>25, <1>0 DEF ClosesOnly, ConfirmationStep, BeginAuthorityConfirmation,
       CompleteAuthorityUnavailable, CompleteAuthorityConfirmed, CompleteAuthorityNegative,
       CompleteAuthority, UpgradeTrust, AbortConfirmation
  <1> QED BY <1>1, <1>2, <1>3, <1>4, <1>5, <1>6, <1>7, <1>8, <1>9, <1>10, <1>11, <1>12,
     <1>13, <1>14, <1>15, <1>16, <1>17, <1>18, <1>19, <1>20, <1>21, <1>22, <1>23, <1>24, <1>25
     DEF TaskStep, InboundStep, OutboundStep

(* A step of a task changes at most the candidate of an early instance, and *)
(* then it leaves the map alone.                                            *)
CandKept(t) ==
    \/ cand' = cand
    \/ /\ map' = map /\ pc[t] \in Early
       /\ \A s \in Tunnels \ {t} : cand'[s] = cand[s]

LEMMA StepCandidates ==
    ASSUME IInv, NEW t \in Tunnels, TaskStep(t)
    PROVE  CandKept(t)
  <1>0. TypeRest
    BY DEF IInv
  <1>1. CASE InboundStep(t)
    BY <1>0, <1>1 DEF InboundStep, InboundHello, RecoverSnapshot, ClearAuthorityNegativeIfCurrent,
       ResolveVerified, ResolveUnavailable, FindConflictingBinding, HandshakeFails,
       RegisterInboundGate, RefuseInbound, AcceptInbound, DeliverResult, DropPublishedGuard,
       RollbackPublication, CandKept, TypeRest, Early, InHandshake
  <1>2. CASE OutboundStep(t)
    BY <1>0, <1>2 DEF OutboundStep, CreateTunnel, OutboundGate, AcquireOutbound, AcquireFlight,
       DialFails, RegisterOutboundIfAbsent, SpawnRun, SpawnRefused, CandKept, TypeRest, Early,
       InHandshake
  <1>3. CASE TunnelStep(t)
    BY <1>3 DEF TunnelStep, CloseTunnel, RemoveClosed, RunExit, AbortRun, CandKept
  <1>4. CASE ConfirmationStep(t)
    BY <1>4 DEF ConfirmationStep, BeginAuthorityConfirmation, CompleteAuthorityUnavailable,
       CompleteAuthorityConfirmed, CompleteAuthorityNegative, CompleteAuthority, UpgradeTrust,
       DetachInstances, AbortConfirmation, CandKept
  <1> QED BY <1>1, <1>2, <1>3, <1>4 DEF TaskStep

-----------------------------------------------------------------------------
(* LiveEarly and NoSameIatConflict are inductive together with FInv. *)
LEMMA TaskRInv ==
    ASSUME RInv, IInv', NEW t \in Tunnels, TaskStep(t)
    PROVE  LiveEarly' /\ NoSameIatConflict'
  <1>0. FInv /\ IInv /\ Locks /\ LiveEarly /\ NoSameIatConflict
    BY DEF RInv, FInv
  <1>1. Effect(t) /\ closed \subseteq closed'
    BY <1>0, StepEffect DEF TaskStep
  <1>2. ClosesOnly
    BY <1>0, StepCloses
  <1>3. CandKept(t)
    BY <1>0, StepCandidates
  <1>4. \A s \in Tunnels : Held(s) => pc[s] \notin Early
    BY <1>0 DEF IInv, Unheld, Held
  <1>5. LiveEarly'
    BY <1>0, <1>2, <1>4 DEF LiveEarly, ClosesOnly
  <1>6. \A n \in Names : \A s \in map.verified[n] : s \in Tunnels /\ pc[s] \notin Early
    BY <1>0, <1>4, BoundHeld
  <1>7. CASE map' = map /\ pc[t] \in Early /\ \A s \in Tunnels \ {t} : cand'[s] = cand[s]
    BY <1>0, <1>1, <1>5, <1>6, <1>7 DEF NoSameIatConflict
  <1>8. CASE cand' = cand
    <2> SUFFICES ASSUME NEW n \in Names, NEW s \in map'.verified[n] \ closed',
                        NEW u \in map'.verified[n] \ closed',
                        DocIat[cand[s].doc] = DocIat[cand[u].doc]
                 PROVE  cand[s].doc = cand[u].doc
      BY <1>5, <1>8 DEF NoSameIatConflict
    <2>1. /\ s \in map.verified[n] \/ (s = t /\ ~SameIatConflict(map, cand[t].doc))
          /\ u \in map.verified[n] \/ (u = t /\ ~SameIatConflict(map, cand[t].doc))
      BY <1>1 DEF Effect, IndexKept
    <2>2. s \notin closed /\ u \notin closed
      BY <1>1
    <2>3. /\ cand[s].doc # None /\ cand[s].name = n
          /\ cand[u].doc # None /\ cand[u].name = n
      BY <1>8 DEF IInv, Good, Agree, VerifiedIsBound
    <2>4. s \in Tunnels /\ u \in Tunnels
      BY DEF IInv, Good, MapState
    <2>5. DocName[cand[s].doc] = n /\ DocName[cand[u].doc] = n
      BY <1>0, <2>3, <2>4 DEF IInv, CandOK, NamedDocs
    <2>6. CASE s \in map.verified[n] /\ u \in map.verified[n]
      BY <1>0, <2>2, <2>6 DEF NoSameIatConflict
    <2>7. CASE s = t /\ u \in map.verified[n] /\ ~SameIatConflict(map, cand[t].doc)
      BY <2>2, <2>5, <2>7 DEF SameIatConflict
    <2>8. CASE u = t /\ s \in map.verified[n] /\ ~SameIatConflict(map, cand[t].doc)
      BY <2>2, <2>5, <2>8 DEF SameIatConflict
    <2>9. CASE s = t /\ u = t
      BY <2>9
    <2> QED BY <2>1, <2>6, <2>7, <2>8, <2>9
  <1> QED BY <1>3, <1>5, <1>7, <1>8 DEF CandKept

LEMMA ShutdownRInv ==
    ASSUME RInv, ShutdownStep
    PROVE  LiveEarly' /\ NoSameIatConflict'
  <1>0. IInv /\ LiveEarly /\ NoSameIatConflict /\ map \in MapState
    BY DEF RInv, FInv, IInv, Good
  <1>1. pc' = pc /\ cand' = cand
    BY DEF ShutdownStep, BeginShutdown, CloseRuntimeTasks, CloseCleanupTasks, FinishShutdown
  <1>2. CASE BeginShutdown
    <2>1. \A s \in closed' : s \in closed \/ Held(s)
      BY <1>2 DEF BeginShutdown, Held
    <2>2. \A n \in Names : map'.verified[n] = {}
      BY <1>2 DEF BeginShutdown
    <2>3. LiveEarly'
      BY <1>0, <1>1, <2>1 DEF LiveEarly, IInv, Unheld, Held
    <2> QED BY <2>2, <2>3 DEF NoSameIatConflict
  <1>3. CASE closed' = closed /\ map'.verified = map.verified
    BY <1>0, <1>1, <1>3 DEF LiveEarly, NoSameIatConflict
  <1> QED BY <1>0, <1>2, <1>3 DEF ShutdownStep, CloseRuntimeTasks, CloseCleanupTasks,
       FinishShutdown, MapState

LEMMA RInvNext == RInv /\ [Next]_vars => RInv'
  <1> SUFFICES ASSUME RInv, [Next]_vars PROVE RInv'
    OBVIOUS
  <1>1. FInv'
    BY FInvNext DEF RInv
  <1>2. IInv'
    BY <1>1 DEF FInv
  <1>3. CASE UNCHANGED vars
    BY <1>1, <1>3 DEF RInv, LiveEarly, NoSameIatConflict, vars
  <1>4. CASE ShutdownStep
    BY <1>1, <1>4, ShutdownRInv DEF RInv
  <1>5. CASE \E t \in Tunnels : TaskStep(t)
    BY <1>1, <1>2, <1>5, TaskRInv DEF RInv
  <1> QED BY <1>3, <1>4, <1>5 DEF Next, TaskStep

(* The strengthened invariant holds in every reachable state. *)
THEOREM RegistryInvariance == Spec => []RInv
  <1>1. Init => RInv
    <2> SUFFICES ASSUME Init PROVE RInv
      OBVIOUS
    <2>1. FInv
      BY FInvInit
    <2>2. LiveEarly /\ NoSameIatConflict
      BY DEF Init, LiveEarly, NoSameIatConflict
    <2> QED BY <2>1, <2>2 DEF RInv
  <1>2. RInv /\ [Next]_vars => RInv'
    BY RInvNext
  <1> QED BY <1>1, <1>2, PTL DEF Spec

(* The map and its three indexes are consistent, whatever pruning,         *)
(* replacing, late exits and confirmations interleave.                     *)
THEOREM MapAlwaysConsistent == Spec => []MapConsistent
  <1>1. RInv => NoSameIatConflict
    BY DEF RInv
  <1> QED BY <1>1, RegistryInvariance, TypeCorrect, IndexesAlwaysAgree, DeviceHasOneName,
             NamedIsRegistered, VerifiedIsRevocable, PTL DEF MapConsistent

(* Shutdown and cancellation lose nothing, at whatever await they strike. *)
THEOREM ShutdownAlwaysSafe == Spec => []ShutdownSafe
  BY NoTunnelIsOrphaned, CommitLockIsHeld, ShutdownDrains, ShutdownIsOrdered, PTL
     DEF ShutdownSafe

-----------------------------------------------------------------------------
(* The refinement.  A step of a task frees slots of closed instances, or   *)
(* admits its own live instance to a slot that is free or dead.            *)
LEMMA TaskRefines ==
    ASSUME RInv, TypeOK', NEW t \in Tunnels, TaskStep(t)
    PROVE  Registry!Next
  <1>0. /\ IInv /\ Locks /\ LiveEarly /\ map \in MapState /\ closed \subseteq Tunnels
        /\ Unheld
    BY DEF RInv, FInv, IInv, Good, TypeRest
  <1>1. /\ map'.lifecycle = map.lifecycle /\ SlotsKept(t) /\ OnlyClosedLose
        /\ closed \subseteq closed'
    BY <1>0, StepEffect DEF Effect, TaskStep
  <1>2. ClosesOnly
    BY <1>0, StepCloses
  <1>3. closed' \in SUBSET Tunnels /\ closed \cup closed' = closed' /\ map' \in MapState
    BY <1>1 DEF TypeOK
  <1>4. /\ map.tunnels \in [Keys -> Tunnels \cup {None}]
        /\ map'.tunnels \in [Keys -> Tunnels \cup {None}]
    BY <1>0, <1>3 DEF MapState
  <1>5. CASE \A k \in Keys : map'.tunnels[k] \in {map.tunnels[k], None}
    <2>1. PICK K \in SUBSET Keys : K = {k \in Keys : map'.tunnels[k] # map.tunnels[k]}
      OBVIOUS
    <2>2. \A k \in K : map.tunnels[k] \in closed \cup closed'
      BY <1>1, <1>3, <1>5, <2>1 DEF OnlyClosedLose
    <2>3. map'.tunnels = [k \in Keys |-> IF k \in K THEN None ELSE map.tunnels[k]]
      BY <1>4, <1>5, <2>1
    <2>4. Registry!Retire(closed', K)
      BY <1>1, <1>3, <2>2, <2>3 DEF Registry!Retire
    <2> QED BY <1>3, <2>4 DEF Registry!Next
  <1>6. CASE \E k \in Keys : map'.tunnels[k] \notin {map.tunnels[k], None}
    <2>1. PICK k \in Keys : map'.tunnels[k] \notin {map.tunnels[k], None}
      BY <1>6
    <2>2. /\ map.lifecycle = "Running" /\ pc[t] \in Early
          /\ k = cand[t].key /\ map'.tunnels[k] = t
          /\ pc'[t] \in Entered
          /\ map.tunnels[k] \in closed \cup {None}
      BY <1>1, <2>1 DEF SlotsKept, Entered
    <2>3. t \notin closed'
      BY <1>0, <1>2, <2>2 DEF ClosesOnly, LiveEarly, Unheld, Held
    <2>4. \A j \in Keys \ {k} : map'.tunnels[j] \in {map.tunnels[j], None}
      BY <1>1, <2>2 DEF SlotsKept
    <2>5. PICK K \in SUBSET Keys : K = {j \in Keys \ {k} : map'.tunnels[j] # map.tunnels[j]}
      OBVIOUS
    <2>6. \A j \in K : map.tunnels[j] \in closed \cup closed'
      BY <1>1, <1>3, <2>4, <2>5 DEF OnlyClosedLose
    <2>7. map'.tunnels = [[j \in Keys |-> IF j \in K THEN None ELSE map.tunnels[j]]
                             EXCEPT ![k] = t]
      BY <1>4, <2>2, <2>4, <2>5
    <2>8. Registry!Admit(t, k, closed', K)
      BY <1>1, <1>3, <2>2, <2>3, <2>6, <2>7 DEF Registry!Admit
    <2> QED BY <1>3, <2>8 DEF Registry!Next
  <1> QED BY <1>5, <1>6

LEMMA ShutdownRefines ==
    ASSUME RInv, ShutdownStep
    PROVE  Registry!Next \/ UNCHANGED Registry!vars
  <1>0. map \in MapState
    BY DEF RInv, FInv, IInv, Good
  <1>1. CASE BeginShutdown
    <2>1. Registry!Stop
      BY <1>1 DEF BeginShutdown, Registry!Stop
    <2> QED BY <2>1 DEF Registry!Next
  <1>2. CASE CloseRuntimeTasks \/ CloseCleanupTasks
    BY <1>2 DEF CloseRuntimeTasks, CloseCleanupTasks, Registry!vars
  <1>3. CASE FinishShutdown
    BY <1>0, <1>3 DEF FinishShutdown, Registry!vars, MapState
  <1> QED BY <1>1, <1>2, <1>3 DEF ShutdownStep

(* The tunnel map implements TunnelRegistry: nobody evicts a live tunnel,  *)
(* only a live instance enters, and nothing enters after shutdown began.   *)
THEOREM MapRefinesRegistry == Spec => RegistrySpec
  <1>1. Init => Registry!Init
    BY DEF Init, Registry!Init
  <1>2. RInv /\ TypeOK' /\ [Next]_vars => [Registry!Next]_(Registry!vars)
    <2> SUFFICES ASSUME RInv, TypeOK', [Next]_vars
                 PROVE  Registry!Next \/ UNCHANGED Registry!vars
      OBVIOUS
    <2>1. CASE UNCHANGED vars
      BY <2>1 DEF vars, Registry!vars
    <2>2. CASE ShutdownStep
      BY <2>2, ShutdownRefines
    <2>3. CASE \E t \in Tunnels : TaskStep(t)
      BY <2>3, TaskRefines
    <2> QED BY <2>1, <2>2, <2>3 DEF Next, TaskStep
  <1> QED BY <1>1, <1>2, RegistryInvariance, TypeCorrect, PTL DEF Spec, RegistrySpec, Registry!Spec
==============================================================================

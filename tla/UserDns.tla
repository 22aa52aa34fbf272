------------------------------- MODULE UserDns -------------------------------
(***************************************************************************)
(* The DNS records that users of the SN keep in its account database       *)
(* (sn_auth.rs), the change feed by which the replicas of the SN learn of   *)
(* changes, and the two caches of each replica: that of authoritative      *)
(* answers in the resolver (sn_resolver.rs) and that of name information in *)
(* the server (sn_server.rs, name_info_cache.rs).                           *)
(*                                                                         *)
(* A transaction of the database is one step, an operator from database to *)
(* database.  Requests are tasks of a replica; they interleave at every    *)
(* read of the database and at every access to a cache.                    *)
(***************************************************************************)
EXTENDS Integers, FiniteSets, FiniteSetsExt

CONSTANTS
    Users, Domains, Names, Types, Values,
    Ttls,          \* times to live, positive integers
    Replicas, Tasks,
    NoUser, NoDomain, NoName, NoType, NoValue, NoTask,
    Covers,        \* Covers[d]: the names in domain d
    Bridge,        \* Bridge[u]: the names in <u>.web3.<server_host>
    Hidden,        \* names whose first label begins with an underscore
    Control,       \* those of them that bypass the caches
    OnChain,       \* users whose BNS name has an owner on the chain
    Retention,     \* USER_DNS_CHANGE_RETENTION
    PageLimit,     \* changes in one page of the feed
    Worlds         \* the environments a behaviour may run in

\* One environment: home[k] is the replica that runs task k and asks[k] are the
\* requests that come to it, direct the of other services on
\* the database; writes begin below the given revision, and faults bounds failed synchronisations and cancelled requests.
WorldFields == {"home", "asks", "direct", "revision", "faults"}

\* The requests that a replica receives.
Requests ==
         [op : {"auth", "info"}, u : {NoUser}, n : Names, t : Types, v : {NoValue}, ttl : {0}, d : {NoDomain}]
    \cup [op : {"add"}, u : Users, n : Names, t : Types, v : Values, ttl : Ttls, d : {NoDomain}]
    \cup [op : {"remove"}, u : Users, n : Names, t : Types, v : Values, ttl : {0}, d : {NoDomain}]
    \cup [op : {"delete"}, u : Users, n : Names, t : Types, v : {NoValue}, ttl : {0}, d : {NoDomain}]
    \cup [op : {"bind", "unbind"}, u : Users, n : {NoName}, t : {NoType}, v : {NoValue}, ttl : {0}, d : Domains]

ASSUME UserDnsAssumption ==
    /\ Retention \in Nat \ {0} /\ PageLimit \in Nat \ {0}
    /\ Ttls \subseteq Nat \ {0}
    /\ Covers \in [Domains -> SUBSET Names]
    /\ Bridge \in [Users -> SUBSET Names]
    /\ Control \subseteq Hidden /\ Hidden \subseteq Names
    /\ OnChain \subseteq Users
    /\ \A u, w \in Users : u # w => Bridge[u] \cap Bridge[w] = {}
    /\ \A w \in Worlds :
         /\ DOMAIN w = WorldFields
         /\ w.home \in [Tasks -> Replicas]
         /\ w.asks \in [Tasks -> SUBSET Requests] /\ w.direct \subseteq {"ttl", "state"}
         /\ {w.revision, w.faults} \subseteq Nat
    /\ \A u \in Users, d \in Domains : Bridge[u] \cap Covers[d] = {}

VARIABLES
    world,    \* the environment of this behaviour; it never changes
    db,       \* the account database
    cursor,   \* cursor[r]: revision up to which replica r has read the feed
    due,      \* due[r]: the time of the next synchronisation is reached
    failed,   \* failed[r]: the last synchronisation did not succeed
    syncing,  \* syncing[r]: the task that holds the synchronisation lock
    answers,  \* answers[r]: the resolver's cache
    infos,    \* infos[r]: the server's cache
    infoRev,  \* infoRev[r]: the revision that infos[r] belongs to
    task,     \* task[k]: the request that task k works on
    race,     \* history: what was overtaken between a read and its use
    faults

vars == <<world, db, cursor, due, failed, syncing, answers, infos, infoRev, task, race, faults>>
replica == <<cursor, due, failed, syncing, answers, infos, infoRev, race>>
-----------------------------------------------------------------------------
(* The database. *)

NoRow == [ttl |-> 0, rev |-> 0]

\* The RRset of a type, as user_dns_rrset_tx returns it.
RrsetOf(b, n, t) == [ttl |-> b.rrsets[n][t].ttl, values |-> {v \in Values : <<n, t, v>> \in b.rdata}]

HasRrset(b, n) == \E t \in Types : b.rrsets[n][t] # NoRow

\* One change: the next revision, its event, and the events past the
\* retention deleted.
Changed(b, n) ==
    LET r == b.revision + 1
    IN [b EXCEPT !.revision = r,
                 !.feed = {c \in @ \cup {[rev |-> r, name |-> n]} : c.rev > r - Retention}]

\* DELETE FROM user_dns_names; the other tables follow by ON DELETE CASCADE.
DropName(b, n) ==
    [b EXCEPT !.owner[n] = NoUser,
              !.rrsets[n] = [t \in Types |-> NoRow],
              !.rdata = {x \in @ : x[1] # n}]

\* Mutant: all the names go with one change, of one of them.
DeleteNamesMutant(b, u, within) ==
    LET gone == {n \in within : b.owner[n] = u}
        c == FoldSet(LAMBDA n, acc : DropName(acc, n), b, gone)
    IN IF gone = {} THEN b ELSE Changed(c, CHOOSE n \in gone : TRUE)

\* Delete the names that a user holds within a set, one change for each.
DeleteNames(b, u, within) ==
    FoldSet(LAMBDA n, acc : Changed(DropName(acc, n), n), b, {n \in within : b.owner[n] = u})

Touch(b, n, t, ttl) ==
    LET c == Changed(b, n) IN [c EXCEPT !.rrsets[n][t] = [ttl |-> ttl, rev |-> c.revision]]

MinTtl(old, new) == IF old # NoRow /\ old.ttl < new THEN old.ttl ELSE new

\* The first to write a name holds it; a value that is there already changes
\* nothing, unless it lowers the time to live.
PutValue(b, q) ==
    LET c == [b EXCEPT !.owner[q.n] = q.u]
        old == b.rrsets[q.n][q.t]
        ttl == MinTtl(old, q.ttl)
        noop == <<q.n, q.t, q.v>> \in b.rdata /\ old # NoRow /\ old.ttl = ttl
    IN IF noop THEN b
       ELSE [Touch(c, q.n, q.t, ttl) EXCEPT !.rdata = @ \cup {<<q.n, q.t, q.v>>}]

\* DELETE FROM user_dns_rrsets, and the name with its last RRset.
DropRrset(b, n, t) ==
    LET c == Changed([b EXCEPT !.rrsets[n][t] = NoRow,
                               !.rdata = {x \in @ : x[1] # n \/ x[2] # t}], n)
    IN IF HasRrset(c, n) THEN c ELSE DropName(c, n)

RemoveValue(b, q) ==
    LET c == [b EXCEPT !.rdata = @ \ {<<q.n, q.t, q.v>>}]
        left == RrsetOf(c, q.n, q.t).values
    IN IF c.rdata = b.rdata THEN b
       ELSE IF left = {} THEN DropRrset(c, q.n, q.t)
       ELSE Touch(c, q.n, q.t, c.rrsets[q.n][q.t].ttl)

DeleteRrset(b, q) ==
    IF b.rrsets[q.n][q.t] = NoRow THEN b ELSE DropRrset(b, q.n, q.t)

\* A binding takes the domain from the user who had it, and the names in it
\* from whoever holds them.
ActivateBinding(b, u, d) ==
    LET c == FoldSet(LAMBDA w, acc : DeleteNames(acc, w, Covers[d]), b, Users \ {u})
        was == b.bound[d]
    IN [c EXCEPT !.bound[d] = u,
                 !.domain = [w \in Users |->
                     IF w = u THEN d
                     ELSE IF w = was /\ @[w] = d THEN NoDomain ELSE @[w]]]

UnbindDomain(b, u, d) ==
    DeleteNames([b EXCEPT !.bound[d] = IF @ = u THEN NoUser ELSE @,
                          !.domain[u] = IF @ = d THEN NoDomain ELSE @],
                u, Covers[d])

\* Mutant: the state of the user is not looked at again.
RefusedMutant(b, q) ==
    CASE q.op \in {"add", "remove", "delete"} -> b.owner[q.n] \notin {NoUser, q.u}
      [] q.op = "bind"   -> q.u \notin b.active
      [] OTHER           -> FALSE

\* The transaction refuses the request.
Refused(b, q) ==
    CASE q.op = "add"  -> q.u \notin b.active \/ b.owner[q.n] \notin {NoUser, q.u}
      [] q.op \in {"remove", "delete"} -> b.owner[q.n] \notin {NoUser, q.u}
      [] q.op = "bind" -> q.u \notin b.active
      [] OTHER         -> FALSE

Transaction(b, q) ==
    CASE q.op = "add"    -> PutValue(b, q)
      [] q.op = "remove" -> IF b.owner[q.n] = NoUser THEN b ELSE RemoveValue(b, q)
      [] q.op = "delete" -> IF b.owner[q.n] = NoUser THEN b ELSE DeleteRrset(b, q)
      [] q.op = "bind"   -> ActivateBinding(b, q.u, q.d)
      [] q.op = "unbind" -> UnbindDomain(b, q.u, q.d)

\* What the handler looks at before the transaction: ensure_user_dns_domain for a
\* record; for a binding the state of the user, and then the proof in the external
\* DNS, without which the request is not one of those that come.
Permitted(b, q) ==
    \/ q.op = "bind" /\ q.u \in b.active
    \/ q.op = "unbind"
    \/ b.domain[q.u] # NoDomain /\ q.n \in Covers[b.domain[q.u]]
    \/ q.n \in Bridge[q.u]

\* The active binding that a name belongs to: the longest one, which covers
\* the fewest names.
BindingsOf(b, n) == {d \in Domains : n \in Covers[d] /\ b.bound[d] \in b.active}
Longest(b, n) == CHOOSE d \in BindingsOf(b, n) :
                     \A e \in BindingsOf(b, n) : Cardinality(Covers[d]) <= Cardinality(Covers[e])

InBridges(n) == \E u \in Users : n \in Bridge[u]
Managed(b, n) == InBridges(n) \/ BindingsOf(b, n) # {}

\* A name without records: a hidden one does not exist; any other exists in a bound
\* domain, and in a bridge while its user has a BNS name or is active.
ExistsBare(b, n) ==
    /\ n \notin Hidden
    /\ InBridges(n) => \E u \in Users : n \in Bridge[u] /\ u \in OnChain \cup b.active
-----------------------------------------------------------------------------
NoEntry == [kind |-> "none", ttl |-> 0, values |-> {}]
Answer(kind, rr) == [kind |-> kind, ttl |-> rr.ttl, values |-> rr.values]
NoPage == [cur |-> 0, min |-> 0, rows |-> {}]
NoReq == [op |-> "none", u |-> NoUser, n |-> NoName, t |-> NoType, v |-> NoValue,
          ttl |-> 0, d |-> NoDomain]
Idle == [pc |-> "idle", req |-> NoReq, page |-> NoPage, rev |-> 0, seen |-> NoEntry,
         left |-> Types]

EmptyCache == [n \in Names |-> [t \in Types |-> NoEntry]]

Queries == {"auth", "info"}
Writes == {"add", "remove", "delete"}

Goto(k, pc) == task' = [task EXCEPT ![k].pc = pc]
Finish(k) == task' = [task EXCEPT ![k] = Idle]
At(k, pc) == task[k].pc = pc
Req(k) == task[k].req
Home(k) == world.home[k]

\* The query has read something of the database that it is about to cache.
Holding(k) ==
    \/ At(k, "insert")
    \/ Req(k).op = "auth" /\ (At(k, "read") \/ (At(k, "exists") /\ task[k].left # Types))

\* Queries of a replica that are overtaken when it drops entries of some names.
Overtaken(r, op, names) ==
    {k \in Tasks : Home(k) = r /\ Req(k).op = op /\ Req(k).n \in names /\ Holding(k)}

\* An entry, and those of a set that are still in their caches.
Entry(k) == <<Req(k).op, Home(k), Req(k).n, Req(k).t>>
Present(entries) ==
    {e \in entries : (IF e[1] = "info" THEN infos' ELSE answers')[e[2]][e[3]][e[4]] # NoEntry}

\* The same drop, for the history: it overtakes some queries.
Drop(overtaken) ==
    race' = [race EXCEPT !.queries = @ \cup overtaken, !.entries = Present(@)]

\* A write of a name that nobody holds, by a user who may no longer write it.
Claims(q) == q.op = "add" /\ db.owner[q.n] = NoUser /\ ~Permitted(db, q)

\* Names that are held on such a claim.
ClaimedLate(names) ==
    race' = [race EXCEPT !.names = {n \in @ \cup names : db'.owner[n] # NoUser}]

Begin(k) ==
    /\ At(k, "idle")
    /\ \E q \in world.asks[k] :
         /\ q.op \in Queries \/ db.revision < world.revision
         /\ task' = [task EXCEPT ![k] = [Idle EXCEPT !.req = q, !.pc =
                       CASE q.op \in Queries -> "sync"
                         [] OTHER            -> "check"]]
    /\ UNCHANGED <<world, db, replica, faults>>

\* The handler looks the user up, and compares the name with its domain.
Check(k) ==
    /\ At(k, "check")
    /\ IF Permitted(db, Req(k)) THEN Goto(k, "commit") ELSE Finish(k)
    /\ UNCHANGED <<world, db, replica, faults>>

Commit(k) ==
    /\ At(k, "commit")
    /\ IF Refused(db, Req(k))
       THEN Finish(k) /\ UNCHANGED <<db, race>>
       ELSE /\ db' = Transaction(db, Req(k))
            /\ ClaimedLate(IF Claims(Req(k)) THEN {Req(k).n} ELSE {})
            /\ task' = [task EXCEPT ![k].pc = "forget", ![k].rev = db'.revision]
    /\ UNCHANGED <<world, cursor, due, failed, syncing, answers, infos, infoRev, faults>>

\* A record that was written is forgotten here before the others hear of it;
\* a binding clears the resolver's cache and is done.
Forget(k) ==
    LET r == Home(k) q == Req(k) IN
    /\ At(k, "forget")
    /\ IF q.op \in Writes
       THEN /\ answers' = [answers EXCEPT ![r][q.n] = [t \in Types |-> NoEntry]]
            /\ infos' = [infos EXCEPT ![r][q.n][q.t] = NoEntry]
            /\ Drop(Overtaken(r, "auth", {q.n})
                    \cup {j \in Overtaken(r, "info", {q.n}) : Req(j).t = q.t})
            /\ Goto(k, "sync")
       ELSE /\ answers' = [answers EXCEPT ![r] = EmptyCache]
            /\ Finish(k) /\ UNCHANGED infos
            /\ Drop(Overtaken(r, "auth", Names))
    /\ UNCHANGED <<world, db, cursor, due, failed, syncing, infoRev, faults>>

\* The write answers whether or not its synchronisation succeeded.
Reply(k) == At(k, "reply") /\ Finish(k) /\ UNCHANGED <<world, db, replica, faults>>
-----------------------------------------------------------------------------
(* Reading the change feed. *)

Forced(k) == Req(k).op \in Writes

\* What follows a synchronisation that returned with the given success.
After(k, ok) ==
    CASE Forced(k)             -> [task[k] EXCEPT !.pc = "reply", !.page = NoPage]
      [] ~Forced(k) /\ ok      -> [task[k] EXCEPT !.pc = IF Req(k).op = "info" THEN "swap" ELSE "look",
                                                  !.page = NoPage, !.rev = cursor'[Home(k)]]
      [] ~Forced(k) /\ ~ok     -> Idle

\* It is not time yet: the outcome of the last attempt is returned.  A write
\* does not wait for the time, unless the last attempt failed.
SkipSync(k) ==
    LET r == Home(k) IN
    /\ At(k, "sync") /\ syncing[r] = NoTask
    /\ ~due[r] /\ (~Forced(k) \/ failed[r])
    /\ UNCHANGED replica
    /\ task' = [task EXCEPT ![k] = After(k, ~failed[r])]
    /\ UNCHANGED <<world, db, faults>>

\* The attempt counts as failed until it has succeeded, so that those who
\* wait do not take a cancelled one for a success.
StartSync(k) ==
    LET r == Home(k) IN
    /\ At(k, "sync") /\ syncing[r] = NoTask
    /\ due[r] \/ (Forced(k) /\ ~failed[r])
    /\ syncing' = [syncing EXCEPT ![r] = k]
    /\ failed' = [failed EXCEPT ![r] = TRUE]
    /\ due' = [due EXCEPT ![r] = FALSE]
    /\ Goto(k, "current")
    /\ UNCHANGED <<world, db, cursor, answers, infos, infoRev, race, faults>>

\* list_user_dns_changes: three reads without a transaction.
ReadCurrent(k) ==
    /\ At(k, "current")
    /\ task' = [task EXCEPT ![k].pc = "earliest", ![k].page.cur = db.revision]
    /\ UNCHANGED <<world, db, replica, faults>>

ReadEarliest(k) ==
    /\ At(k, "earliest")
    /\ task' = [task EXCEPT ![k].pc = "rows", ![k].page.min =
                   IF db.feed = {} THEN task[k].page.cur + 1 ELSE Min({c.rev : c \in db.feed})]
    /\ UNCHANGED <<world, db, replica, faults>>

ReadRows(k) ==
    LET later == {c \in db.feed : c.rev > cursor[Home(k)]} IN
    /\ At(k, "rows")
    /\ task' = [task EXCEPT ![k].pc = "apply", ![k].page.rows =
                   {c \in later : Cardinality({e \in later : e.rev < c.rev}) < PageLimit}]
    /\ UNCHANGED <<world, db, replica, faults>>

\* Mutant: one missing change is not taken for a gap.
GapMutant(at, p) == at < p.cur /\ at + 2 < p.min

\* The feed no longer has the change after the cursor.
Gap(at, p) ==
    \/ at < p.cur /\ at + 1 < p.min
    \/ p.rows # {} /\ Min({c.rev : c \in p.rows}) > at + 1

\* Where the cursor is after a page: the revision of its last row, or the
\* current one when that is the end.
PageEnd(at, p) == IF p.rows = {} THEN at ELSE Max({c.rev : c \in p.rows})
LastPage(at, p) == Gap(at, p) \/ PageEnd(at, p) >= p.cur \/ p.rows = {}

Apply(k) ==
    LET r == Home(k) p == task[k].page at == cursor[r]
        gone == IF Gap(at, p) THEN Names ELSE {c.name : c \in p.rows}
    IN /\ At(k, "apply")
       /\ answers' = [answers EXCEPT ![r] = [n \in Names |->
                         IF n \in gone THEN [t \in Types |-> NoEntry] ELSE @[n]]]
       /\ cursor' = [cursor EXCEPT ![r] = IF LastPage(at, p) THEN p.cur ELSE PageEnd(at, p)]
       /\ IF LastPage(at, p)
          THEN /\ syncing' = [syncing EXCEPT ![r] = NoTask]
               /\ failed' = [failed EXCEPT ![r] = FALSE]
               /\ task' = [task EXCEPT ![k] = After(k, TRUE)]
          ELSE /\ task' = [task EXCEPT ![k].pc = "current", ![k].page = NoPage]
               /\ UNCHANGED <<syncing, failed>>
       /\ UNCHANGED <<world, db, due, infos, infoRev, faults>>
       /\ Drop(Overtaken(r, "auth", gone))

Reading == {"current", "earliest", "rows"}

\* A read of the feed fails or the whole attempt times out.
SyncFails(k) ==
    LET r == Home(k) IN
    /\ task[k].pc \in Reading /\ faults < world.faults
    /\ syncing' = [syncing EXCEPT ![r] = NoTask]
    /\ UNCHANGED <<world, db, cursor, due, failed, answers, infos, infoRev, race>>
    /\ task' = [task EXCEPT ![k] = After(k, FALSE)]
    /\ faults' = faults + 1

ReachDue(r) ==
    /\ ~due[r]
    /\ due' = [due EXCEPT ![r] = TRUE]
    /\ UNCHANGED <<world, db, cursor, failed, syncing, answers, infos, infoRev, task, race, faults>>
-----------------------------------------------------------------------------
(* Queries. *)

\* Mutant: the new revision is noted and the cache is kept.
SwapMutant(k) ==
    /\ At(k, "swap")
    /\ infoRev' = [infoRev EXCEPT ![Home(k)] = task[k].rev]
    /\ Goto(k, "look")
    /\ UNCHANGED <<world, db, cursor, due, failed, syncing, answers, infos, race, faults>>

\* The server's cache belongs to a revision; with another one it is emptied.
Swap(k) ==
    LET r == Home(k) IN
    /\ At(k, "swap")
    /\ infoRev' = [infoRev EXCEPT ![r] = task[k].rev]
    /\ Goto(k, IF infoRev[r] # task[k].rev THEN "wipe" ELSE "look")
    /\ UNCHANGED <<world, db, cursor, due, failed, syncing, answers, infos, race, faults>>

Wipe(k) ==
    /\ At(k, "wipe")
    /\ infos' = [infos EXCEPT ![Home(k)] = EmptyCache]
    /\ Goto(k, "look")
    /\ UNCHANGED <<world, db, cursor, due, failed, syncing, answers, infoRev, faults>>
    /\ Drop(Overtaken(Home(k), "info", Names))

CacheOf(k) == IF Req(k).op = "info" THEN infos ELSE answers

\* A hit answers; a miss goes to the database.
Look(k) ==
    LET q == Req(k) IN
    /\ At(k, "look")
    /\ IF q.n \notin Control /\ CacheOf(k)[Home(k)][q.n][q.t] # NoEntry
       THEN Finish(k)
       ELSE Goto(k, IF q.op = "info" THEN "read" ELSE "zone")
    /\ UNCHANGED <<world, db, replica, faults>>

\* An answer needs a zone; one that is not managed is not cached.
FindZone(k) ==
    /\ At(k, "zone")
    /\ IF Managed(db, Req(k).n) THEN Goto(k, "exists") ELSE Finish(k)
    /\ UNCHANGED <<world, db, replica, faults>>

\* The types are read one after the other, up to the first that has an RRset.
NameExists(k) ==
    LET n == Req(k).n
        t == CHOOSE t \in task[k].left : TRUE
        found == db.rrsets[n][t] # NoRow \/ (task[k].left = {t} /\ ExistsBare(db, n))
    IN /\ At(k, "exists")
       /\ task' = CASE found -> [task EXCEPT ![k].pc = "read", ![k].left = Types]
                    [] ~found /\ task[k].left # {t} -> [task EXCEPT ![k].left = @ \ {t}]
                    [] OTHER -> [task EXCEPT ![k].pc = "insert", ![k].left = Types,
                                             ![k].seen = [NoEntry EXCEPT !.kind = "nxdomain"]]
       /\ UNCHANGED <<world, db, replica, faults>>

KindOf(b, n, t) == IF b.rrsets[n][t] = NoRow THEN "nodata" ELSE "answer"

Read(k) ==
    LET q == Req(k) IN
    /\ At(k, "read")
    /\ task' = [task EXCEPT ![k].pc = "insert",
                            ![k].seen = Answer(KindOf(db, q.n, q.t), RrsetOf(db, q.n, q.t))]
    /\ UNCHANGED <<world, db, replica, faults>>

Insert(k) ==
    LET r == Home(k) q == Req(k) IN
    /\ At(k, "insert")
    /\ answers' = IF q.op = "auth" /\ q.n \notin Control
                  THEN [answers EXCEPT ![r][q.n][q.t] = task[k].seen] ELSE answers
    /\ infos' = IF q.op = "info" /\ q.n \notin Control
                THEN [infos EXCEPT ![r][q.n][q.t] = task[k].seen] ELSE infos
    /\ race' = [race EXCEPT !.queries = @ \ {k},
                            !.entries = Present(IF k \in race.queries THEN @ \cup {Entry(k)}
                                                ELSE @ \ {Entry(k)})]
    /\ Finish(k)
    /\ UNCHANGED <<world, db, cursor, due, failed, syncing, infoRev, faults>>

\* Time to live; both caches forget an entry when it is asked for again.
Expire(r, n, t) ==
    /\ \/ /\ answers[r][n][t] # NoEntry
          /\ answers' = [answers EXCEPT ![r][n][t] = NoEntry] /\ UNCHANGED infos
       \/ /\ infos[r][n][t] # NoEntry
          /\ infos' = [infos EXCEPT ![r][n][t] = NoEntry] /\ UNCHANGED answers
    /\ Drop({})
    /\ UNCHANGED <<world, db, cursor, due, failed, syncing, infoRev, task, faults>>

\* The client of a request goes away; its future is dropped at an await.  The
\* database may have committed by then.
Awaits == {"sync", "check", "commit", "forget", "zone", "exists", "read"} \cup Reading

Cancel(k) ==
    LET r == Home(k) IN
    /\ task[k].pc \in Awaits /\ faults < world.faults
    /\ syncing' = [syncing EXCEPT ![r] = IF @ = k THEN NoTask ELSE @]
    /\ Finish(k)
    /\ race' = [race EXCEPT !.queries = @ \ {k}]
    /\ faults' = faults + 1
    /\ UNCHANGED <<world, db, cursor, due, failed, answers, infos, infoRev>>

\* Other services change the database directly.
SetTtl(u, n, t, ttl) ==
    /\ "ttl" \in world.direct
    /\ db.owner[n] = u /\ db.rrsets[n][t] # NoRow /\ db.rrsets[n][t].ttl # ttl
    /\ db.revision < world.revision
    /\ db' = Touch(db, n, t, ttl)
    /\ UNCHANGED <<world, replica, task, faults>>

SetUserState(u) ==
    /\ "state" \in world.direct /\ db.revision < world.revision
    /\ db' = IF u \in db.active
             THEN DeleteNames([db EXCEPT !.active = @ \ {u}], u, Names)
             ELSE [db EXCEPT !.active = @ \cup {u}]
    /\ ClaimedLate({})
    /\ UNCHANGED <<world, cursor, due, failed, syncing, answers, infos, infoRev, task, faults>>
-----------------------------------------------------------------------------
Init ==
    /\ world \in Worlds
    /\ db = [owner |-> [n \in Names |-> NoUser],
             rrsets |-> [n \in Names |-> [t \in Types |-> NoRow]],
             rdata |-> {}, revision |-> 0, feed |-> {},
             domain |-> [u \in Users |-> NoDomain], bound |-> [d \in Domains |-> NoUser],
             active |-> Users]
    /\ cursor = [r \in Replicas |-> 0]
    /\ due = [r \in Replicas |-> TRUE]
    /\ failed = [r \in Replicas |-> FALSE]
    /\ syncing = [r \in Replicas |-> NoTask]
    /\ answers = [r \in Replicas |-> EmptyCache]
    /\ infos = [r \in Replicas |-> EmptyCache]
    /\ infoRev = [r \in Replicas |-> 0]
    /\ task = [k \in Tasks |-> Idle]
    /\ race = [queries |-> {}, entries |-> {}, names |-> {}]
    /\ faults = 0

SyncStep(k) ==
    StartSync(k) \/ SkipSync(k) \/ ReadCurrent(k) \/ ReadEarliest(k) \/ ReadRows(k) \/ Apply(k)

QueryStep(k) ==
    Swap(k) \/ Wipe(k) \/ Look(k) \/ FindZone(k) \/ NameExists(k) \/ Read(k) \/ Insert(k)

WriteStep(k) == Check(k) \/ Commit(k) \/ Forget(k) \/ Reply(k)

Next ==
    \/ \E k \in Tasks : Begin(k) \/ SyncStep(k) \/ QueryStep(k) \/ WriteStep(k)
                        \/ SyncFails(k) \/ Cancel(k)
    \/ \E r \in Replicas : ReachDue(r)
    \/ \E r \in Replicas, n \in Names, t \in Types : Expire(r, n, t)
    \/ \E u \in Users, n \in Names, t \in Types, ttl \in Ttls : SetTtl(u, n, t, ttl)
    \/ \E u \in Users : SetUserState(u)

Spec == Init /\ [][Next]_vars

\* Tasks run, time passes, and queries of both kinds keep coming.  Writes and
\* faults are bounded; a task that was not cancelled goes on.
FairSpec ==
    /\ Spec
    /\ \A k \in Tasks : WF_vars(SyncStep(k) \/ QueryStep(k) \/ WriteStep(k))
    /\ \A r \in Replicas : WF_vars(ReachDue(r))
    /\ \A k \in Tasks : SF_vars(Begin(k) /\ task'[k].req.op = "auth")
    /\ \A k \in Tasks : SF_vars(Begin(k) /\ task'[k].req.op = "info")
-----------------------------------------------------------------------------
Row == [ttl : Ttls \cup {0}, rev : 0..db.revision]

\* Every variable has its type, and the synchronisation lock of a replica is with
\* the task that is reading the feed.
TypeOK ==
    /\ world \in Worlds
    /\ db.owner \in [Names -> Users \cup {NoUser}]
    /\ db.rrsets \in [Names -> [Types -> Row]]
    /\ db.rdata \subseteq Names \X Types \X Values
    /\ db.revision \in Nat
    /\ db.feed \subseteq [rev : 1..db.revision, name : Names]
    /\ db.domain \in [Users -> Domains \cup {NoDomain}]
    /\ db.bound \in [Domains -> Users \cup {NoUser}]
    /\ db.active \subseteq Users
    /\ \A r \in Replicas : cursor[r] <= db.revision /\ infoRev[r] <= db.revision
    /\ \A r \in Replicas, k \in Tasks :
         syncing[r] = k <=> Home(k) = r /\ task[k].pc \in Reading \cup {"apply"}
    /\ race.queries \subseteq Tasks /\ race.names \subseteq Names
    /\ race.entries \subseteq Queries \X Replicas \X Names \X Types
    /\ faults \in 0..world.faults

\* The three tables agree: a name is held exactly while it has an RRset, and
\* an RRset is there exactly while it has a value, over every order of writes
\* and deletions, with the revision of a change of the name.
RowsAgree ==
    /\ \A n \in Names : db.owner[n] # NoUser <=> HasRrset(db, n)
    /\ \A n \in Names, t \in Types :
         /\ db.rrsets[n][t] # NoRow <=> RrsetOf(db, n, t).values # {}
         /\ \A c \in db.feed : c.rev = db.rrsets[n][t].rev => c.name = n

\* Whatever changes the records of a name appends a change of that name, and
\* the feed keeps the last changes without a hole.
FeedComplete ==
    [][/\ \A n \in Names :
            (\E t \in Types : RrsetOf(db', n, t) # RrsetOf(db, n, t)) \/ db'.owner[n] # db.owner[n]
            => \/ \E c \in db'.feed : c.name = n /\ c.rev > db.revision
               \/ db'.revision >= db.revision + Retention
       /\ {c.rev : c \in db'.feed} =
            {i \in 1..db'.revision : i > db'.revision - Retention}]_db

\* A change of the name that the replica has yet to read from the feed, or a
\* gap that makes it drop everything.
Pending(from, n) ==
    \/ \E c \in db.feed : c.name = n /\ c.rev > from
    \/ db.feed # {} /\ Min({c.rev : c \in db.feed}) > from + 1

Current(n, t) ==
    IF ~HasRrset(db, n) /\ ~ExistsBare(db, n) THEN [NoEntry EXCEPT !.kind = "nxdomain"]
    ELSE Answer(KindOf(db, n, t), RrsetOf(db, n, t))

\* An entry that the database does not have.
StaleAnswer(r, n, t) == answers[r][n][t] \notin {NoEntry, Current(n, t)}
StaleInfo(r, n, t) ==
    infos[r][n][t] \notin {NoEntry, Answer(KindOf(db, n, t), RrsetOf(db, n, t))}

\* The entry was put there by a query that its own replica overtook: between what
\* the query read and the insertion, the replica dropped the name.
InsertedLate(op, r, n, t) == <<op, r, n, t>> \in race.entries

\* An answer that the resolver has cached is that of the database, or the
\* feed still has the change that will remove it: no change is skipped, over
\* pages, retention gaps, a cursor that goes back, failures and the three
\* reads of a page.  The one exception is a query that was overtaken between its
\* read and its insertion by another request of the replica.
CacheCovered ==
    \A r \in Replicas, n \in Names, t \in Types :
        StaleAnswer(r, n, t) => Pending(cursor[r], n) \/ InsertedLate("auth", r, n, t)

\* The same for the cache of the server, which is emptied when the revision
\* that it belongs to is not that of the resolver.
InfoCovered ==
    \A r \in Replicas, n \in Names, t \in Types :
        StaleInfo(r, n, t) => \/ Pending(infoRev[r], n)
                              \/ \E k \in Tasks : Home(k) = r /\ At(k, "wipe")
                              \/ InsertedLate("info", r, n, t)

\* When a write is answered, the replica that answers it no longer has an
\* older value of the record, even if its synchronisation failed, unless a query
\* that had read the older value was overtaken by this very write.
WriterSees ==
    \A k \in Tasks : At(k, "reply") =>
        LET q == Req(k) r == Home(k) IN
        /\ StaleAnswer(r, q.n, q.t) => \/ Pending(task[k].rev, q.n)
                                       \/ InsertedLate("auth", r, q.n, q.t)
        /\ StaleInfo(r, q.n, q.t) => \/ Pending(task[k].rev, q.n)
                                     \/ InsertedLate("info", r, q.n, q.t)

\* A user who was deleted holds no name, also when the deletion falls between
\* the check of a write and its transaction.
DeletedOwnsNothing == \A n \in Names : db.owner[n] \in db.active \cup {NoUser}

\* A name is held by a user whose bridge or active binding has it, over every
\* binding, takeover, unbinding and deletion, unless the user lost the domain
\* between the check of the write and the transaction that claimed the name.
NamesAuthorised ==
    \A n \in Names \ race.names : LET u == db.owner[n] IN
        \/ u = NoUser
        \/ n \in Bridge[u]
        \/ \E d \in Domains : db.bound[d] = u /\ n \in Covers[d]

\* The database over every order of writes, bindings and deletions.
RecordsSound == TypeOK /\ RowsAgree /\ DeletedOwnsNothing /\ NamesAuthorised

\* The caches of every replica, against the database and the feed.
CachesCovered == CacheCovered /\ InfoCovered /\ WriterSees

\* In a domain with a binding of its own, only its user has records: the
\* binding of a parent covers the names that are not bound on their own.
ChildZoneOwned ==
    \A n \in Names : BindingsOf(db, n) # {} =>
        db.owner[n] \in {NoUser, db.bound[Longest(db, n)]}

\* Once a domain is unbound, no replica has answers of it that the feed will
\* not remove.
UnboundForgotten ==
    \A r \in Replicas, n \in Names, t \in Types :
        answers[r][n][t] # NoEntry /\ ~Managed(db, n) => Pending(cursor[r], n)

\* Every replica comes to agree with the database, in both caches, as long as
\* its names are asked for, except in what overtaken queries put there, which
\* stays for its time to live.
EventuallyFresh ==
    []<>(\A r \in Replicas, n \in Names, t \in Types :
             /\ StaleAnswer(r, n, t) => InsertedLate("auth", r, n, t)
             /\ StaleInfo(r, n, t) => InsertedLate("info", r, n, t))

\* What the documents ask for and the code does not keep: a cached answer is never
\* older than the feed of its replica, a write that was answered is visible at once,
\* and nobody holds a name outside the domains he has.
NeverStale ==
    \A r \in Replicas, n \in Names, t \in Types : StaleAnswer(r, n, t) => Pending(cursor[r], n)

VisibleAtOnce ==
    \A k \in Tasks : At(k, "reply") =>
        \/ ~StaleInfo(Home(k), Req(k).n, Req(k).t)
        \/ Pending(task[k].rev, Req(k).n)

ClaimsAuthorised ==
    \A n \in Names : LET u == db.owner[n] IN
        u = NoUser \/ n \in Bridge[u] \/ \E d \in Domains : db.bound[d] = u /\ n \in Covers[d]
=============================================================================

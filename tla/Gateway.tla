------------------------------ MODULE Gateway ------------------------------
(***************************************************************************)
(* One node: the DNS proxy that answers queries with Fake-IPs, the pool    *)
(* that leases them, the kernel map that routes them, the mappings that    *)
(* peers send, and the engine that crashes, starts again and recovers its  *)
(* pool from the kernel.                                                   *)
(*                                                                         *)
(* A pool operation on one address is one step (module IPPool is about     *)
(* what happens inside).  A write to the kernel is started in one step and *)
(* takes effect in a later one, in any order, or never: the callers of     *)
(* NFTClient.AddMapping time out and go on (module NFTClient).             *)
(***************************************************************************)
EXTENDS PoolOps, KernelMap, FiniteSets

CONSTANTS
  Handlers,      \* goroutines that run handleDNSRequest
  Reals, Hash,   \* real addresses and fnv1aBytes of each
  Pool4, Pool6,
  Workloads,     \* what may happen to the node: the sets of real addresses
                 \* upstream answers may hold, the mappings peers may send,
                 \* whether writes to the kernel may fail, and bounds on the
                 \* handlers at work, on clock and on the crashes
  TTL, Grace,
  MaxTTL,        \* MAX_FAKE_IP_TTL, how long clients keep an answer
  AddRefreshes,  \* external: adding an element that is there renews its timeout
  MaxVersion     \* bound on hlc at the start of a query

ASSUME GatewayAssumption ==
  /\ Reals \subseteq IPKey
  /\ Hash \in [Reals -> Nat]
  /\ \A w \in Workloads :
        /\ w.upstream \subseteq SUBSET Reals
        /\ w.writesFail \in BOOLEAN
        /\ {w.handlers, w.maxClock, w.maxCrashes} \subseteq Nat
  /\ AddRefreshes \in BOOLEAN
  /\ {TTL, Grace, MaxTTL, MaxVersion} \subseteq Nat

VARIABLES
  load,      \* the workload, chosen once
  engine,    \* "up", "down", or "recover" while it reads the kernel
  pool, hlc,
  clock,     \* also the wall clock that feeds hlc
  kernel,    \* fake -> [fake, real, expires]
  query,     \* per handler: where it stands, its addresses and its mappings
  writing,   \* writes to the kernel that are under way, [fake, real]
  found,     \* what recovery still has to install
  failed,    \* some write did not take effect
  crashes

proxy == <<query, writing>>
vars == <<load, engine, pool, hlc, clock, kernel, query, writing, found, failed, crashes>>

GeometryOf(k) == IF k.isIPv6 THEN Pool6 ELSE Pool4

NoQuery == [pc |-> "idle", todo |-> {}, map |-> EmptyMap, fresh |-> EmptyMap,
            now |-> 0, at |-> 0]

-----------------------------------------------------------------------------
(* handleDNSRequest *)

\* resolveUpstream has answered with the addresses in `reals'.
Resolve(h, reals) ==
  /\ engine = "up"
  /\ query[h].pc \notin {"alloc", "undo"}
  /\ Cardinality({h} \cup {g \in Handlers : query[g].pc # "idle"}) <= load.handlers
  /\ hlc < MaxVersion
  /\ query' = [query EXCEPT ![h] = [NoQuery EXCEPT !.pc = "alloc", !.todo = reals,
                                                         !.now = clock]]
  /\ UNCHANGED <<load, engine, pool, hlc, clock, kernel, writing, found, failed, crashes>>

\* The addresses are taken in order, one call for IPv4 and then one for IPv6.
IsFirst(r, S) ==
  /\ r \in S
  /\ r.isIPv6 => \A q \in S : q.isIPv6
  /\ \A q \in S : q.isIPv6 = r.isIPv6 => KeyLeq(r, q)

\* The time the call has read at its start.
Now(h, r) ==
  IF r.isIPv6 /\ \A q \in DOMAIN query[h].map : ~q.isIPv6 THEN clock ELSE query[h].now

Live(h, r) == r \in DOMAIN pool.realToFake /\ Now(h, r) < pool.expiries[r]

\* GetFakeIPsForReals for one address that has a lease: it is renewed within
\* the renewal window.
Renew(h, r) ==
  /\ query[h].pc = "alloc"
  /\ IsFirst(r, query[h].todo)
  /\ Live(h, r)
  /\ pool' = IF Now(h, r) + Grace > pool.expiries[r]
             THEN [pool EXCEPT !.expiries = Put(@, r, Now(h, r) + TTL)] ELSE pool
  /\ query' = [query EXCEPT ![h].todo = @ \ {r}, ![h].now = Now(h, r),
                            ![h].map = Put(@, r, pool.realToFake[r])]
  /\ UNCHANGED <<load, engine, hlc, clock, kernel, writing, found, failed, crashes>>

\* The pool after the expired mapping of r is deleted, and its free addresses.
WithoutExpired(r) == Drop(pool, {r}, Lookup(pool.realToFake, r))
Free(r) == FinalFake(GeometryOf(r), Hash[r], Leased(WithoutExpired(r)))

\* ... for one that has none.
Allocate(h, r) ==
  /\ query[h].pc = "alloc"
  /\ IsFirst(r, query[h].todo)
  /\ ~Live(h, r)
  /\ \E f \in Free(r) :
        LET v == GetNextVersion(hlc, clock)
        IN  /\ pool' = Install(WithoutExpired(r), r, f, v, Now(h, r) + TTL)
            /\ hlc' = v
            /\ query' = [query EXCEPT
                 ![h].todo = @ \ {r}, ![h].now = Now(h, r),
                 ![h].map = Put(@, r, f),
                 ![h].fresh = Put(@, r, [fake |-> f, version |-> v])]
  /\ UNCHANGED <<load, engine, clock, kernel, writing, found, failed, crashes>>

\* Mutant of Exhausted: the mappings of the other family stay.
ExhaustedKeepsV4(h, r) ==
  /\ query[h].pc = "alloc"
  /\ IsFirst(r, query[h].todo)
  /\ ~Live(h, r)
  /\ Free(r) = {}
  /\ pool' = WithoutExpired(r)
  /\ LET undo == {q \in DOMAIN query[h].fresh : q.isIPv6 = r.isIPv6}
     IN  query' = [query EXCEPT ![h].todo = undo,
                                ![h].pc = IF undo = {} THEN "failed" ELSE "undo"]
  /\ UNCHANGED <<load, engine, hlc, clock, kernel, writing, found, failed, crashes>>

\* The pool has no address for r: the query fails.  The call that failed
\* rolls back its own mappings, and after an IPv6 failure the handler those
\* of the IPv4 call.
Exhausted(h, r) ==
  /\ query[h].pc = "alloc"
  /\ IsFirst(r, query[h].todo)
  /\ ~Live(h, r)
  /\ Free(r) = {}
  /\ pool' = WithoutExpired(r)
  /\ LET undo == DOMAIN query[h].fresh
     IN  query' = [query EXCEPT ![h].todo = undo,
                                ![h].pc = IF undo = {} THEN "failed" ELSE "undo"]
  /\ UNCHANGED <<load, engine, hlc, clock, kernel, writing, found, failed, crashes>>

\* One RemoveMapping of a rollback, IPv6 before IPv4.
Undo(h, r) ==
  /\ query[h].pc = "undo"
  /\ r \in query[h].todo
  /\ ~r.isIPv6 => \A q \in query[h].todo : ~q.isIPv6
  /\ pool' = RemoveMapping(pool, r, query[h].fresh[r].fake)
  /\ query' = [query EXCEPT ![h].todo = @ \ {r},
                            ![h].pc = IF query[h].todo = {r} THEN "failed" ELSE @]
  /\ UNCHANGED <<load, engine, hlc, clock, kernel, writing, found, failed, crashes>>

\* Mutant of Respond: only new mappings are written to the kernel.
RespondWritesFresh(h) ==
  /\ query[h].pc = "alloc"
  /\ query[h].todo = {}
  /\ query' = [query EXCEPT ![h].pc = "answered", ![h].at = clock]
  /\ writing' = writing \cup {[fake |-> query[h].map[r], real |-> r] :
                                r \in DOMAIN query[h].fresh}
  /\ UNCHANGED <<load, engine, pool, hlc, clock, kernel, found, failed, crashes>>

\* The client is answered, and a goroutine writes all its mappings to the
\* kernel (and broadcasts the new ones: module Replication).
Respond(h) ==
  /\ query[h].pc = "alloc"
  /\ query[h].todo = {}
  /\ query' = [query EXCEPT ![h].pc = "answered", ![h].at = clock]
  /\ writing' = writing \cup {[fake |-> query[h].map[r], real |-> r] :
                                r \in DOMAIN query[h].map}
  /\ UNCHANGED <<load, engine, pool, hlc, clock, kernel, found, failed, crashes>>

-----------------------------------------------------------------------------
(* Mappings from peers *)

SyncApply(m) ==
  /\ engine = "up"
  /\ InSubnet(GeometryOf(m.fake), m.fake)
  /\ GetVersion(pool, m.fake) <= m.version
  /\ hlc' = ObserveVersion(hlc, clock, m.version)
  /\ pool' = AddMapping(pool, m.real, m.fake, m.version, clock + TTL)
  /\ writing' = IF Refused(pool, m.real, m.fake, m.version) THEN writing
                ELSE writing \cup {[fake |-> m.fake, real |-> m.real]}
  /\ UNCHANGED <<load, engine, clock, kernel, query, found, failed, crashes>>

-----------------------------------------------------------------------------
(* The kernel *)

Timed(e) == [fake |-> e.fake, real |-> e.real, expires |-> clock + TTL]

\* The kernel commits a write, or refuses it and nobody is told: an element
\* with another real address is never replaced.
Applied(e) ==
  /\ e \in writing
  /\ writing' = writing \ {e}
  /\ kernel' = IF Conflict(kernel, {e}) THEN kernel
               ELSE IF AddRefreshes THEN Put(kernel, e.fake, Timed(e))
               ELSE Committed(kernel, {Timed(e)})
  /\ failed' = (failed \/ Conflict(kernel, {e}))
  /\ UNCHANGED <<load, engine, pool, hlc, clock, query, found, crashes>>

\* A full queue, a lost connection, or a batch with a conflict in it.
Lost(e) ==
  /\ e \in writing
  /\ load.writesFail
  /\ failed' = TRUE
  /\ writing' = writing \ {e}
  /\ UNCHANGED <<load, engine, pool, hlc, clock, kernel, query, found, crashes>>

\* A client uses a route: the rule "update @v4_map" renews its timeout.
Traffic(f) ==
  /\ f \in DOMAIN kernel
  /\ kernel' = [kernel EXCEPT ![f].expires = clock + TTL]
  /\ UNCHANGED <<load, engine, pool, hlc, clock, proxy, found, failed, crashes>>

-----------------------------------------------------------------------------
(* Time, pruning, crash and restart *)

\* Time passes, and the kernel drops the elements that time out.  Recovery is
\* short on this clock.
Tick ==
  /\ clock < load.maxClock
  /\ engine # "recover"
  /\ clock' = clock + 1
  /\ kernel' = Delete(kernel, {f \in DOMAIN kernel : kernel[f].expires <= clock + 1})
  /\ UNCHANGED <<load, engine, pool, hlc, proxy, found, failed, crashes>>

PruneExpired ==
  /\ engine = "up"
  /\ LET due == ScanExpired(pool, Reals, clock)
     IN  due # {} /\ pool' = RemoveExpired(pool, due, clock)
  /\ UNCHANGED <<load, engine, hlc, clock, kernel, proxy, found, failed, crashes>>

\* The process ends: its memory is gone, the kernel's map stays.
Crash ==
  /\ engine # "down"
  /\ crashes < load.maxCrashes
  /\ crashes' = crashes + 1
  /\ engine' = "down"
  /\ pool' = NewPool
  /\ hlc' = 0
  /\ query' = [h \in Handlers |-> NoQuery]
  /\ writing' = {} /\ found' = {}
  /\ UNCHANGED <<load, clock, kernel, failed>>

\* main reads the elements the kernel holds, with the time each has left.
ReadExistingMappings ==
  /\ engine = "down"
  /\ engine' = "recover"
  /\ found' = {[fake |-> f, real |-> kernel[f].real, left |-> kernel[f].expires - clock] :
                 f \in DOMAIN kernel}
  /\ UNCHANGED <<load, pool, hlc, clock, kernel, proxy, failed, crashes>>

\* Mutant of Recover: the two addresses of an element are swapped.
RecoverSwapped(e) ==
  /\ engine = "recover"
  /\ e \in found
  /\ pool' = AddMapping(pool, e.fake, e.real, 0, clock + e.left)
  /\ found' = found \ {e}
  /\ UNCHANGED <<load, engine, hlc, clock, kernel, proxy, failed, crashes>>

\* Each goes into the pool with version 0, in any order.
Recover(e) ==
  /\ engine = "recover"
  /\ e \in found
  /\ pool' = AddMapping(pool, e.real, e.fake, 0, clock + e.left)
  /\ found' = found \ {e}
  /\ UNCHANGED <<load, engine, hlc, clock, kernel, proxy, failed, crashes>>

\* The sync server and the proxy are started after that.
Serve ==
  /\ engine = "recover"
  /\ found = {}
  /\ engine' = "up"
  /\ UNCHANGED <<load, pool, hlc, clock, kernel, proxy, found, failed, crashes>>

-----------------------------------------------------------------------------

Init ==
  /\ load \in Workloads
  /\ engine = "down"
  /\ pool = NewPool
  /\ hlc = 0
  /\ clock = 0
  /\ kernel = EmptyMap
  /\ query = [h \in Handlers |-> NoQuery]
  /\ writing = {} /\ found = {}
  /\ failed = FALSE /\ crashes = 0

Next ==
  \/ \E h \in Handlers :
        \/ \E reals \in load.upstream : Resolve(h, reals)
        \/ \E r \in query[h].todo :
              Renew(h, r) \/ Allocate(h, r) \/ Exhausted(h, r) \/ Undo(h, r)
        \/ Respond(h)
  \/ \E m \in load.peers : SyncApply(m)
  \/ \E e \in writing : Applied(e) \/ Lost(e)
  \/ \E f \in DOMAIN kernel : Traffic(f)
  \/ Tick \/ PruneExpired
  \/ Crash \/ ReadExistingMappings \/ (\E e \in found : Recover(e)) \/ Serve

Spec == Init /\ [][Next]_vars

-----------------------------------------------------------------------------
(* Properties *)

Element == [fake : IPKey, real : IPKey]

\* The pool, the kernel and the queries have their types, and every address
\* a query has a mapping for is one of its own.
TypeOK ==
  /\ load \in Workloads
  /\ engine \in {"up", "down", "recover"}
  /\ IsPool(pool)
  /\ hlc \in Nat /\ clock \in 0 .. load.maxClock
  /\ IsMap(kernel, IPKey, [fake : IPKey, real : IPKey, expires : Nat])
  /\ \A h \in Handlers :
        /\ query[h].pc \in {"idle", "alloc", "undo", "answered", "failed"}
        /\ query[h].todo \subseteq Reals
        /\ IsMap(query[h].map, Reals, IPKey)
        /\ DOMAIN query[h].fresh \subseteq DOMAIN query[h].map
  /\ writing \subseteq Element

\* A query that failed leaves nothing behind, also when only its second half
\* failed: none of the mappings it allocated is in the pool (the rollback of
\* newV4 in handleDNSRequest), which knows all that the query allocated
\* (TypeOK).
FailedQueryLeavesNothing ==
  /\ TypeOK
  /\ \A h \in Handlers : query[h].pc = "failed" =>
        \A r \in DOMAIN query[h].fresh :
           LET n == query[h].fresh[r]
           IN  ~ (MapsTo(pool, r, n.fake) /\ pool.globalVersions[n.fake] = n.version)

\* As long as a client keeps an answer, its Fake-IP is routed to the real
\* address or a write that will do it is under way, provided no write has
\* failed: pool lease and kernel timeout, which run separately and are renewed
\* by different events, never let the route end first (handleDNSRequest
\* writes all mappings of an answer, not only the new ones).
AnswerIsRouted ==
  ~failed => \A h \in Handlers : \A r \in DOMAIN query[h].map :
     query[h].pc = "answered" /\ clock < query[h].at + MaxTTL =>
        LET f == query[h].map[r]
        IN  \/ [fake |-> f, real |-> r] \in writing
            \/ \E e \in Lookup(kernel, f) : e.real = r

\* Recovery loses no route and invents none: when the engine starts to serve,
\* every fake it has leased is routed to the same address, and every address
\* with a route has a fake, its old one if there is only one
\* (ReadExistingMappings and the loop over its result in main).
RecoveryFaithful ==
  [][engine = "recover" /\ engine' = "up" =>
       /\ Mirror(pool)
       /\ \A f \in Leased(pool) :
             f \in DOMAIN kernel /\ kernel[f].real = pool.globalFakeToReal[f]
       /\ \A f \in DOMAIN kernel :
             /\ kernel[f].real \in DOMAIN pool.realToFake
             /\ (\A g \in DOMAIN kernel \ {f} : kernel[g].real # kernel[f].real)
                  => MapsTo(pool, kernel[f].real, f)]_vars

=============================================================================

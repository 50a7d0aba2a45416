----------------------------- MODULE Replication -----------------------------
(***************************************************************************)
(* A cluster of nodes that exchange their mappings.  A node allocates for  *)
(* its own clients and broadcasts what is new over its registered          *)
(* connections; when a connection is registered it also sends everything   *)
(* it holds.  What arrives is merged by AddMapping and not sent on.        *)
(* Deletions are local: they are never sent.                               *)
(*                                                                         *)
(* Leases are local too: a mapping that arrives gets a full lease counted  *)
(* from its arrival, a renewal is not broadcast, and every node prunes by  *)
(* its own clock.                                                          *)
(*                                                                         *)
(* A query, a merge and a pruning pass are one step each here; module      *)
(* IPPool is about what happens inside them.                               *)
(***************************************************************************)
EXTENDS PoolOps, FiniteSets, Sequences

CONSTANTS
  Nodes,
  Reals,         \* real addresses
  Hashes,        \* what fnv1aBytes may give for them
  Geo,           \* the geometry all nodes share (the handshake compares it)
  Skews,         \* how far each node's wall clock may be ahead of true time
  MaxAllocs,     \* bound on the allocations in the cluster
  MaxDrops,      \* bound on the connections lost
  TTL,           \* MappingTTL
  Grace,         \* what is left of a lease when it is renewed
  MaxClock,      \* bound on the monotonic clock
  MaxEvents      \* bound on allocations, lost connections and ticks together

ASSUME ReplicationAssumption ==
  /\ Reals \subseteq IPKey
  /\ Hashes \subseteq [Reals -> Nat]
  /\ Geo.isIPv6 \in BOOLEAN /\ Geo.start \in Nat /\ Geo.size \in Nat \ {0}
  /\ Skews \subseteq [Nodes -> Nat]
  /\ {MaxAllocs, MaxDrops, TTL, Grace, MaxClock, MaxEvents} \subseteq Nat

VARIABLES
  hash,      \* fnv1aBytes of each real address
  skew,      \* per node: how far its wall clock is ahead of true time
  clock,     \* the monotonic clock, which all nodes' leases are measured with
  pools,     \* per node: its pool
  hlc,       \* per node
  outbox,    \* per node: mappings allocated and not yet broadcast
  conns,     \* per node: the peers it has a registered connection to
  snapshot,  \* per node: the peers it still has to send all mappings to
  chan,      \* per pair: the batches written and not yet applied
  seen,      \* per node: every mapping allocated by or offered to its pool
  own,       \* per node: the real addresses whose lease is the one allocated
             \* here, neither renewed nor merged over since
  mine,      \* per node: the mappings it allocated and has held ever since
  allocs, drops

vars == <<hash, skew, clock, own, mine, pools, hlc, outbox, conns, snapshot, chan, seen,
          allocs, drops>>

Pairs == {e \in Nodes \X Nodes : e[1] # e[2]}

\* The bound on the events of a behaviour leaves room for one more.
Room == allocs + drops + clock < MaxEvents

\* GetAllMappings
GetAllMappings(p) ==
  {[fake |-> f, real |-> p.globalFakeToReal[f], version |-> p.globalVersions[f]] :
     f \in Leased(p)}

\* The lease of real r ends after time t.
EndsAfter(p, r, t) == r \in DOMAIN p.expiries /\ t < p.expiries[r]

\* A query for real r that has no lease at node n, or one that has ended: what
\* is left of it goes and a fake is allocated.  True time advances with every
\* allocation.
Allocate(n, r) ==
  /\ allocs < MaxAllocs /\ Room
  /\ ~EndsAfter(pools[n], r, clock)
  /\ LET p == Drop(pools[n], {r}, Lookup(pools[n].realToFake, r))
         v == GetNextVersion(hlc[n], allocs + 1 + skew[n])
     IN  \E f \in FinalFake(Geo, hash[r], Leased(p)) :
           LET m == [fake |-> f, real |-> r, version |-> v]
           IN  /\ pools' = [pools EXCEPT ![n] = Install(p, r, f, v, clock + TTL)]
               /\ outbox' = [outbox EXCEPT ![n] = @ \cup {m}]
               /\ seen' = [seen EXCEPT ![n] = @ \cup {m}]
               /\ mine' = [mine EXCEPT ![n] = (@ \cap GetAllMappings(pools'[n])) \cup {m}]
  /\ hlc' = [hlc EXCEPT ![n] = GetNextVersion(@, allocs + 1 + skew[n])]
  /\ own' = [own EXCEPT ![n] = @ \cup {r}]
  /\ allocs' = allocs + 1
  /\ UNCHANGED <<hash, skew, clock, conns, snapshot, chan, drops>>

\* A query for real r whose lease at n has less than the grace period left:
\* the lease is extended, and nothing is broadcast.  A query that finds more
\* left changes nothing.
Renew(n, r) ==
  /\ EndsAfter(pools[n], r, clock)
  /\ pools[n].expiries[r] < clock + Grace
  /\ pools' = [pools EXCEPT ![n].expiries = Put(@, r, clock + TTL)]
  /\ own' = [own EXCEPT ![n] = @ \ {r}]
  /\ UNCHANGED <<hash, skew, clock, mine, hlc, outbox, conns, snapshot, chan, seen, allocs, drops>>

PruneExpired(n) ==
  /\ ScanExpired(pools[n], Reals, clock) # {}
  /\ pools' = [pools EXCEPT ![n] =
                 RemoveExpired(@, ScanExpired(@, Reals, clock), clock)]
  /\ own' = [own EXCEPT ![n] = @ \cap DOMAIN pools'[n].realToFake]
  /\ mine' = [mine EXCEPT ![n] = @ \cap GetAllMappings(pools'[n])]
  /\ UNCHANGED <<hash, skew, clock, hlc, outbox, conns, snapshot, chan, seen, allocs, drops>>

\* BroadcastMappings, from the goroutine of the query that allocated m.
Broadcast(n, m) ==
  /\ m \in outbox[n]
  /\ outbox' = [outbox EXCEPT ![n] = @ \ {m}]
  /\ chan' = [e \in Pairs |-> IF e[1] = n /\ e[2] \in conns[n]
                              THEN Append(chan[e], {m}) ELSE chan[e]]
  /\ UNCHANGED <<hash, skew, clock, own, mine, pools, hlc, conns, snapshot, seen, allocs, drops>>

\* Mutant of Register: a peer that comes back gets no snapshot.
RegisterOnce(n, m) ==
  /\ m \notin conns[n]
  /\ conns' = [conns EXCEPT ![n] = @ \cup {m}]
  /\ snapshot' = IF drops > 0 THEN snapshot
                 ELSE [snapshot EXCEPT ![n] = @ \cup {m}]
  /\ UNCHANGED <<hash, skew, clock, own, mine, pools, hlc, outbox, chan, seen, allocs, drops>>

\* handleConnection registers the connection to m ...
Register(n, m) ==
  /\ m \notin conns[n]
  /\ conns' = [conns EXCEPT ![n] = @ \cup {m}]
  /\ snapshot' = [snapshot EXCEPT ![n] = @ \cup {m}]
  /\ UNCHANGED <<hash, skew, clock, own, mine, pools, hlc, outbox, chan, seen, allocs, drops>>

\* ... and then sends all mappings over it.
SendAllMappings(n, m) ==
  /\ m \in snapshot[n]
  /\ snapshot' = [snapshot EXCEPT ![n] = @ \ {m}]
  /\ LET all == GetAllMappings(pools[n])
     IN  chan' = IF all = {} THEN chan
                 ELSE [chan EXCEPT ![<<n, m>>] = Append(@, all)]
  /\ UNCHANGED <<hash, skew, clock, own, mine, pools, hlc, outbox, conns, seen, allocs, drops>>

\* The read loop of n, which starts once the snapshot is sent, takes the next
\* mapping m of the first batch from peer s.
Take(s, n, m) ==
  LET e == <<s, n>>
  IN  /\ s \in conns[n] \ snapshot[n]
      /\ chan[e] # <<>>
      /\ m \in Head(chan[e])
      /\ chan' = [chan EXCEPT ![e] = IF Head(@) = {m} THEN Tail(@)
                                     ELSE <<Head(@) \ {m}>> \o Tail(@)]
      /\ seen' = [seen EXCEPT ![n] = @ \cup {m}]
      /\ UNCHANGED <<hash, skew, clock, outbox, conns, snapshot, allocs, drops>>

\* Mutant of Deliver: a mapping the peer already holds keeps its lease.
DeliverKeepsLease(s, n, m) ==
  /\ Take(s, n, m)
  /\ IF GetVersion(pools[n], m.fake) > m.version
     THEN UNCHANGED <<pools, hlc, own, mine>>
     ELSE /\ hlc' = [hlc EXCEPT ![n] = ObserveVersion(@, allocs + skew[n], m.version)]
          /\ pools' = [pools EXCEPT ![n] =
                 AddMapping(@, m.real, m.fake, m.version,
                            IF MapsTo(@, m.real, m.fake) THEN @.expiries[m.real]
                            ELSE clock + TTL)]
          /\ own' = [own EXCEPT ![n] =
                 IF Refused(pools[n], m.real, m.fake, m.version) THEN @
                 ELSE @ \ ({m.real} \cup Lookup(pools[n].globalFakeToReal, m.fake))]
          /\ mine' = [mine EXCEPT ![n] = @ \cap GetAllMappings(pools'[n])]

\* The mapping is skipped, or observed and merged with a full lease.
Deliver(s, n, m) ==
  /\ Take(s, n, m)
  /\ IF GetVersion(pools[n], m.fake) > m.version
     THEN UNCHANGED <<pools, hlc, own, mine>>
     ELSE /\ hlc' = [hlc EXCEPT ![n] = ObserveVersion(@, allocs + skew[n], m.version)]
          /\ pools' = [pools EXCEPT ![n] =
                 AddMapping(@, m.real, m.fake, m.version, clock + TTL)]
          /\ own' = [own EXCEPT ![n] =
                 IF Refused(pools[n], m.real, m.fake, m.version) THEN @
                 ELSE @ \ ({m.real} \cup Lookup(pools[n].globalFakeToReal, m.fake))]
          /\ mine' = [mine EXCEPT ![n] = @ \cap GetAllMappings(pools'[n])]

\* A connection breaks: what is in flight on it is lost, both ends forget it.
Disconnect(n, m) ==
  /\ drops < MaxDrops /\ Room
  /\ m \in conns[n] \/ n \in conns[m]
  /\ drops' = drops + 1
  /\ conns' = [conns EXCEPT ![n] = @ \ {m}, ![m] = @ \ {n}]
  /\ snapshot' = [snapshot EXCEPT ![n] = @ \ {m}, ![m] = @ \ {n}]
  /\ chan' = [chan EXCEPT ![<<n, m>>] = <<>>, ![<<m, n>>] = <<>>]
  /\ UNCHANGED <<hash, skew, clock, own, mine, pools, hlc, outbox, seen, allocs>>

\* Nothing is on its way between connected nodes.
Settled ==
  /\ \A e \in Pairs : chan[e] = <<>>
  /\ \A n \in Nodes : outbox[n] = {} /\ snapshot[n] = {}

\* A mapping is applied long before a lease ends: MappingTTL is two hours.
Tick ==
  /\ clock < MaxClock /\ Room
  /\ Settled
  /\ clock' = clock + 1
  /\ UNCHANGED <<hash, skew, own, mine, pools, hlc, outbox, conns, snapshot, chan, seen, allocs, drops>>

Init ==
  /\ hash \in Hashes
  /\ skew \in Skews
  /\ clock = 0
  /\ own = [n \in Nodes |-> {}]
  /\ mine = [n \in Nodes |-> {}]
  /\ pools = [n \in Nodes |-> NewPool]
  /\ hlc = [n \in Nodes |-> 0]
  /\ outbox = [n \in Nodes |-> {}]
  /\ conns = [n \in Nodes |-> {}]
  /\ snapshot = [n \in Nodes |-> {}]
  /\ chan = [e \in Pairs |-> <<>>]
  /\ seen = [n \in Nodes |-> {}]
  /\ allocs = 0
  /\ drops = 0

Next ==
  \/ \E n \in Nodes :
        \/ \E r \in Reals : Allocate(n, r) \/ Renew(n, r)
        \/ PruneExpired(n)
        \/ \E m \in outbox[n] : Broadcast(n, m)
  \/ \E e \in Pairs :
        \/ Register(e[1], e[2])
        \/ SendAllMappings(e[1], e[2])
        \/ \E m \in seen[e[1]] : Deliver(e[1], e[2], m)
        \/ Disconnect(e[1], e[2])
  \/ Tick

Spec == Init /\ [][Next]_vars

-----------------------------------------------------------------------------
(* Properties *)

Mapping == [fake : IPKey, real : IPKey, version : Nat]

\* Pools, clocks and messages have their types, a node's own mappings are in
\* its pool, and no message is empty.
TypeOK ==
  /\ hash \in Hashes /\ skew \in Skews /\ clock \in 0 .. MaxClock
  /\ \A n \in Nodes : /\ IsPool(pools[n]) /\ own[n] \subseteq DOMAIN pools[n].realToFake
                      /\ mine[n] \subseteq GetAllMappings(pools[n])
  /\ hlc \in [Nodes -> Nat]
  /\ conns \in [Nodes -> SUBSET Nodes]
  /\ snapshot \in [Nodes -> SUBSET Nodes]
  /\ \A n \in Nodes : outbox[n] \subseteq Mapping /\ seen[n] \subseteq Mapping
  /\ \A e \in Pairs : \A i \in DOMAIN chan[e] :
        chan[e][i] \subseteq Mapping /\ chan[e][i] # {}
  /\ allocs \in 0 .. MaxAllocs /\ drops \in 0 .. MaxDrops

\* Nothing is left to send or to apply between the nodes of a full mesh.
Quiescent == Settled /\ \A e \in Pairs : e[2] \in conns[e[1]]

\* No two real addresses have the same natural fake.
NaturalsDiffer ==
  \A r, s \in Reals :
     ComputeLevel1Hash(Geo, hash[r]) = ComputeLevel1Hash(Geo, hash[s]) => r = s

\* Every mapping that a node allocated and still holds has, at rest, been
\* offered to every other node, however allocations, broadcasts, lost
\* connections and snapshots interleaved: a connection is registered for
\* broadcasts before the snapshot is taken (handleConnection).  A mapping from
\* a third node is that node's to send.  On the way the pools stay well-formed
\* and no message is empty (TypeOK).
NothingMissed ==
  /\ TypeOK
  /\ Quiescent => \A n, m \in Nodes : mine[n] \subseteq seen[m]

\* A new mapping outranks every mapping its node has seen, whichever clock is
\* ahead and whatever was skipped or refused: the versions are consistent with
\* causality (GetNextVersion, ObserveVersion).
CausalVersions ==
  [][\A n \in Nodes : \A m \in outbox'[n] \ outbox[n] : \A k \in seen[n] :
       k.version < m.version]_vars

\* At rest no fake stands for different real addresses on two nodes: the
\* split brain that the versions are there to prevent (AddMapping).
NoSplitBrain ==
  Quiescent => \A n, m \in Nodes : \A f \in Leased(pools[n]) \cap Leased(pools[m]) :
     pools[n].globalFakeToReal[f] = pools[m].globalFakeToReal[f]

\* No two allocations of the cluster tie in their version.
VersionsDiffer ==
  Cardinality({m.version : m \in UNION {seen[n] : n \in Nodes}}) = allocs

\* Until the first lease can end, all nodes hold the same mappings at rest,
\* provided that no two addresses collide ("All nodes in the cluster stay
\* perfectly in sync", README): whichever nodes allocate for an address, the
\* newest version wins on all of them (AddMapping).
InSyncWithoutCollisions ==
  Quiescent /\ NaturalsDiffer /\ clock < TTL
    => \A n, m \in Nodes : GetAllMappings(pools[n]) = GetAllMappings(pools[m])

\* At rest, and without collisions and ties, a lease that one of two nodes
\* allocated and that runs there is held by its peer too, whichever node's copies ended
\* meanwhile, whichever clock is ahead and whenever the connection was lost:
\* the peer's lease is counted from the arrival, and a new allocation outranks
\* what is left of older ones (handleConnection, AddMapping).  Of three nodes one
\* may hold a mapping of the second, with a later version from a clock that is
\* ahead, that the third never saw; it then skips the third's allocation.
AllocationIsShared ==
  Quiescent /\ NaturalsDiffer /\ VersionsDiffer /\ Cardinality(Nodes) = 2
    => \A e \in Pairs : \A r \in own[e[1]] :
          EndsAfter(pools[e[1]], r, clock)
            => MapsTo(pools[e[2]], r, pools[e[1]].realToFake[r])

=============================================================================

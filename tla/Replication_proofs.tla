------------------------- MODULE Replication_proofs -------------------------
(***************************************************************************)
(* Proofs of CausalVersions and NothingMissed.  For the first, a node's    *)
(* clock has to be ahead of every mapping it has seen, those included that *)
(* it skips without observing their version: these are behind a mapping in *)
(* its pool.  For the second, what a node allocated and holds has, at      *)
(* every connected peer, been seen already or is on its way: in the        *)
(* outbox, owed with the snapshot, or in the channel.                      *)
(***************************************************************************)
EXTENDS Replication, PoolOps_proofs, SequenceTheorems

\* Every pool is well formed, and every clock is ahead of the pool and of what
\* the node has seen.
NodeInv(n) ==
  /\ hlc[n] \in Nat
  /\ IsPool(pools[n]) /\ Mirror(pools[n]) /\ VersionsUpTo(pools[n], hlc[n])
  /\ seen[n] \subseteq Mapping
  /\ \A m \in seen[n] : m.version <= hlc[n]

\* So it is at every node, and what the environment chose has its type.
ClusterInv ==
  /\ hash \in [Reals -> Nat] /\ skew \in [Nodes -> Nat]
  /\ clock \in Nat /\ allocs \in Nat
  /\ \A g \in {hlc, pools, seen, outbox} : g = [n \in Nodes |-> g[n]]
  /\ \A n \in Nodes : NodeInv(n)

\* What a step does at one node; the others stay as they are.
At(n, p, h, S) ==
  /\ pools' = [pools EXCEPT ![n] = p]
  /\ hlc' = [hlc EXCEPT ![n] = h]
  /\ seen' = [seen EXCEPT ![n] = S]

\* A step at one node keeps the invariant of all, if it does for this one.
LEMMA AtOneNode ==
  ASSUME ClusterInv, NEW n \in Nodes, NEW p, NEW h, NEW S, At(n, p, h, S),
         h \in Nat, IsPool(p), Mirror(p), VersionsUpTo(p, h),
         S \subseteq Mapping, \A m \in S : m.version <= h
  PROVE  \A k \in Nodes : NodeInv(k)'
<1> SUFFICES ASSUME NEW k \in Nodes PROVE NodeInv(k)'
  OBVIOUS
<1>1. CASE k = n
  <2>1. pools'[k] = p /\ hlc'[k] = h /\ seen'[k] = S
    BY <1>1 DEF At, ClusterInv
  <2> QED  BY <2>1 DEF NodeInv
<1>2. CASE k # n
  <2>1. pools'[k] = pools[k] /\ hlc'[k] = hlc[k] /\ seen'[k] = seen[k]
    BY <1>2 DEF At, ClusterInv
  <2>2. NodeInv(k)
    BY DEF ClusterInv
  <2> QED  BY <2>1, <2>2 DEF NodeInv
<1> QED  BY <1>1, <1>2

\* The version of a new mapping is above the clock.
LEMMA NextVersionAbove ==
  ASSUME NEW h \in Nat, NEW wall \in Nat
  PROVE  GetNextVersion(h, wall) \in Nat /\ h < GetNextVersion(h, wall)
  BY DEF GetNextVersion

\* An allocation keeps the invariant.
LEMMA AllocateInv ==
  ASSUME ClusterInv, NEW n \in Nodes, NEW r \in Reals, Allocate(n, r)
  PROVE  /\ \A k \in Nodes : NodeInv(k)'
         /\ \A k \in Nodes : \A m \in outbox'[k] \ outbox[k] : \A s \in seen[k] :
               s.version < m.version
<1> DEFINE p == Drop(pools[n], {r}, Lookup(pools[n].realToFake, r))
           v == GetNextVersion(hlc[n], allocs + 1 + skew[n])
<1>a. NodeInv(n)
  BY DEF ClusterInv
<1>1. v \in Nat /\ hlc[n] < v /\ hlc[n] \in Nat
  <2>1. hlc[n] \in Nat /\ allocs + 1 + skew[n] \in Nat
    BY <1>a DEF NodeInv, ClusterInv
  <2> QED  BY <2>1, NextVersionAbove, Zenon
<1>2. IsPool(p) /\ Mirror(p) /\ r \notin DOMAIN p.realToFake /\ VersionsUpTo(p, hlc[n])
  BY <1>a, <1>1, ForgetGood, Zenon DEF NodeInv
<1>3. PICK f \in FinalFake(Geo, hash[r], Leased(p)) :
         LET m == [fake |-> f, real |-> r, version |-> v]
         IN  /\ pools' = [pools EXCEPT ![n] = Install(p, r, f, v, clock + TTL)]
             /\ outbox' = [outbox EXCEPT ![n] = @ \cup {m}]
             /\ seen' = [seen EXCEPT ![n] = @ \cup {m}]
  BY Zenon DEF Allocate
<1>4. hlc' = [hlc EXCEPT ![n] = v]
  BY DEF Allocate
<1> DEFINE m == [fake |-> f, real |-> r, version |-> v]
<1> HIDE DEF p, v
<1>5. r \in IPKey /\ hash[r] \in Nat /\ clock + TTL \in Nat
  BY ReplicationAssumption DEF ClusterInv
<1>6. f \in IPKey /\ f \notin DOMAIN p.globalFakeToReal
  BY <1>5, FinalFakeFree, ReplicationAssumption DEF Leased
<1> DEFINE q == Install(p, r, f, v, clock + TTL)
<1>7. VersionsUpTo(p, v)
  BY <1>1, <1>2 DEF VersionsUpTo, IsPool, IsMap
<1>8. IsPool(q) /\ Mirror(q) /\ VersionsUpTo(q, v)
  BY <1>1, <1>2, <1>5, <1>6, <1>7, InstallIsPool, InstallMirror
<1>9. m \in Mapping /\ m.version = v
  BY <1>1, <1>5, <1>6 DEF Mapping
<1>10. \A s \in seen[n] : s.version \in Nat /\ s.version < v
  BY <1>a, <1>1 DEF NodeInv, Mapping
<1>11. seen[n] \cup {m} \subseteq Mapping /\ \A s \in seen[n] \cup {m} : s.version <= v
  BY <1>a, <1>1, <1>9, <1>10 DEF NodeInv
<1>12. At(n, q, v, seen[n] \cup {m})
  BY <1>3, <1>4 DEF At, ClusterInv
<1>13. \A k \in Nodes : NodeInv(k)'
  <2> HIDE DEF q, m
  <2> QED  BY <1>1, <1>8, <1>11, <1>12, AtOneNode
<1>14. ASSUME NEW k \in Nodes, NEW o \in outbox'[k] \ outbox[k], NEW s \in seen[k]
       PROVE  s.version < o.version
  <2>1. k = n /\ o = m
    BY <1>3, <1>14 DEF ClusterInv
  <2> QED  BY <1>9, <1>10, <2>1
<1> QED  BY <1>13, <1>14

\* So does the delivery of a mapping, whether it is skipped, refused or merged.
LEMMA DeliverInv ==
  ASSUME ClusterInv, NEW s \in Nodes, NEW n \in Nodes, NEW m \in seen[s], Deliver(s, n, m)
  PROVE  \A k \in Nodes : NodeInv(k)'
<1>a. NodeInv(n) /\ NodeInv(s)
  BY DEF ClusterInv
<1>1. m \in Mapping
  BY <1>a DEF NodeInv
<1>2. m.real \in IPKey /\ m.fake \in IPKey /\ m.version \in Nat
  BY <1>1 DEF Mapping
<1>3. /\ hlc[n] \in Nat /\ IsPool(pools[n]) /\ Mirror(pools[n])
      /\ VersionsUpTo(pools[n], hlc[n])
  BY <1>a DEF NodeInv
<1>4. seen' = [seen EXCEPT ![n] = @ \cup {m}]
  BY DEF Deliver, Take
<1>5. CASE GetVersion(pools[n], m.fake) > m.version
  <2>1. m.version <= hlc[n]
    BY <1>2, <1>3, <1>5 DEF GetVersion, VersionsUpTo, IsPool, IsMap
  <2>2. UNCHANGED <<pools, hlc>>
    BY <1>5 DEF Deliver
  <2>3. At(n, pools[n], hlc[n], seen[n] \cup {m})
    BY <1>4, <2>2 DEF At, ClusterInv
  <2>4. seen[n] \cup {m} \subseteq Mapping /\ \A k \in seen[n] \cup {m} : k.version <= hlc[n]
    BY <1>a, <1>1, <2>1 DEF NodeInv
  <2> QED  BY <1>3, <2>3, <2>4, AtOneNode
<1>6. CASE ~(GetVersion(pools[n], m.fake) > m.version)
  <2> DEFINE h == ObserveVersion(hlc[n], allocs + skew[n], m.version)
             p == AddMapping(pools[n], m.real, m.fake, m.version, clock + TTL)
  <2>1. h \in Nat /\ hlc[n] <= h /\ m.version <= h
    <3>1. allocs + skew[n] \in Nat
      BY DEF ClusterInv
    <3> QED  BY <1>2, <1>3, <3>1 DEF ObserveVersion
  <2>2. hlc' = [hlc EXCEPT ![n] = h] /\ pools' = [pools EXCEPT ![n] = p]
    BY <1>6 DEF Deliver
  <2> HIDE DEF h
  <2>3. VersionsUpTo(pools[n], h)
    BY <1>3, <2>1 DEF VersionsUpTo, IsPool, IsMap
  <2>4. clock + TTL \in Nat
    BY ReplicationAssumption DEF ClusterInv
  <2>5. IsPool(p) /\ Mirror(p) /\ VersionsUpTo(p, h)
    BY <1>2, <1>3, <2>1, <2>3, <2>4, AddMappingGood
  <2>6. At(n, p, h, seen[n] \cup {m})
    BY <1>4, <2>2 DEF At, ClusterInv
  <2>7. seen[n] \cup {m} \subseteq Mapping /\ \A k \in seen[n] \cup {m} : k.version <= h
    BY <1>a, <1>1, <1>2, <1>3, <2>1 DEF NodeInv, Mapping
  <2> HIDE DEF p
  <2> QED  BY <2>1, <2>5, <2>6, <2>7, AtOneNode
<1> QED  BY <1>5, <1>6

\* And so do a renewal and a pruning pass, which leave clock and versions.
LEMMA LeaseStepsInv ==
  ASSUME ClusterInv, NEW n \in Nodes,
         PruneExpired(n) \/ \E r \in Reals : Renew(n, r)
  PROVE  \A k \in Nodes : NodeInv(k)'
<1>a. NodeInv(n)
  BY DEF ClusterInv
<1>b. /\ hlc[n] \in Nat /\ IsPool(pools[n]) /\ Mirror(pools[n])
      /\ VersionsUpTo(pools[n], hlc[n])
      /\ seen[n] \subseteq Mapping /\ \A m \in seen[n] : m.version <= hlc[n]
  BY <1>a DEF NodeInv
<1>1. UNCHANGED <<hlc, seen>>
  BY DEF PruneExpired, Renew
<1>2. ASSUME NEW p, pools' = [pools EXCEPT ![n] = p],
             IsPool(p), Mirror(p), VersionsUpTo(p, hlc[n])
      PROVE  \A k \in Nodes : NodeInv(k)'
  <2>1. At(n, p, hlc[n], seen[n])
    BY <1>1, <1>2 DEF At, ClusterInv
  <2> QED  BY <1>b, <1>2, <2>1, AtOneNode
<1>3. CASE PruneExpired(n)
  <2> DEFINE pairs == ScanExpired(pools[n], Reals, clock)
             p == RemoveExpired(pools[n], pairs, clock)
  <2>1. pools' = [pools EXCEPT ![n] = p]
    BY <1>3 DEF PruneExpired
  <2> HIDE DEF pairs
  <2>2. IsPool(p) /\ Mirror(p) /\ VersionsUpTo(p, hlc[n])
    BY <1>b, RemoveExpiredGood
  <2> HIDE DEF p
  <2> QED  BY <1>2, <2>1, <2>2, Zenon
<1>4. ASSUME NEW r \in Reals, Renew(n, r)
      PROVE  \A k \in Nodes : NodeInv(k)'
  <2> DEFINE p == [pools[n] EXCEPT !.expiries = Put(pools[n].expiries, r, clock + TTL)]
  <2>1. pools' = [pools EXCEPT ![n] = p]
    BY <1>4 DEF Renew
  <2>2. r \in DOMAIN pools[n].expiries /\ r \in IPKey /\ clock + TTL \in Nat
    BY <1>4, ReplicationAssumption DEF Renew, EndsAfter, ClusterInv
  <2>3. /\ DOMAIN p = {"realToFake", "expiries", "globalFakeToReal", "globalVersions"}
        /\ p.realToFake = pools[n].realToFake
        /\ p.globalFakeToReal = pools[n].globalFakeToReal
        /\ p.globalVersions = pools[n].globalVersions
        /\ p.expiries = Put(pools[n].expiries, r, clock + TTL)
    BY <1>b DEF IsPool
  <2> HIDE DEF p
  <2>4. IsMap(p.expiries, IPKey, Nat) /\ DOMAIN p.expiries = DOMAIN pools[n].expiries
    BY <1>b, <2>2, <2>3 DEF IsPool, IsMap, Put
  <2>5. IsPool(p)
    BY <1>b, <2>3, <2>4 DEF IsPool
  <2>6. Mirror(p) /\ VersionsUpTo(p, hlc[n])
    BY <1>b, <2>3, <2>4 DEF Mirror, VersionsUpTo
  <2> QED  BY <1>2, <2>1, <2>5, <2>6, Zenon
<1> QED  BY <1>3, <1>4

\* The step that CausalVersions allows.
CausalStep ==
  \A n \in Nodes : \A m \in outbox'[n] \ outbox[n] : \A k \in seen[n] :
     k.version < m.version

\* Every step of the cluster keeps the invariant and is causal.
LEMMA NextCluster == ClusterInv /\ [Next]_vars => ClusterInv' /\ CausalStep
<1> SUFFICES ASSUME ClusterInv, [Next]_vars PROVE ClusterInv' /\ CausalStep
  OBVIOUS
<1>1. UNCHANGED <<hash, skew>> /\ clock' \in Nat /\ allocs' \in Nat
  <2>1. clock \in Nat /\ allocs \in Nat
    BY DEF ClusterInv
  <2>2. ASSUME NEW n \in Nodes, NEW r \in Reals, Allocate(n, r)
        PROVE  UNCHANGED <<hash, skew, clock>> /\ allocs' = allocs + 1
    BY <2>2 DEF Allocate
  <2>3. ASSUME NEW n \in Nodes, NEW m \in Nodes, NEW k, Deliver(n, m, k)
        PROVE  UNCHANGED <<hash, skew, clock, allocs>>
    BY <2>3 DEF Deliver, Take
  <2>4. ASSUME Tick PROVE UNCHANGED <<hash, skew, allocs>> /\ clock' = clock + 1
    BY <2>4 DEF Tick
  <2>5. ASSUME NEW n \in Nodes, PruneExpired(n) \/ \E r \in Reals : Renew(n, r)
        PROVE  UNCHANGED <<hash, skew, clock, allocs>>
    BY <2>5 DEF PruneExpired, Renew
  <2>6. ASSUME NEW n \in Nodes, NEW m, Broadcast(n, m)
        PROVE  UNCHANGED <<hash, skew, clock, allocs>>
    BY <2>6 DEF Broadcast
  <2>7. ASSUME NEW n \in Nodes, NEW m \in Nodes,
               Register(n, m) \/ SendAllMappings(n, m) \/ Disconnect(n, m)
        PROVE  UNCHANGED <<hash, skew, clock, allocs>>
    BY <2>7 DEF Register, SendAllMappings, Disconnect
  <2> QED
    BY <2>1, <2>2, <2>3, <2>4, <2>5, <2>6, <2>7 DEF Next, Pairs, vars
<1>2. \A g \in {hlc', pools', seen', outbox'} : g = [n \in Nodes |-> g[n]]
  <2>0. \A g \in {hlc, pools, seen, outbox} : g = [n \in Nodes |-> g[n]]
    BY DEF ClusterInv
  <2>1. ASSUME NEW n \in Nodes, NEW r \in Reals, Allocate(n, r)
        PROVE  \A g \in {hlc', pools', seen', outbox'} : g = [k \in Nodes |-> g[k]]
    BY <2>0, <2>1 DEF Allocate
  <2>2. ASSUME NEW n \in Nodes, NEW m \in Nodes, NEW k, Deliver(n, m, k)
        PROVE  \A g \in {hlc', pools', seen', outbox'} : g = [i \in Nodes |-> g[i]]
    BY <2>0, <2>2 DEF Deliver, Take
  <2>3. ASSUME NEW n \in Nodes, PruneExpired(n) \/ \E r \in Reals : Renew(n, r)
        PROVE  \A g \in {hlc', pools', seen', outbox'} : g = [k \in Nodes |-> g[k]]
    BY <2>0, <2>3 DEF PruneExpired, Renew
  <2>4. ASSUME NEW n \in Nodes, NEW m, Broadcast(n, m)
        PROVE  \A g \in {hlc', pools', seen', outbox'} : g = [k \in Nodes |-> g[k]]
    BY <2>0, <2>4 DEF Broadcast
  <2> QED
    BY <2>0, <2>1, <2>2, <2>3, <2>4, Zenon
       DEF Next, Register, SendAllMappings, Disconnect, Tick, Pairs, vars
<1>3. ASSUME \A n \in Nodes : NodeInv(n)', CausalStep
      PROVE  ClusterInv' /\ CausalStep
  BY <1>1, <1>2, <1>3 DEF ClusterInv
<1>4. ASSUME \A n \in Nodes : outbox'[n] \subseteq outbox[n]
      PROVE  CausalStep
  BY <1>4 DEF CausalStep
<1>5. ASSUME UNCHANGED <<pools, hlc, seen>> PROVE \A n \in Nodes : NodeInv(n)'
  BY <1>5 DEF ClusterInv, NodeInv
<1>6. ASSUME NEW n \in Nodes, NEW r \in Reals, Allocate(n, r)
      PROVE  ClusterInv' /\ CausalStep
  BY <1>3, <1>6, AllocateInv DEF CausalStep
<1>7. ASSUME NEW n \in Nodes, PruneExpired(n) \/ \E r \in Reals : Renew(n, r)
      PROVE  ClusterInv' /\ CausalStep
  <2>1. UNCHANGED outbox
    BY <1>7 DEF PruneExpired, Renew
  <2> QED  BY <1>3, <1>4, <1>7, <2>1, LeaseStepsInv
<1>8. ASSUME NEW n \in Nodes, NEW m, Broadcast(n, m)
      PROVE  ClusterInv' /\ CausalStep
  <2>1. \A k \in Nodes : outbox'[k] \subseteq outbox[k]
    BY <1>8 DEF Broadcast, ClusterInv
  <2>2. UNCHANGED <<pools, hlc, seen>>
    BY <1>8 DEF Broadcast
  <2> QED  BY <1>3, <1>4, <1>5, <2>1, <2>2
<1>9. ASSUME NEW e \in Pairs, NEW m \in seen[e[1]], Deliver(e[1], e[2], m)
      PROVE  ClusterInv' /\ CausalStep
  <2>1. e[1] \in Nodes /\ e[2] \in Nodes
    BY DEF Pairs
  <2>2. UNCHANGED outbox
    BY <1>9 DEF Deliver, Take
  <2> QED  BY <1>3, <1>4, <1>9, <2>1, <2>2, DeliverInv
<1>10. ASSUME UNCHANGED <<pools, hlc, seen, outbox>> PROVE ClusterInv' /\ CausalStep
  BY <1>3, <1>4, <1>5, <1>10
<1> QED
  BY <1>6, <1>7, <1>8, <1>9, <1>10, Zenon
     DEF Next, Register, SendAllMappings, Disconnect, Tick, vars

\* A cluster that starts has the invariant.
LEMMA InitCluster == Init => ClusterInv
<1> SUFFICES ASSUME Init PROVE ClusterInv
  OBVIOUS
<1>1. VersionsUpTo(NewPool, 0)
  BY DEF VersionsUpTo, NewPool, EmptyMap
<1>2. \A n \in Nodes : NodeInv(n)
  BY <1>1, NewPoolGood DEF Init, NodeInv
<1> QED  BY <1>2, ReplicationAssumption DEF Init, ClusterInv

\* The versions are consistent with causality in a cluster of any size, for
\* every skew of the wall clocks and every order of allocations, deliveries,
\* renewals, pruning and lost connections.
THEOREM CausalCorrect == Spec => CausalVersions
<1>1. ClusterInv /\ [Next]_vars => ClusterInv'
  BY NextCluster
<1>2. ClusterInv /\ [Next]_vars => [CausalStep]_vars
  BY NextCluster
<1> QED  BY <1>1, <1>2, InitCluster, PTL DEF Spec, CausalVersions, CausalStep

-----------------------------------------------------------------------------
(* Channels *)

\* Messages, none of which is empty.
Batches(M) == (SUBSET M) \ {{}}

\* The mappings in a channel.
InFlight(q) == UNION {q[i] : i \in DOMAIN q}

\* Every message of a channel is one of them.
LEMMA Message ==
  ASSUME NEW M, NEW q \in Seq(Batches(M)), NEW i \in DOMAIN q
  PROVE  q[i] \in Batches(M)
  BY LenProperties

\* A batch that is written is in the channel, behind what was there.
LEMMA Written ==
  ASSUME NEW M, NEW q \in Seq(Batches(M)), NEW b \in Batches(M)
  PROVE  /\ Append(q, b) \in Seq(Batches(M))
         /\ InFlight(q) \cup b \subseteq InFlight(Append(q, b))
<1>1. /\ Append(q, b) \in Seq(Batches(M)) /\ Len(q) \in Nat
      /\ DOMAIN q = 1 .. Len(q) /\ DOMAIN Append(q, b) = 1 .. Len(q) + 1
      /\ \A i \in 1 .. Len(q) : Append(q, b)[i] = q[i]
      /\ Append(q, b)[Len(q) + 1] = b
  BY AppendProperties, LenProperties
<1>2. 1 .. Len(q) \subseteq 1 .. Len(q) + 1 /\ Len(q) + 1 \in 1 .. Len(q) + 1
  BY <1>1
<1> QED  BY <1>1, <1>2 DEF InFlight

\* What is left of a channel from which the read loop took m.
Rest(q, m) == IF Head(q) = {m} THEN Tail(q) ELSE <<Head(q) \ {m}>> \o Tail(q)

\* Only the mapping that is taken leaves the channel.
LEMMA Taken ==
  ASSUME NEW M, NEW q \in Seq(Batches(M)), q # <<>>, NEW m \in Head(q)
  PROVE  /\ Rest(q, m) \in Seq(Batches(M))
         /\ InFlight(q) \subseteq InFlight(Rest(q, m)) \cup {m}
<1> DEFINE h == Head(q)
           t == Tail(q)
           n == Len(q)
<1>1. /\ h \in Batches(M) /\ h = q[1] /\ t \in Seq(Batches(M)) /\ n \in Nat \ {0}
      /\ DOMAIN q = 1 .. n /\ Len(t) = n - 1
      /\ \A i \in 1 .. n - 1 : t[i] = q[i + 1]
  BY HeadTailProperties, LenProperties, EmptySeq
<1>2. DOMAIN t = 1 .. n - 1
  BY <1>1, LenProperties
<1> HIDE DEF h, t, n
<1>3. InFlight(q) \subseteq h \cup InFlight(t)
  <2> SUFFICES ASSUME NEW i \in DOMAIN q, NEW x \in q[i], x \notin h
               PROVE  x \in InFlight(t)
    BY DEF InFlight
  <2>1. i # 1
    BY <1>1
  <2>2. i - 1 \in 1 .. n - 1 /\ (i - 1) + 1 = i
    BY <1>1, <2>1
  <2>3. t[i - 1] = q[i]
    BY <1>1, <2>2
  <2> QED  BY <1>2, <2>2, <2>3 DEF InFlight
<1>4. CASE h = {m}
  BY <1>1, <1>3, <1>4 DEF Rest, h, t
<1>5. CASE h # {m}
  <2> DEFINE b == h \ {m}
             r == <<b>> \o t
  <2>1. b \in Batches(M) /\ <<b>> \in Seq(Batches(M))
    <3>1. b \in Batches(M)
      BY <1>1, <1>5 DEF Batches, h
    <3> QED  BY <3>1
  <2> HIDE DEF b
  <2>2. /\ r \in Seq(Batches(M)) /\ Len(r) = 1 + (n - 1) /\ r[1] = b
        /\ \A i \in 1 .. 1 + (n - 1) : i > 1 => r[i] = t[i - 1]
    BY <1>1, <2>1, ConcatProperties
  <2>3. DOMAIN r = 1 .. n
    BY <1>1, <2>2, LenProperties
  <2> HIDE DEF r
  <2>4. b \subseteq InFlight(r)
    BY <1>1, <2>2, <2>3 DEF InFlight
  <2>5. InFlight(t) \subseteq InFlight(r)
    <3> SUFFICES ASSUME NEW i \in DOMAIN t PROVE t[i] \subseteq InFlight(r)
      BY DEF InFlight
    <3>1. i + 1 \in 1 .. n /\ i + 1 > 1 /\ (i + 1) - 1 = i /\ i + 1 \in 1 .. 1 + (n - 1)
      BY <1>1, <1>2
    <3>2. r[i + 1] = t[i]
      BY <2>2, <3>1
    <3> QED  BY <2>3, <3>1, <3>2 DEF InFlight
  <2>6. h \subseteq b \cup {m}
    BY DEF b
  <2>7. Rest(q, m) = r
    BY <1>5 DEF Rest, r, b, h, t
  <2> QED  BY <1>3, <2>2, <2>4, <2>5, <2>6, <2>7
<1> QED  BY <1>4, <1>5

-----------------------------------------------------------------------------
(* What has been offered *)

\* What a frame carries.
Batch == Batches(Mapping)

\* What n allocated and holds, and m has not seen, is on its way to m: it waits
\* to be broadcast, or to be sent with everything else, or is in the channel.
Offered(n, m) ==
  m \in conns[n]
    => m \in snapshot[n] \/ mine[n] \subseteq outbox[n] \cup seen[m] \cup InFlight(chan[<<n, m>>])

\* A node has seen what it allocated, and holds what it counts as its own.
HeldInv(n) ==
  /\ own[n] \subseteq DOMAIN pools[n].realToFake
  /\ mine[n] \subseteq GetAllMappings(pools[n])
  /\ mine[n] \subseteq seen[n] /\ outbox[n] \subseteq seen[n]

\* The types of the connections.
LinkTypes ==
  /\ conns \in [Nodes -> SUBSET Nodes] /\ snapshot \in [Nodes -> SUBSET Nodes]
  /\ own = [n \in Nodes |-> own[n]] /\ mine = [n \in Nodes |-> mine[n]]
  /\ chan = [e \in Pairs |-> chan[e]]
  /\ \A e \in Pairs : chan[e] \in Seq(Batch)

\* The invariant: so it is between any two nodes.
OfferInv == \A n, m \in Nodes : n # m => Offered(n, m)
ShareInv == LinkTypes /\ (\A n \in Nodes : HeldInv(n)) /\ OfferInv

\* A pool's mappings are well formed.
LEMMA AllAreMappings ==
  ASSUME NEW p, IsPool(p), Mirror(p)
  PROVE  GetAllMappings(p) \subseteq Mapping
  BY DEF GetAllMappings, Leased, Mapping, IsPool, IsMap, Mirror

\* A step that neither sends nor connects, and takes on nothing but what it
\* puts into the outbox, keeps what has been offered.
LEMMA QuietOffers ==
  ASSUME OfferInv, UNCHANGED <<conns, snapshot, chan>>,
         \A n \in Nodes : /\ mine'[n] \subseteq mine[n] \cup outbox'[n]
                          /\ outbox[n] \subseteq outbox'[n] /\ seen[n] \subseteq seen'[n]
  PROVE  OfferInv'
<1> SUFFICES ASSUME NEW n \in Nodes, NEW m \in Nodes, n # m, m \in conns'[n],
                    m \notin snapshot'[n]
             PROVE  mine'[n] \subseteq outbox'[n] \cup seen'[m] \cup InFlight(chan'[<<n, m>>])
  BY DEF OfferInv, Offered
<1>1. mine[n] \subseteq outbox[n] \cup seen[m] \cup InFlight(chan[<<n, m>>])
  BY DEF OfferInv, Offered
<1> QED  BY <1>1

\* An allocation is held, and waits in the outbox.
LEMMA AllocateShares ==
  ASSUME ClusterInv, ShareInv, NEW n \in Nodes, NEW r \in Reals, Allocate(n, r)
  PROVE  ShareInv'
<1> DEFINE p == Drop(pools[n], {r}, Lookup(pools[n].realToFake, r))
           v == GetNextVersion(hlc[n], allocs + 1 + skew[n])
<1>1. PICK f \in FinalFake(Geo, hash[r], Leased(p)) :
         LET m == [fake |-> f, real |-> r, version |-> v]
         IN  /\ pools' = [pools EXCEPT ![n] = Install(p, r, f, v, clock + TTL)]
             /\ outbox' = [outbox EXCEPT ![n] = @ \cup {m}]
             /\ seen' = [seen EXCEPT ![n] = @ \cup {m}]
             /\ mine' = [mine EXCEPT ![n] = (@ \cap GetAllMappings(pools'[n])) \cup {m}]
  BY ZenonT(30) DEF Allocate
<1>2. own' = [own EXCEPT ![n] = @ \cup {r}] /\ UNCHANGED <<conns, snapshot, chan>>
  BY DEF Allocate
<1> DEFINE m == [fake |-> f, real |-> r, version |-> v]
           q == Install(p, r, f, v, clock + TTL)
<1>3. /\ own = [k \in Nodes |-> own[k]] /\ mine = [k \in Nodes |-> mine[k]]
      /\ \A g \in {pools, seen, outbox} : g = [k \in Nodes |-> g[k]]
  BY DEF ShareInv, LinkTypes, ClusterInv
<1>4. m \in GetAllMappings(q)
  BY Zenon DEF GetAllMappings, Leased, Install, Put
<1>5. DOMAIN pools[n].realToFake \cup {r} \subseteq DOMAIN q.realToFake
  BY Zenon DEF Install, Put, Drop, Delete
<1> HIDE DEF p, v, q, m
<1>6. /\ pools'[n] = q /\ outbox'[n] = outbox[n] \cup {m} /\ seen'[n] = seen[n] \cup {m}
      /\ mine'[n] = (mine[n] \cap GetAllMappings(q)) \cup {m}
      /\ own'[n] = own[n] \cup {r}
      /\ \A k \in Nodes : k # n =>
            /\ pools'[k] = pools[k] /\ outbox'[k] = outbox[k] /\ seen'[k] = seen[k]
            /\ mine'[k] = mine[k] /\ own'[k] = own[k]
  BY <1>1, <1>2, <1>3 DEF q, m
<1>7. LinkTypes'
  <2>1. own' = [k \in Nodes |-> own'[k]] /\ mine' = [k \in Nodes |-> mine'[k]]
    BY <1>1, <1>2, <1>3, Zenon
  <2> QED  BY <1>2, <2>1 DEF ShareInv, LinkTypes
<1>8. ASSUME NEW k \in Nodes PROVE HeldInv(k)'
  <2>1. HeldInv(k)
    BY DEF ShareInv
  <2>2. CASE k = n
    BY <1>4, <1>5, <1>6, <2>1, <2>2 DEF HeldInv
  <2>3. CASE k # n
    BY <1>6, <2>1, <2>3 DEF HeldInv
  <2> QED  BY <2>2, <2>3
<1>9. \A k \in Nodes : /\ mine'[k] \subseteq mine[k] \cup outbox'[k]
                       /\ outbox[k] \subseteq outbox'[k] /\ seen[k] \subseteq seen'[k]
  BY <1>6
<1>10. OfferInv'
  BY <1>2, <1>9, QuietOffers DEF ShareInv
<1> QED  BY <1>7, <1>8, <1>10 DEF ShareInv

\* A renewal and a pruning pass take on nothing.
LEMMA LeaseStepsShare ==
  ASSUME ClusterInv, ShareInv, NEW n \in Nodes,
         PruneExpired(n) \/ \E r \in Reals : Renew(n, r)
  PROVE  ShareInv'
<1>1. /\ own = [k \in Nodes |-> own[k]] /\ mine = [k \in Nodes |-> mine[k]]
      /\ pools = [k \in Nodes |-> pools[k]] /\ HeldInv(n) /\ IsPool(pools[n])
  BY DEF ShareInv, LinkTypes, ClusterInv, NodeInv
<1>2. UNCHANGED <<conns, snapshot, chan, outbox, seen>>
  BY DEF PruneExpired, Renew
<1>3. /\ own' = [k \in Nodes |-> own'[k]] /\ mine' = [k \in Nodes |-> mine'[k]]
      /\ \A k \in Nodes : mine'[k] \subseteq mine[k]
      /\ \A k \in Nodes : k # n => UNCHANGED <<pools[k], own[k], mine[k]>>
      /\ own'[n] \subseteq DOMAIN pools'[n].realToFake
      /\ mine'[n] \subseteq GetAllMappings(pools'[n])
  <2>1. CASE PruneExpired(n)
    BY <1>1, <2>1, Zenon DEF PruneExpired
  <2>2. ASSUME NEW r \in Reals, Renew(n, r)
        PROVE  <1>3!:
    <3>1. /\ pools'[n] = [pools[n] EXCEPT !.expiries = Put(pools[n].expiries, r, clock + TTL)]
          /\ \A k \in Nodes : k # n => pools'[k] = pools[k]
          /\ own' = [own EXCEPT ![n] = @ \ {r}] /\ mine' = mine
      BY <1>1, <2>2 DEF Renew
    <3>2. /\ pools'[n].realToFake = pools[n].realToFake
          /\ pools'[n].globalFakeToReal = pools[n].globalFakeToReal
          /\ pools'[n].globalVersions = pools[n].globalVersions
      BY <1>1, <3>1 DEF IsPool
    <3>3. GetAllMappings(pools'[n]) = GetAllMappings(pools[n])
      BY <3>2 DEF GetAllMappings, Leased
    <3> QED  BY <1>1, <3>1, <3>2, <3>3, Zenon DEF HeldInv
  <2> QED  BY <2>1, <2>2
<1>4. LinkTypes'
  BY <1>2, <1>3 DEF ShareInv, LinkTypes
<1>5. ASSUME NEW k \in Nodes PROVE HeldInv(k)'
  <2>1. HeldInv(k)
    BY DEF ShareInv
  <2>2. CASE k = n
    BY <1>2, <1>3, <2>1, <2>2 DEF HeldInv
  <2>3. CASE k # n
    BY <1>2, <1>3, <2>1, <2>3 DEF HeldInv
  <2> QED  BY <2>2, <2>3
<1>6. OfferInv'
  BY <1>2, <1>3, QuietOffers DEF ShareInv
<1> QED  BY <1>4, <1>5, <1>6 DEF ShareInv

\* A step that leaves the pools alone keeps what is held.
LEMMA HeldStays ==
  ASSUME ShareInv, UNCHANGED <<pools, own, mine, seen>>,
         \A n \in Nodes : outbox'[n] \subseteq outbox[n]
  PROVE  \A n \in Nodes : HeldInv(n)'
  BY DEF ShareInv, HeldInv

\* A broadcast moves a mapping from the outbox into the channels.
LEMMA BroadcastShares ==
  ASSUME ClusterInv, ShareInv, NEW n \in Nodes, NEW k, Broadcast(n, k)
  PROVE  ShareInv'
<1>1. /\ k \in outbox[n] /\ outbox' = [outbox EXCEPT ![n] = @ \ {k}]
      /\ chan' = [e \in Pairs |-> IF e[1] = n /\ e[2] \in conns[n]
                                  THEN Append(chan[e], {k}) ELSE chan[e]]
      /\ UNCHANGED <<pools, own, mine, seen, conns, snapshot>>
  BY DEF Broadcast
<1>2. {k} \in Batch
  <2>1. k \in Mapping
    BY <1>1 DEF ShareInv, HeldInv, ClusterInv, NodeInv
  <2> QED  BY <2>1 DEF Batch, Batches
<1>3. /\ \A i \in Nodes : outbox'[i] \subseteq outbox[i] /\ outbox[i] \subseteq outbox'[i] \cup {k}
      /\ \A i \in Nodes : i # n => outbox'[i] = outbox[i]
  BY <1>1 DEF ClusterInv
<1>4. ASSUME NEW e \in Pairs
      PROVE  /\ chan'[e] \in Seq(Batch) /\ InFlight(chan[e]) \subseteq InFlight(chan'[e])
             /\ e[1] = n /\ e[2] \in conns[n] => k \in InFlight(chan'[e])
  <2>1. chan[e] \in Seq(Batch)
    BY DEF ShareInv, LinkTypes
  <2>2. CASE e[1] = n /\ e[2] \in conns[n]
    <3>1. chan'[e] = Append(chan[e], {k})
      BY <1>1, <2>2
    <3>2. /\ Append(chan[e], {k}) \in Seq(Batch)
          /\ InFlight(chan[e]) \cup {k} \subseteq InFlight(Append(chan[e], {k}))
      BY <1>2, <2>1, Written, Zenon DEF Batch
    <3> QED  BY <3>1, <3>2, Zenon
  <2>3. CASE ~(e[1] = n /\ e[2] \in conns[n])
    <3>1. chan'[e] = chan[e]
      BY <1>1, <2>3
    <3> QED  BY <2>1, <2>3, <3>1
  <2> QED  BY <2>2, <2>3
<1>5. LinkTypes'
  <2>1. chan' = [e \in Pairs |-> chan'[e]]
    BY <1>1
  <2> QED  BY <1>1, <1>4, <2>1, Zenon DEF ShareInv, LinkTypes
<1>6. OfferInv'
  <2> SUFFICES ASSUME NEW i \in Nodes, NEW j \in Nodes, i # j, j \in conns'[i],
                      j \notin snapshot'[i]
               PROVE  mine'[i] \subseteq outbox'[i] \cup seen'[j] \cup InFlight(chan'[<<i, j>>])
    BY DEF OfferInv, Offered
  <2>1. mine[i] \subseteq outbox[i] \cup seen[j] \cup InFlight(chan[<<i, j>>])
    BY <1>1 DEF ShareInv, OfferInv, Offered
  <2>2. PICK e \in Pairs : e = <<i, j>> /\ e[1] = i /\ e[2] = j
    <3>1. <<i, j>>[1] = i /\ <<i, j>>[2] = j /\ <<i, j>> \in Pairs
      BY DEF Pairs
    <3> QED  BY <3>1
  <2>3. InFlight(chan[e]) \subseteq InFlight(chan'[e])
    BY <1>4
  <2>4. CASE i = n
    <3>1. k \in InFlight(chan'[e])
      BY <1>1, <1>4, <2>2, <2>4, Zenon
    <3> QED  BY <1>1, <1>3, <2>1, <2>2, <2>3, <3>1, Zenon
  <2>5. CASE i # n
    BY <1>1, <1>3, <2>1, <2>2, <2>3, <2>5
  <2> QED  BY <2>4, <2>5
<1> QED  BY <1>1, <1>3, <1>5, <1>6, HeldStays DEF ShareInv

\* A connection that is registered owes its peer everything; what is then sent
\* includes all that the node allocated and holds.
LEMMA ConnectShares ==
  ASSUME ClusterInv, ShareInv, NEW n \in Nodes, NEW m \in Nodes, n # m,
         Register(n, m) \/ SendAllMappings(n, m)
  PROVE  ShareInv'
<1>1. UNCHANGED <<pools, own, mine, seen, outbox>>
  BY DEF Register, SendAllMappings
<1>2. <<n, m>> \in Pairs /\ chan[<<n, m>>] \in Seq(Batch)
  BY DEF Pairs, ShareInv, LinkTypes
<1>3. /\ conns \in [Nodes -> SUBSET Nodes] /\ snapshot \in [Nodes -> SUBSET Nodes]
      /\ chan = [e \in Pairs |-> chan[e]] /\ \A e \in Pairs : chan[e] \in Seq(Batch)
  BY DEF ShareInv, LinkTypes
<1>4. CASE Register(n, m)
  <2>1. /\ conns' = [conns EXCEPT ![n] = @ \cup {m}]
        /\ snapshot' = [snapshot EXCEPT ![n] = @ \cup {m}] /\ chan' = chan
    BY <1>4 DEF Register
  <2>2. LinkTypes'
    BY <1>1, <1>3, <2>1 DEF ShareInv, LinkTypes
  <2>3. OfferInv'
    <3> SUFFICES ASSUME NEW i \in Nodes, NEW j \in Nodes, i # j, Offered(i, j)
                 PROVE  Offered(i, j)'
      BY DEF OfferInv, ShareInv
    <3>1. CASE i = n /\ j = m
      BY <1>3, <2>1, <3>1 DEF Offered
    <3>2. CASE ~(i = n /\ j = m)
      BY <1>1, <1>3, <2>1, <3>2, Zenon DEF Offered
    <3> QED  BY <3>1, <3>2
  <2> QED  BY <1>1, <2>2, <2>3, HeldStays DEF ShareInv
<1>5. CASE SendAllMappings(n, m)
  <2> DEFINE all == GetAllMappings(pools[n])
  <2>1. /\ snapshot' = [snapshot EXCEPT ![n] = @ \ {m}] /\ conns' = conns
        /\ chan' = IF all = {} THEN chan ELSE [chan EXCEPT ![<<n, m>>] = Append(@, all)]
    BY <1>5 DEF SendAllMappings
  <2>2. all \subseteq Mapping /\ mine[n] \subseteq all
    BY AllAreMappings DEF ClusterInv, NodeInv, ShareInv, HeldInv
  <2> HIDE DEF all
  <2>3. /\ chan' = [e \in Pairs |-> chan'[e]]
        /\ \A e \in Pairs : e # <<n, m>> => chan'[e] = chan[e]
        /\ chan'[<<n, m>>] \in Seq(Batch)
        /\ mine[n] \subseteq InFlight(chan'[<<n, m>>])
    <3>1. CASE all = {}
      BY <1>2, <1>3, <2>1, <2>2, <3>1
    <3>2. CASE all # {}
      <4>1. all \in Batch
        BY <2>2, <3>2 DEF Batch, Batches
      <4>2. chan'[<<n, m>>] = Append(chan[<<n, m>>], all)
        BY <1>2, <1>3, <2>1, <3>2
      <4>3. chan'[<<n, m>>] \in Seq(Batch) /\ all \subseteq InFlight(chan'[<<n, m>>])
        BY <1>2, <4>1, <4>2, Written DEF Batch
      <4>4. /\ chan' = [e \in Pairs |-> chan'[e]]
            /\ \A e \in Pairs : e # <<n, m>> => chan'[e] = chan[e]
        BY <1>3, <2>1, <3>2, Zenon
      <4> QED  BY <2>2, <4>3, <4>4
    <3> QED  BY <3>1, <3>2
  <2>4. LinkTypes'
    <3>1. \A e \in Pairs : chan'[e] \in Seq(Batch)
      BY <1>3, <2>3, Zenon
    <3>2. snapshot' \in [Nodes -> SUBSET Nodes]
      BY <1>3, <2>1
    <3> QED  BY <1>1, <2>1, <2>3, <3>1, <3>2, Zenon DEF ShareInv, LinkTypes
  <2>5. OfferInv'
    <3> SUFFICES ASSUME NEW i \in Nodes, NEW j \in Nodes, i # j, Offered(i, j)
                 PROVE  Offered(i, j)'
      BY DEF OfferInv, ShareInv
    <3>1. CASE i = n /\ j = m
      BY <1>1, <2>3, <3>1, Zenon DEF Offered
    <3>2. CASE ~(i = n /\ j = m)
      <4>1. <<i, j>> \in Pairs /\ <<i, j>> # <<n, m>>
        BY <3>2 DEF Pairs
      <4>2. chan'[<<i, j>>] = chan[<<i, j>>]
        BY <2>3, <4>1
      <4>3. j \in snapshot[i] => j \in snapshot'[i]
        BY <1>3, <2>1, <3>2
      <4> QED  BY <1>1, <2>1, <4>2, <4>3 DEF Offered
    <3> QED  BY <3>1, <3>2
  <2> QED  BY <1>1, <2>4, <2>5, HeldStays DEF ShareInv
<1> QED  BY <1>4, <1>5

\* A connection that is lost owes nothing; the others stay as they are.
LEMMA DisconnectShares ==
  ASSUME ClusterInv, ShareInv, NEW n \in Nodes, NEW m \in Nodes, n # m, Disconnect(n, m)
  PROVE  ShareInv'
<1>1. /\ UNCHANGED <<pools, own, mine, seen, outbox>>
      /\ conns' = [conns EXCEPT ![n] = @ \ {m}, ![m] = @ \ {n}]
      /\ snapshot' = [snapshot EXCEPT ![n] = @ \ {m}, ![m] = @ \ {n}]
      /\ chan' = [chan EXCEPT ![<<n, m>>] = <<>>, ![<<m, n>>] = <<>>]
  BY DEF Disconnect
<1>2. /\ conns \in [Nodes -> SUBSET Nodes] /\ snapshot \in [Nodes -> SUBSET Nodes]
      /\ chan = [e \in Pairs |-> chan[e]] /\ \A e \in Pairs : chan[e] \in Seq(Batch)
  BY DEF ShareInv, LinkTypes
<1>3. <<>> \in Seq(Batch)
  OBVIOUS
<1>4. conns' \in [Nodes -> SUBSET Nodes] /\ snapshot' \in [Nodes -> SUBSET Nodes]
  BY <1>1, <1>2, Zenon
<1>5. /\ chan' = [e \in Pairs |-> chan'[e]]
      /\ \A e \in Pairs : chan'[e] = chan[e] \/ chan'[e] = <<>>
      /\ \A e \in Pairs : e # <<n, m>> /\ e # <<m, n>> => chan'[e] = chan[e]
  BY <1>1, <1>2, Zenon
<1>6. LinkTypes'
  <2>1. \A e \in Pairs : chan'[e] \in Seq(Batch)
    BY <1>2, <1>3, <1>5, ZenonT(30)
  <2> QED  BY <1>1, <1>4, <1>5, <2>1, Zenon DEF ShareInv, LinkTypes
<1>7. OfferInv'
  <2> SUFFICES ASSUME NEW i \in Nodes, NEW j \in Nodes, i # j, Offered(i, j), j \in conns'[i]
               PROVE  Offered(i, j)'
    BY DEF OfferInv, ShareInv, Offered
  <2>1. j \in conns[i] /\ ~(i = n /\ j = m) /\ ~(i = m /\ j = n)
    BY <1>1, <1>2
  <2>2. <<i, j>> \in Pairs /\ <<i, j>> # <<n, m>> /\ <<i, j>> # <<m, n>>
    BY <2>1 DEF Pairs
  <2>3. chan'[<<i, j>>] = chan[<<i, j>>]
    BY <1>5, <2>2
  <2>4. j \in snapshot[i] => j \in snapshot'[i]
    BY <1>1, <1>2, <2>1
  <2> QED  BY <1>1, <2>1, <2>3, <2>4 DEF Offered
<1> QED  BY <1>1, <1>6, <1>7, HeldStays DEF ShareInv

\* A delivery moves a mapping from the channel to what the node has seen.
LEMMA DeliverShares ==
  ASSUME ClusterInv, ShareInv, NEW s \in Nodes, NEW n \in Nodes, s # n, NEW m,
         Deliver(s, n, m)
  PROVE  ShareInv'
<1>1. /\ chan[<<s, n>>] # <<>> /\ m \in Head(chan[<<s, n>>])
      /\ chan' = [chan EXCEPT ![<<s, n>>] = Rest(@, m)]
      /\ seen' = [seen EXCEPT ![n] = @ \cup {m}]
      /\ UNCHANGED <<outbox, conns, snapshot>>
  BY DEF Deliver, Take, Rest
<1>2. /\ own = [k \in Nodes |-> own[k]] /\ mine = [k \in Nodes |-> mine[k]]
      /\ chan = [e \in Pairs |-> chan[e]] /\ \A e \in Pairs : chan[e] \in Seq(Batch)
  BY DEF ShareInv, LinkTypes
<1>3. <<s, n>> \in Pairs /\ pools = [k \in Nodes |-> pools[k]] /\ seen = [k \in Nodes |-> seen[k]]
  BY DEF Pairs, ClusterInv
<1>4. HeldInv(n)
  BY DEF ShareInv
<1>5. /\ own' = [k \in Nodes |-> own'[k]] /\ mine' = [k \in Nodes |-> mine'[k]]
      /\ \A k \in Nodes : mine'[k] \subseteq mine[k]
      /\ \A k \in Nodes : k # n => UNCHANGED <<pools[k], own[k], mine[k]>>
      /\ own'[n] \subseteq DOMAIN pools'[n].realToFake
      /\ mine'[n] \subseteq GetAllMappings(pools'[n])
  <2>1. CASE GetVersion(pools[n], m.fake) > m.version
    <3>1. UNCHANGED <<pools, own, mine>>
      BY <2>1 DEF Deliver
    <3> QED  BY <1>2, <1>4, <3>1 DEF HeldInv
  <2>2. CASE ~(GetVersion(pools[n], m.fake) > m.version)
    <3> DEFINE p == AddMapping(pools[n], m.real, m.fake, m.version, clock + TTL)
               o == IF Refused(pools[n], m.real, m.fake, m.version) THEN own[n]
                    ELSE own[n] \ ({m.real} \cup Lookup(pools[n].globalFakeToReal, m.fake))
    <3>1. /\ pools' = [pools EXCEPT ![n] = p] /\ own' = [own EXCEPT ![n] = o]
          /\ mine' = [mine EXCEPT ![n] = @ \cap GetAllMappings(pools'[n])]
      BY <2>2 DEF Deliver
    <3>2. o \subseteq DOMAIN p.realToFake
      <4>1. CASE Refused(pools[n], m.real, m.fake, m.version)
        BY <1>4, <4>1 DEF AddMapping, HeldInv
      <4>2. CASE ~Refused(pools[n], m.real, m.fake, m.version)
        BY <1>4, <4>2, Zenon DEF AddMapping, HeldInv, Install, Drop, Put, Delete
      <4> QED  BY <4>1, <4>2
    <3> HIDE DEF p, o
    <3> QED  BY <1>2, <1>3, <3>1, <3>2, ZenonT(30)
  <2> QED  BY <2>1, <2>2
<1>6. /\ \A k \in Nodes : seen[k] \subseteq seen'[k]
      /\ m \in seen'[n]
  BY <1>1, <1>3
<1>7. /\ chan' = [e \in Pairs |-> chan'[e]]
      /\ \A e \in Pairs : e # <<s, n>> => chan'[e] = chan[e]
      /\ chan'[<<s, n>>] = Rest(chan[<<s, n>>], m)
  BY <1>1, <1>2, <1>3, Zenon
<1>8. /\ Rest(chan[<<s, n>>], m) \in Seq(Batch)
      /\ InFlight(chan[<<s, n>>]) \subseteq InFlight(Rest(chan[<<s, n>>], m)) \cup {m}
  BY <1>1, <1>2, <1>3, Taken, Zenon DEF Batch
<1>9. LinkTypes'
  <2>1. \A e \in Pairs : chan'[e] \in Seq(Batch)
    BY <1>2, <1>7, <1>8, Zenon
  <2> QED  BY <1>1, <1>5, <1>7, <2>1, Zenon DEF ShareInv, LinkTypes
<1>10. ASSUME NEW k \in Nodes PROVE HeldInv(k)'
  <2>1. HeldInv(k)
    BY DEF ShareInv
  <2>2. CASE k = n
    BY <1>1, <1>5, <1>6, <2>1, <2>2 DEF HeldInv
  <2>3. CASE k # n
    BY <1>1, <1>5, <1>6, <2>1, <2>3 DEF HeldInv
  <2> QED  BY <2>2, <2>3
<1>11. OfferInv'
  <2> SUFFICES ASSUME NEW i \in Nodes, NEW j \in Nodes, i # j, j \in conns'[i],
                      j \notin snapshot'[i]
               PROVE  mine'[i] \subseteq outbox'[i] \cup seen'[j] \cup InFlight(chan'[<<i, j>>])
    BY DEF OfferInv, Offered
  <2>1. mine[i] \subseteq outbox[i] \cup seen[j] \cup InFlight(chan[<<i, j>>])
    BY <1>1 DEF ShareInv, OfferInv, Offered
  <2>2. InFlight(chan[<<i, j>>]) \subseteq InFlight(chan'[<<i, j>>]) \cup seen'[j]
    <3>1. <<i, j>> \in Pairs
      BY DEF Pairs
    <3>2. CASE <<i, j>> = <<s, n>>
      BY <1>6, <1>7, <1>8, <3>2
    <3>3. CASE <<i, j>> # <<s, n>>
      BY <1>7, <3>1, <3>3
    <3> QED  BY <3>2, <3>3
  <2> QED  BY <1>1, <1>5, <1>6, <2>1, <2>2
<1> QED  BY <1>9, <1>10, <1>11 DEF ShareInv

\* Every step of the cluster keeps what is held and offered.
LEMMA NextShares == ClusterInv /\ ShareInv /\ [Next]_vars => ShareInv'
<1> SUFFICES ASSUME ClusterInv, ShareInv, [Next]_vars PROVE ShareInv'
  OBVIOUS
<1>1. ASSUME NEW n \in Nodes, NEW r \in Reals, Allocate(n, r) PROVE ShareInv'
  BY <1>1, AllocateShares
<1>2. ASSUME NEW n \in Nodes, PruneExpired(n) \/ \E r \in Reals : Renew(n, r) PROVE ShareInv'
  BY <1>2, LeaseStepsShare
<1>3. ASSUME NEW n \in Nodes, NEW m, Broadcast(n, m) PROVE ShareInv'
  BY <1>3, BroadcastShares
<1>4. ASSUME NEW e \in Pairs,
             \/ Register(e[1], e[2]) \/ SendAllMappings(e[1], e[2])
             \/ \E m \in seen[e[1]] : Deliver(e[1], e[2], m)
             \/ Disconnect(e[1], e[2])
      PROVE  ShareInv'
  <2>1. e[1] \in Nodes /\ e[2] \in Nodes /\ e[1] # e[2]
    BY DEF Pairs
  <2> QED  BY <1>4, <2>1, ConnectShares, DeliverShares, DisconnectShares
<1>5. CASE UNCHANGED <<conns, snapshot, own, mine, chan, pools, seen, outbox>>
  BY <1>5 DEF ShareInv, LinkTypes, HeldInv, OfferInv, Offered
<1>6. CASE Tick \/ UNCHANGED vars
  BY <1>5, <1>6 DEF Tick, vars
<1> QED  BY <1>1, <1>2, <1>3, <1>4, <1>6 DEF Next

\* A cluster that starts holds nothing and has sent nothing.
LEMMA InitShares == Init => ShareInv
<1> SUFFICES ASSUME Init PROVE ShareInv
  OBVIOUS
<1>1. <<>> \in Seq(Batch)
  OBVIOUS
<1>2. LinkTypes
  BY <1>1 DEF Init, LinkTypes
<1>3. \A n \in Nodes : HeldInv(n)
  BY DEF Init, HeldInv
<1>4. OfferInv
  BY DEF Init, OfferInv, Offered
<1> QED  BY <1>2, <1>3, <1>4 DEF ShareInv

\* The bounds and the choices that are made once.
BoundInv ==
  /\ hash \in Hashes /\ skew \in Skews /\ clock \in 0 .. MaxClock
  /\ allocs \in 0 .. MaxAllocs /\ drops \in 0 .. MaxDrops

\* Every step stays within the bounds.
LEMMA NextBounds == BoundInv /\ [Next]_vars => BoundInv'
<1> SUFFICES ASSUME BoundInv, [Next]_vars PROVE BoundInv'
  OBVIOUS
<1>0. {MaxAllocs, MaxDrops, MaxClock} \subseteq Nat
  BY ReplicationAssumption
<1>1. ASSUME NEW n \in Nodes, NEW r \in Reals, Allocate(n, r) PROVE BoundInv'
  <2>1. UNCHANGED <<hash, skew, clock, drops>> /\ allocs < MaxAllocs /\ allocs' = allocs + 1
    BY <1>1 DEF Allocate
  <2> QED  BY <1>0, <2>1 DEF BoundInv
<1>2. ASSUME NEW n \in Nodes, NEW m \in Nodes, Disconnect(n, m) PROVE BoundInv'
  <2>1. UNCHANGED <<hash, skew, clock, allocs>> /\ drops < MaxDrops /\ drops' = drops + 1
    BY <1>2 DEF Disconnect
  <2> QED  BY <1>0, <2>1 DEF BoundInv
<1>3. ASSUME Tick PROVE BoundInv'
  <2>1. UNCHANGED <<hash, skew, drops, allocs>> /\ clock < MaxClock /\ clock' = clock + 1
    BY <1>3 DEF Tick
  <2> QED  BY <1>0, <2>1 DEF BoundInv
<1>4. ASSUME UNCHANGED <<hash, skew, clock, drops, allocs>> PROVE BoundInv'
  BY <1>4 DEF BoundInv
<1>5. ASSUME NEW n \in Nodes, PruneExpired(n) \/ \E r \in Reals : Renew(n, r)
      PROVE  UNCHANGED <<hash, skew, clock, drops, allocs>>
  BY <1>5 DEF PruneExpired, Renew
<1>6. ASSUME NEW n, NEW m, Broadcast(n, m) \/ Register(n, m) \/ SendAllMappings(n, m)
      PROVE  UNCHANGED <<hash, skew, clock, drops, allocs>>
  BY <1>6 DEF Broadcast, Register, SendAllMappings
<1>7. ASSUME NEW s, NEW n, NEW m, Deliver(s, n, m)
      PROVE  UNCHANGED <<hash, skew, clock, drops, allocs>>
  BY <1>7 DEF Deliver, Take
<1> QED  BY <1>1, <1>2, <1>3, <1>4, <1>5, <1>6, <1>7 DEF Next, Pairs, vars

\* At rest, what a node allocated and holds has been seen by every node.
LEMMA OfferedAtRest ==
  ASSUME ShareInv, Quiescent, NEW n \in Nodes, NEW m \in Nodes
  PROVE  mine[n] \subseteq seen[m]
<1>1. CASE n = m
  BY <1>1 DEF ShareInv, HeldInv
<1>2. CASE n # m
  <2>1. PICK e \in Pairs : e = <<n, m>> /\ e[1] = n /\ e[2] = m
    <3>1. <<n, m>>[1] = n /\ <<n, m>>[2] = m /\ <<n, m>> \in Pairs
      BY <1>2 DEF Pairs
    <3> QED  BY <3>1
  <2>2. /\ m \in conns[n] /\ snapshot[n] = {} /\ outbox[n] = {} /\ chan[<<n, m>>] = <<>>
    BY <2>1 DEF Quiescent, Settled
  <2>3. InFlight(<<>>) = {}
    BY DEF InFlight
  <2>4. mine[n] \subseteq outbox[n] \cup seen[m] \cup InFlight(chan[<<n, m>>])
    BY <1>2, <2>2 DEF ShareInv, OfferInv, Offered
  <2> QED  BY <2>2, <2>3, <2>4
<1> QED  BY <1>1, <1>2

\* In a cluster of any size, at rest, every mapping that a node allocated and
\* still holds has been offered to every other node, wherever a connection was
\* lost or registered: handleConnection registers a connection before it takes
\* the snapshot.
THEOREM NothingMissedCorrect == Spec => []NothingMissed
<1> DEFINE IInv == ClusterInv /\ ShareInv /\ BoundInv
<1>1. Init => IInv
  <2>1. Init => BoundInv
    BY ReplicationAssumption DEF Init, BoundInv
  <2> QED  BY <2>1, InitCluster, InitShares
<1>2. IInv /\ [Next]_vars => IInv'
  BY NextCluster, NextShares, NextBounds
<1>3. IInv => NothingMissed
  <2> SUFFICES ASSUME ClusterInv, ShareInv, BoundInv PROVE NothingMissed
    OBVIOUS
  <2>1. \A e \in Pairs : \A i \in DOMAIN chan[e] : chan[e][i] \in Batch
    <3> SUFFICES ASSUME NEW e \in Pairs, NEW i \in DOMAIN chan[e] PROVE chan[e][i] \in Batch
      OBVIOUS
    <3>1. chan[e] \in Seq(Batch)
      BY DEF ShareInv, LinkTypes
    <3> QED  BY <3>1, Message DEF Batch
  <2>2. hlc \in [Nodes -> Nat]
    BY DEF ClusterInv, NodeInv
  <2>3. \A n \in Nodes : /\ IsPool(pools[n]) /\ seen[n] \subseteq Mapping
                         /\ outbox[n] \subseteq Mapping
    BY DEF ClusterInv, NodeInv, ShareInv, HeldInv
  <2>4. TypeOK
    BY <2>1, <2>2, <2>3 DEF TypeOK, BoundInv, ShareInv, LinkTypes, HeldInv, Batch, Batches
  <2>5. Quiescent => \A n, m \in Nodes : mine[n] \subseteq seen[m]
    BY OfferedAtRest
  <2> QED  BY <2>4, <2>5 DEF NothingMissed
<1> HIDE DEF IInv
<1> QED  BY <1>1, <1>2, <1>3, PTL DEF Spec

=============================================================================

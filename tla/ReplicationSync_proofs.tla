----------------------- MODULE ReplicationSync_proofs -----------------------
(***************************************************************************)
(* Proof of InSyncWithoutCollisions.  Until a lease can end, and without   *)
(* collisions, every real address has its natural fake on every node, so   *)
(* that the versions of a fake only grow; and the mapping with the latest  *)
(* version is held by the node that allocated it, whose duty it is to send *)
(* it to all others.                                                       *)
(***************************************************************************)
EXTENDS Replication_proofs, WellFoundedInduction

-----------------------------------------------------------------------------
(* Numbers *)

\* A set of naturals that is not empty has a least element.
LEMMA LeastOf ==
  ASSUME NEW T \in SUBSET Nat, T # {}
  PROVE  \E i \in T : \A j \in T : i <= j
<1> DEFINE R == OpToRel(<, Nat)
<1>1. IsWellFoundedOn(R, Nat)
  BY NatLessThanWellFounded, Zenon
<1>2. \A x, y \in Nat : <<x, y>> \in R <=> x < y
  BY DEF OpToRel
<1> HIDE DEF R
<1>3. PICK i \in T : \A j \in T : ~(<<j, i>> \in R)
  BY <1>1, WFMin, Zenon
<1>4. \A j \in T : ~(j < i)
  BY <1>2, <1>3, Zenon
<1>5. \A j \in T : i <= j
  BY <1>4
<1> QED  BY <1>5

\* A set of naturals that is not empty and has a bound has a greatest element.
LEMMA GreatestOf ==
  ASSUME NEW T \in SUBSET Nat, T # {}, NEW b \in Nat, \A i \in T : i <= b
  PROVE  \E i \in T : \A j \in T : j <= i
<1> DEFINE U == {b - i : i \in T}
<1>1. U \in SUBSET Nat /\ U # {}
  <2>1. \A i \in T : b - i \in Nat
    OBVIOUS
  <2> QED  BY <2>1, Zenon
<1> HIDE DEF U
<1>2. PICK u \in U : \A w \in U : u <= w
  BY <1>1, LeastOf
<1>3. PICK i \in T : u = b - i
  BY DEF U
<1>4. ASSUME NEW j \in T PROVE j <= i
  <2>1. b - i <= b - j
    BY <1>2, <1>3, Zenon DEF U
  <2>2. i \in Nat /\ j \in Nat
    OBVIOUS
  <2> QED  BY <2>1, <2>2
<1> QED  BY <1>4

-----------------------------------------------------------------------------
(* Without collisions *)

\* The fake that a real address gets when no other has taken it.
Natural(r) == ComputeLevel1Hash(Geo, hash[r])

\* The pool has a later version than k's for k's fake.
Newer(p, k) == k.fake \in DOMAIN p.globalVersions /\ k.version < p.globalVersions[k.fake]

\* What the pool holds the node has seen, and of all it has seen of a real
\* address it holds the latest version, under the natural fake and with a full
\* lease.
Latest(p, S) ==
  /\ GetAllMappings(p) \subseteq S
  /\ \A k \in S :
        /\ k.real \in Reals /\ k.fake = Natural(k.real)
        /\ k.fake \in DOMAIN p.globalVersions /\ k.version <= p.globalVersions[k.fake]
  /\ \A r \in DOMAIN p.expiries : TTL <= p.expiries[r]

\* So it is at every node.
LatestInv == \A n \in Nodes : Latest(pools[n], seen[n])

\* Every mapping is still held by the node that allocated it, unless that node
\* has a later one.
OriginInv ==
  \A n \in Nodes : \A k \in seen[n] : \E x \in Nodes : k \in mine[x] \/ Newer(pools[x], k)

\* Until the first lease can end, if no two addresses hash to the same fake.
SyncInv ==
  NaturalsDiffer /\ clock < TTL => LatestInv /\ OriginInv

\* Some number is above all versions.
VersionsInv ==
  \E b \in Nat : \A n \in Nodes : \A k \in seen[n] : k.version <= b

\* Of what it has seen a node holds the mapping itself or a later one.
LEMMA HeldOrNewer ==
  ASSUME NaturalsDiffer, NEW p, IsPool(p), Mirror(p), NEW S \in SUBSET Mapping,
         Latest(p, S), NEW k \in S
  PROVE  k \in GetAllMappings(p) \/ Newer(p, k)
<1> DEFINE h == [fake |-> k.fake, real |-> p.globalFakeToReal[k.fake],
                 version |-> p.globalVersions[k.fake]]
<1>1. /\ k.real \in Reals /\ k.fake = Natural(k.real)
      /\ k.fake \in DOMAIN p.globalVersions /\ k.version <= p.globalVersions[k.fake]
  BY DEF Latest
<1>2. /\ k \in Mapping /\ DOMAIN p.globalVersions = DOMAIN p.globalFakeToReal
      /\ \A f \in DOMAIN p.globalVersions : p.globalVersions[f] \in Nat
  BY DEF Mirror, IsPool, IsMap
<1>3. h \in GetAllMappings(p)
  BY <1>1, <1>2 DEF GetAllMappings, Leased
<1>4. h \in S
  BY <1>3 DEF Latest
<1>5. h.real \in Reals /\ h.fake = Natural(h.real)
  BY <1>4 DEF Latest
<1>6. h.real = k.real
  <2>1. h.fake = k.fake
    OBVIOUS
  <2>2. \A a, b \in Reals : Natural(a) = Natural(b) => a = b
    BY DEF NaturalsDiffer, Natural
  <2> HIDE DEF h
  <2> QED  BY <1>1, <1>5, <2>1, <2>2, Zenon
<1>7. CASE k.version = p.globalVersions[k.fake]
  <2>1. k = [fake |-> k.fake, real |-> k.real, version |-> k.version]
    BY <1>2 DEF Mapping
  <2>2. h = [fake |-> k.fake, real |-> k.real, version |-> k.version]
    BY <1>6, <1>7
  <2> QED  BY <1>3, <2>1, <2>2
<1>8. CASE k.version < p.globalVersions[k.fake]
  BY <1>1, <1>8 DEF Newer
<1>9. k.version \in Nat /\ p.globalVersions[k.fake] \in Nat
  BY <1>1, <1>2 DEF Mapping
<1> QED  BY <1>1, <1>7, <1>8, <1>9

\* At rest all nodes hold the same mappings.
LEMMA InSyncAtRest ==
  ASSUME ClusterInv, SyncInv, VersionsInv, NaturalsDiffer, clock < TTL,
         \A i, j \in Nodes : mine[i] \subseteq seen[j],
         NEW n \in Nodes, NEW m \in Nodes
  PROVE  GetAllMappings(pools[n]) \subseteq GetAllMappings(pools[m])
<1> SUFFICES ASSUME NEW k \in GetAllMappings(pools[n]) PROVE k \in GetAllMappings(pools[m])
  OBVIOUS
<1>1. LatestInv /\ OriginInv
  BY DEF SyncInv
<1> DEFINE f == k.fake
           T == {pools[x].globalVersions[f] :
                   x \in {y \in Nodes : f \in DOMAIN pools[y].globalVersions}}
<1>2. k \in seen[n]
  BY <1>1 DEF LatestInv, Latest
<1>3. \A x \in Nodes : /\ DOMAIN pools[x].globalVersions = DOMAIN pools[x].globalFakeToReal
                       /\ \A a \in DOMAIN pools[x].globalVersions :
                             pools[x].globalVersions[a] \in Nat
  BY Zenon DEF ClusterInv, NodeInv, Mirror, IsPool, IsMap
<1>4. ASSUME NEW x \in Nodes, f \in DOMAIN pools[x].globalVersions
      PROVE  [fake |-> f, real |-> pools[x].globalFakeToReal[f],
              version |-> pools[x].globalVersions[f]] \in seen[x]
  BY <1>1, <1>3, <1>4 DEF LatestInv, Latest, GetAllMappings, Leased
<1>5. PICK i \in T : \A j \in T : j <= i
  <2>1. PICK b \in Nat : \A x \in Nodes : \A a \in seen[x] : a.version <= b
    BY DEF VersionsInv
  <2>2. T \in SUBSET Nat /\ T # {}
    BY <1>1, <1>2, <1>3 DEF LatestInv, Latest
  <2>3. \A i \in T : i <= b
    BY <1>4, <2>1, Zenon
  <2> HIDE DEF T
  <2> QED  BY <2>2, <2>3, GreatestOf, Zenon
<1>6. PICK y \in Nodes : f \in DOMAIN pools[y].globalVersions /\ pools[y].globalVersions[f] = i
  OBVIOUS
<1> DEFINE w == [fake |-> f, real |-> pools[y].globalFakeToReal[f], version |-> i]
<1>7. w \in seen[y] /\ w.fake = f /\ w.version = i
  BY <1>4, <1>6
<1> HIDE DEF w
<1>8. \A x \in Nodes : ~Newer(pools[x], w)
  <2> SUFFICES ASSUME NEW x \in Nodes, Newer(pools[x], w) PROVE FALSE
    OBVIOUS
  <2>1. f \in DOMAIN pools[x].globalVersions /\ i < pools[x].globalVersions[f]
    BY <1>7 DEF Newer
  <2>2. pools[x].globalVersions[f] <= i /\ pools[x].globalVersions[f] \in Nat /\ i \in Nat
    BY <1>3, <1>5, <1>6, <2>1
  <2> QED  BY <2>1, <2>2
<1>9. PICK x \in Nodes : w \in mine[x]
  BY <1>1, <1>7, <1>8 DEF OriginInv
<1>10. \A z \in Nodes : w \in GetAllMappings(pools[z])
  <2> SUFFICES ASSUME NEW z \in Nodes PROVE w \in GetAllMappings(pools[z])
    OBVIOUS
  <2>1. /\ w \in seen[z] /\ Latest(pools[z], seen[z]) /\ seen[z] \in SUBSET Mapping
        /\ IsPool(pools[z]) /\ Mirror(pools[z])
    BY <1>1, <1>9 DEF LatestInv, ClusterInv, NodeInv
  <2> QED  BY <1>8, <2>1, HeldOrNewer
<1>11. k = w
  <2>1. PICK a \in Leased(pools[n]) :
           w = [fake |-> a, real |-> pools[n].globalFakeToReal[a],
                version |-> pools[n].globalVersions[a]]
    BY <1>10 DEF GetAllMappings
  <2>2. PICK b \in Leased(pools[n]) :
           k = [fake |-> b, real |-> pools[n].globalFakeToReal[b],
                version |-> pools[n].globalVersions[b]]
    BY DEF GetAllMappings
  <2>3. a = w.fake /\ b = k.fake
    BY <2>1, <2>2
  <2> QED  BY <1>7, <2>1, <2>2, <2>3
<1> QED  BY <1>10, <1>11

-----------------------------------------------------------------------------
(* The steps *)

\* q has every fake of p, with a version that is not older.
Grows(p, q) ==
  \A f \in DOMAIN p.globalVersions :
     f \in DOMAIN q.globalVersions /\ p.globalVersions[f] <= q.globalVersions[f]

\* Every lease of such a pool is between a real address and its natural fake.
LEMMA NaturalLeases ==
  ASSUME NEW p, Mirror(p), NEW S, Latest(p, S)
  PROVE  /\ \A f \in DOMAIN p.globalFakeToReal :
               p.globalFakeToReal[f] \in Reals /\ f = Natural(p.globalFakeToReal[f])
         /\ \A r \in DOMAIN p.realToFake : p.realToFake[r] = Natural(r)
<1>1. ASSUME NEW f \in DOMAIN p.globalFakeToReal
      PROVE  p.globalFakeToReal[f] \in Reals /\ f = Natural(p.globalFakeToReal[f])
  <2> DEFINE h == [fake |-> f, real |-> p.globalFakeToReal[f],
                   version |-> p.globalVersions[f]]
  <2>1. h \in S
    BY DEF Latest, GetAllMappings, Leased
  <2>2. h.real \in Reals /\ h.fake = Natural(h.real)
    BY <2>1 DEF Latest
  <2>3. h.real = p.globalFakeToReal[f] /\ h.fake = f
    OBVIOUS
  <2> QED  BY <2>2, <2>3
<1> QED  BY <1>1 DEF Mirror

\* A mapping that is installed under the natural fake and is not older than
\* what the fake has leaves the pool with the latest of what has been seen.
LEMMA InstallLatest ==
  ASSUME NEW p, IsPool(p), Mirror(p), NEW S, Latest(p, S), NEW r \in Reals,
         NEW v \in Nat, NEW exp \in Nat, TTL <= exp,
         Natural(r) \in DOMAIN p.globalVersions => p.globalVersions[Natural(r)] <= v,
         S \subseteq Mapping
  PROVE  LET q == Install(p, r, Natural(r), v, exp)
             m == [fake |-> Natural(r), real |-> r, version |-> v]
         IN  Latest(q, S \cup {m}) /\ Grows(p, q)
<1> DEFINE f == Natural(r)
           q == Install(p, r, f, v, exp)
           m == [fake |-> f, real |-> r, version |-> v]
<1>1. /\ q.globalFakeToReal = Put(p.globalFakeToReal, f, r)
      /\ q.expiries = Put(p.expiries, r, exp)
      /\ q.globalVersions = Put(p.globalVersions, f, v)
  BY DEF Install
<1>2. m.fake = f /\ m.real = r /\ m.version = v /\ f = Natural(r)
  OBVIOUS
<1>3. /\ DOMAIN p.globalVersions = DOMAIN p.globalFakeToReal
      /\ \A g \in DOMAIN p.globalVersions : p.globalVersions[g] \in Nat
  BY DEF IsPool, IsMap, Mirror
<1>4. GetAllMappings(q) \subseteq S \cup {m}
  <2> SUFFICES ASSUME NEW g \in DOMAIN q.globalFakeToReal
               PROVE  [fake |-> g, real |-> q.globalFakeToReal[g],
                       version |-> q.globalVersions[g]] \in S \cup {m}
    BY DEF GetAllMappings, Leased
  <2>1. CASE g = f
    <3>1. q.globalFakeToReal[g] = r /\ q.globalVersions[g] = v
      BY <1>1, <2>1 DEF Put
    <3> QED  BY <2>1, <3>1
  <2>2. CASE g # f
    <3>1. /\ g \in DOMAIN p.globalFakeToReal
          /\ q.globalFakeToReal[g] = p.globalFakeToReal[g]
          /\ q.globalVersions[g] = p.globalVersions[g]
      BY <1>1, <1>3, <2>2 DEF Put
    <3> QED  BY <3>1 DEF Latest, GetAllMappings, Leased
  <2> QED  BY <2>1, <2>2
<1> HIDE DEF q, m, f
<1>5. Grows(p, q)
  BY <1>1, <1>2, <1>3 DEF Put, Grows
<1>6. ASSUME NEW k \in S \cup {m}
      PROVE  /\ k.real \in Reals /\ k.fake = Natural(k.real)
             /\ k.fake \in DOMAIN q.globalVersions /\ k.version <= q.globalVersions[k.fake]
  <2>1. CASE k = m
    BY <1>1, <1>2, <2>1 DEF Put
  <2>2. CASE k \in S
    <3>1. /\ k.real \in Reals /\ k.fake = Natural(k.real)
          /\ k.fake \in DOMAIN p.globalVersions /\ k.version <= p.globalVersions[k.fake]
          /\ k.version \in Nat
      BY <2>2 DEF Latest, Mapping
    <3>2. /\ k.fake \in DOMAIN q.globalVersions
          /\ p.globalVersions[k.fake] <= q.globalVersions[k.fake]
      BY <1>5, <3>1 DEF Grows
    <3>3. p.globalVersions[k.fake] \in Nat /\ q.globalVersions[k.fake] \in Nat
      BY <1>1, <1>3, <3>1 DEF Put
    <3> QED  BY <3>1, <3>2, <3>3
  <2> QED  BY <2>1, <2>2
<1>7. \A x \in DOMAIN q.expiries : TTL <= q.expiries[x]
  BY <1>1 DEF Latest, Put
<1> QED  BY <1>4, <1>5, <1>6, <1>7 DEF Latest, q, m, f

\* Deleting what is not there changes nothing.
LEMMA DropNothing ==
  ASSUME NEW p, IsPool(p), NEW reals, NEW fakes,
         reals \cap (DOMAIN p.realToFake \cup DOMAIN p.expiries) = {},
         fakes \cap (DOMAIN p.globalFakeToReal \cup DOMAIN p.globalVersions) = {}
  PROVE  /\ Drop(p, reals, fakes).realToFake = p.realToFake
         /\ Drop(p, reals, fakes).expiries = p.expiries
         /\ Drop(p, reals, fakes).globalFakeToReal = p.globalFakeToReal
         /\ Drop(p, reals, fakes).globalVersions = p.globalVersions
<1>1. \A m, D : m = [k \in DOMAIN m |-> m[k]] /\ D \cap DOMAIN m = {} => Delete(m, D) = m
  BY DEF Delete
<1>2. \A m \in {p.realToFake, p.expiries, p.globalFakeToReal, p.globalVersions} :
         m = [k \in DOMAIN m |-> m[k]]
  BY DEF IsPool, IsMap
<1> QED  BY <1>1, <1>2 DEF Drop

\* What a step may do: a pool keeps the latest versions and its versions grow,
\* a mapping that stays in the pool of its node stays that node's, and what is
\* new to a node was allocated by it or seen by another.
SyncStep ==
  \A x \in Nodes :
     /\ Latest(pools'[x], seen'[x]) /\ Grows(pools[x], pools'[x])
     /\ seen[x] \subseteq seen'[x]
     /\ mine[x] \cap GetAllMappings(pools'[x]) \subseteq mine'[x]
     /\ \A k \in seen'[x] : k \in mine'[x] \/ \E i \in Nodes : k \in seen[i]

\* Such a step loses no mapping: one that leaves the pool of its node gives way
\* to a later one.
LEMMA OriginKept ==
  ASSUME ClusterInv, ClusterInv', ShareInv, NaturalsDiffer, OriginInv, SyncStep,
         UNCHANGED hash
  PROVE  LatestInv' /\ OriginInv'
<1>1. LatestInv'
  BY DEF LatestInv, SyncStep, Latest, Natural
<1>2. ASSUME NEW x \in Nodes, NEW k, Newer(pools[x], k), k \in Mapping
      PROVE  Newer(pools'[x], k)
  <2>1. /\ k.fake \in DOMAIN pools[x].globalVersions
        /\ k.version < pools[x].globalVersions[k.fake]
    BY <1>2 DEF Newer
  <2>2. /\ k.fake \in DOMAIN pools'[x].globalVersions
        /\ pools[x].globalVersions[k.fake] <= pools'[x].globalVersions[k.fake]
    BY <2>1 DEF SyncStep, Grows
  <2>3. /\ k.version \in Nat /\ pools[x].globalVersions[k.fake] \in Nat
        /\ pools'[x].globalVersions[k.fake] \in Nat
    BY <1>2, <2>1, <2>2, Zenon DEF ClusterInv, NodeInv, IsPool, IsMap, Mapping
  <2> QED  BY <2>1, <2>2, <2>3 DEF Newer
<1>3. ASSUME NEW x \in Nodes, NEW k \in mine[x]
      PROVE  k \in mine'[x] \/ Newer(pools'[x], k)
  <2>1. k \in seen'[x]
    BY DEF ShareInv, HeldInv, SyncStep
  <2>2. IsPool(pools'[x]) /\ Mirror(pools'[x]) /\ seen'[x] \in SUBSET Mapping
    BY DEF ClusterInv, NodeInv
  <2>3. Latest(pools'[x], seen'[x])
    BY DEF SyncStep
  <2>4. k \in GetAllMappings(pools'[x]) \/ Newer(pools'[x], k)
    BY <2>1, <2>2, <2>3, HeldOrNewer
  <2> QED  BY <2>4 DEF SyncStep
<1>4. ASSUME NEW n \in Nodes, NEW k \in seen'[n]
      PROVE  \E x \in Nodes : k \in mine'[x] \/ Newer(pools'[x], k)
  <2>1. CASE k \in mine'[n]
    BY <2>1
  <2>2. ASSUME NEW i \in Nodes, k \in seen[i]
        PROVE  \E x \in Nodes : k \in mine'[x] \/ Newer(pools'[x], k)
    <3>1. PICK x \in Nodes : k \in mine[x] \/ Newer(pools[x], k)
      BY <2>2 DEF OriginInv
    <3>2. k \in Mapping
      BY <2>2 DEF ClusterInv, NodeInv
    <3> QED  BY <1>2, <1>3, <3>1, <3>2
  <2> QED  BY <2>1, <2>2 DEF SyncStep
<1>5. OriginInv'
  BY <1>4 DEF OriginInv
<1> QED  BY <1>1, <1>5

\* A step that leaves the pools and what was seen.
LEMMA StillSync ==
  ASSUME ClusterInv, LatestInv, UNCHANGED <<pools, seen, mine>>
  PROVE  SyncStep
<1> SUFFICES ASSUME NEW x \in Nodes
             PROVE  Grows(pools[x], pools[x])
  BY DEF SyncStep, LatestInv
<1>1. \A f \in DOMAIN pools[x].globalVersions : pools[x].globalVersions[f] \in Nat
  BY Zenon DEF ClusterInv, NodeInv, IsPool, IsMap
<1> QED  BY <1>1 DEF Grows

\* Such a step at one node.
SyncAt(n, p, S, M) ==
  /\ pools' = [pools EXCEPT ![n] = p] /\ seen' = [seen EXCEPT ![n] = S]
  /\ mine' = [mine EXCEPT ![n] = M]
  /\ Latest(p, S) /\ Grows(pools[n], p) /\ seen[n] \subseteq S
  /\ mine[n] \cap GetAllMappings(p) \subseteq M
  /\ \A k \in S : k \in M \/ \E i \in Nodes : k \in seen[i]

\* The other nodes stay as they are.
LEMMA SyncAtOneNode ==
  ASSUME ClusterInv, ShareInv, LatestInv, NEW n \in Nodes, NEW p, NEW S, NEW M,
         SyncAt(n, p, S, M)
  PROVE  SyncStep
<1> SUFFICES ASSUME NEW x \in Nodes
             PROVE  /\ Latest(pools'[x], seen'[x]) /\ Grows(pools[x], pools'[x])
                    /\ seen[x] \subseteq seen'[x]
                    /\ mine[x] \cap GetAllMappings(pools'[x]) \subseteq mine'[x]
                    /\ \A k \in seen'[x] : k \in mine'[x] \/ \E i \in Nodes : k \in seen[i]
  BY DEF SyncStep
<1>1. CASE x = n
  <2>1. pools'[x] = p /\ seen'[x] = S /\ mine'[x] = M
    BY <1>1 DEF ClusterInv, ShareInv, LinkTypes, SyncAt
  <2> QED  BY <1>1, <2>1 DEF SyncAt
<1>2. CASE x # n
  <2>1. pools'[x] = pools[x] /\ seen'[x] = seen[x] /\ mine'[x] = mine[x]
    BY <1>2 DEF ClusterInv, ShareInv, LinkTypes, SyncAt
  <2>2. Grows(pools[x], pools[x])
    <3>1. \A f \in DOMAIN pools[x].globalVersions : pools[x].globalVersions[f] \in Nat
      BY Zenon DEF ClusterInv, NodeInv, IsPool, IsMap
    <3> QED  BY <3>1 DEF Grows
  <2>3. Latest(pools[x], seen[x])
    BY DEF LatestInv
  <2> QED  BY <2>1, <2>2, <2>3
<1> QED  BY <1>1, <1>2

\* An allocation: the address has no lease, and nothing else has its natural
\* fake, which is therefore the one it gets.
LEMMA AllocateSync ==
  ASSUME ClusterInv, ShareInv, LatestInv, NaturalsDiffer, clock < TTL,
         NEW n \in Nodes, NEW r \in Reals, Allocate(n, r)
  PROVE  SyncStep
<1> DEFINE c == pools[n]
           p == Drop(c, {r}, Lookup(c.realToFake, r))
           v == GetNextVersion(hlc[n], allocs + 1 + skew[n])
<1>1. PICK f \in FinalFake(Geo, hash[r], Leased(p)) :
         LET m == [fake |-> f, real |-> r, version |-> v]
         IN  /\ pools' = [pools EXCEPT ![n] = Install(p, r, f, v, clock + TTL)]
             /\ seen' = [seen EXCEPT ![n] = @ \cup {m}]
             /\ mine' = [mine EXCEPT ![n] = (@ \cap GetAllMappings(pools'[n])) \cup {m}]
  BY Zenon DEF Allocate
<1>2. /\ IsPool(c) /\ Mirror(c) /\ Latest(c, seen[n]) /\ seen[n] \subseteq Mapping
      /\ pools = [x \in Nodes |-> pools[x]]
  BY DEF ClusterInv, NodeInv, LatestInv
<1>3. clock + TTL \in Nat /\ TTL <= clock + TTL /\ TTL \in Nat
  BY ReplicationAssumption DEF ClusterInv
<1>4. v \in Nat
  <2>1. hlc[n] \in Nat /\ allocs + 1 + skew[n] \in Nat
    BY DEF ClusterInv, NodeInv
  <2> QED  BY <2>1, NextVersionAbove
<1>5. r \notin DOMAIN c.expiries
  <2> SUFFICES ASSUME r \in DOMAIN c.expiries PROVE FALSE
    OBVIOUS
  <2>1. TTL <= c.expiries[r] /\ c.expiries[r] \in Nat /\ clock \in Nat
    BY <1>2 DEF Latest, IsPool, IsMap, ClusterInv
  <2>2. clock < c.expiries[r]
    BY <1>3, <2>1
  <2> QED  BY <2>2 DEF Allocate, EndsAfter
<1>6. r \notin DOMAIN c.realToFake /\ Lookup(c.realToFake, r) = {}
  BY <1>2, <1>5 DEF Mirror, Lookup
<1>7. /\ p.realToFake = c.realToFake /\ p.expiries = c.expiries
      /\ p.globalFakeToReal = c.globalFakeToReal /\ p.globalVersions = c.globalVersions
  BY <1>2, <1>5, <1>6, DropNothing
<1>8. Natural(r) \notin DOMAIN c.globalFakeToReal
  <2> SUFFICES ASSUME Natural(r) \in DOMAIN c.globalFakeToReal PROVE FALSE
    OBVIOUS
  <2>1. /\ c.globalFakeToReal[Natural(r)] \in Reals
        /\ Natural(r) = Natural(c.globalFakeToReal[Natural(r)])
    BY <1>2, NaturalLeases
  <2>2. c.globalFakeToReal[Natural(r)] = r
    BY <2>1 DEF NaturalsDiffer, Natural
  <2> QED  BY <1>2, <1>6, <2>2 DEF Mirror
<1>9. f = Natural(r)
  BY <1>7, <1>8 DEF FinalFake, Leased, Natural
<1> DEFINE q == Install(c, r, Natural(r), v, clock + TTL)
           m == [fake |-> Natural(r), real |-> r, version |-> v]
<1>10. Install(p, r, f, v, clock + TTL) = q
  BY <1>7, <1>9 DEF Install
<1>11. Latest(q, seen[n] \cup {m}) /\ Grows(c, q)
  <2>1. Natural(r) \notin DOMAIN c.globalVersions
    BY <1>2, <1>8 DEF Mirror
  <2> HIDE DEF c, v
  <2> QED  BY <1>2, <1>3, <1>4, <2>1, InstallLatest
<1> HIDE DEF p, v, q, m
<1>12. /\ pools' = [pools EXCEPT ![n] = q] /\ seen' = [seen EXCEPT ![n] = @ \cup {m}]
       /\ mine' = [mine EXCEPT ![n] = (@ \cap GetAllMappings(q)) \cup {m}]
  BY <1>1, <1>2, <1>9, <1>10, Zenon DEF m
<1>13. SyncAt(n, q, seen[n] \cup {m}, (mine[n] \cap GetAllMappings(q)) \cup {m})
  BY <1>11, <1>12 DEF SyncAt
<1> QED  BY <1>13, SyncAtOneNode

\* A delivery: a mapping that is not skipped meets, under its fake, only an
\* older version of itself.
LEMMA DeliverSync ==
  ASSUME ClusterInv, ShareInv, LatestInv, NaturalsDiffer,
         NEW s \in Nodes, NEW n \in Nodes, NEW m \in seen[s], Deliver(s, n, m)
  PROVE  SyncStep
<1> DEFINE c == pools[n]
           r == m.real
           f == m.fake
           v == m.version
           exp == clock + TTL
           S == seen[n] \cup {m}
           p == AddMapping(c, r, f, v, exp)
<1>1. /\ IsPool(c) /\ Mirror(c) /\ Latest(c, seen[n]) /\ seen[n] \subseteq Mapping
      /\ pools = [x \in Nodes |-> pools[x]] /\ mine = [x \in Nodes |-> mine[x]]
  BY DEF ClusterInv, NodeInv, LatestInv, ShareInv, LinkTypes
<1>2. r \in Reals /\ f = Natural(r) /\ m \in Mapping
  BY DEF LatestInv, Latest, ClusterInv, NodeInv
<1>3. v \in Nat /\ m = [fake |-> Natural(r), real |-> r, version |-> v]
  BY <1>2 DEF Mapping
<1>4. exp \in Nat /\ TTL <= exp
  BY ReplicationAssumption DEF ClusterInv
<1>5. seen' = [seen EXCEPT ![n] = S]
  BY DEF Deliver, Take
<1>6. \A g \in DOMAIN c.globalVersions : c.globalVersions[g] \in Nat
  BY <1>1 DEF IsPool, IsMap
<1>7. Grows(c, c)
  BY <1>6 DEF Grows
<1>8. ASSUME f \in DOMAIN c.globalVersions, v <= c.globalVersions[f]
      PROVE  Latest(c, S)
  BY <1>1, <1>2, <1>8 DEF Latest
<1>9. CASE GetVersion(c, f) > v
  <2>1. f \in DOMAIN c.globalVersions /\ v <= c.globalVersions[f]
    BY <1>3, <1>6, <1>9 DEF GetVersion
  <2>2. UNCHANGED <<pools, mine>>
    BY <1>9 DEF Deliver
  <2>3. pools' = [pools EXCEPT ![n] = c] /\ mine' = [mine EXCEPT ![n] = mine[n]]
    BY <1>1, <2>2, Zenon
  <2>4. Latest(c, S)
    BY <1>8, <2>1
  <2>5. SyncAt(n, c, S, mine[n])
    BY <1>5, <1>7, <2>3, <2>4 DEF SyncAt
  <2> QED  BY <2>5, SyncAtOneNode
<1>10. CASE ~(GetVersion(c, f) > v)
  <2>1. /\ pools' = [pools EXCEPT ![n] = p]
        /\ mine' = [mine EXCEPT ![n] = @ \cap GetAllMappings(pools'[n])]
    BY <1>10 DEF Deliver
  <2>2. mine' = [mine EXCEPT ![n] = mine[n] \cap GetAllMappings(p)]
    BY <1>1, <2>1
  <2>3. f \in DOMAIN c.globalVersions => c.globalVersions[f] <= v
    BY <1>3, <1>6, <1>10 DEF GetVersion
  <2>4. /\ \A old \in Lookup(c.globalFakeToReal, f) : old = r
        /\ \A old \in Lookup(c.realToFake, r) : old = f
    <3>1. \A old \in Lookup(c.globalFakeToReal, f) : old \in Reals /\ f = Natural(old)
      BY <1>1, NaturalLeases DEF Lookup
    <3>2. \A old \in Lookup(c.realToFake, r) : old = Natural(r)
      BY <1>1, NaturalLeases DEF Lookup
    <3> QED  BY <1>2, <3>1, <3>2 DEF NaturalsDiffer, Natural
  <2>5. Latest(p, S) /\ Grows(c, p)
    <3>1. CASE Refused(c, r, f, v)
      <4>1. p = c
        BY <3>1 DEF AddMapping
      <4>2. f \in DOMAIN c.globalVersions /\ v <= c.globalVersions[f]
        <5>1. Loses(c, v, f, TRUE)
          BY <2>4, <3>1 DEF Refused, Loses
        <5> QED  BY <1>3, <1>6, <5>1 DEF Loses
      <4> QED  BY <1>7, <1>8, <4>1, <4>2
    <3>2. CASE ~Refused(c, r, f, v)
      <4> DEFINE d == Drop(c, Lookup(c.globalFakeToReal, f) \ {r}, Lookup(c.realToFake, r) \ {f})
      <4>1. p = Install(d, r, f, v, exp)
        BY <3>2 DEF AddMapping
      <4>2. /\ d.realToFake = c.realToFake /\ d.expiries = c.expiries
            /\ d.globalFakeToReal = c.globalFakeToReal /\ d.globalVersions = c.globalVersions
        BY <1>1, <2>4, DropNothing
      <4>3. Install(d, r, f, v, exp) = Install(c, r, Natural(r), v, exp)
        BY <1>2, <4>2 DEF Install
      <4>4. /\ Latest(Install(c, r, Natural(r), v, exp), seen[n] \cup {m})
            /\ Grows(c, Install(c, r, Natural(r), v, exp))
        BY <1>1, <1>2, <1>3, <1>4, <2>3, InstallLatest
      <4> QED  BY <4>1, <4>3, <4>4
    <3> QED  BY <3>1, <3>2
  <2> HIDE DEF p
  <2>6. SyncAt(n, p, S, mine[n] \cap GetAllMappings(p))
    BY <1>5, <2>1, <2>2, <2>5, Zenon DEF SyncAt
  <2> QED  BY <2>6, SyncAtOneNode
<1> QED  BY <1>9, <1>10

\* A renewal gives a full lease again, and no lease has ended yet.
LEMMA LeaseStepsSync ==
  ASSUME ClusterInv, ShareInv, LatestInv, clock < TTL, NEW n \in Nodes,
         PruneExpired(n) \/ \E r \in Reals : Renew(n, r)
  PROVE  SyncStep
<1> DEFINE c == pools[n]
<1>1. /\ IsPool(c) /\ Mirror(c) /\ Latest(c, seen[n])
      /\ mine = [x \in Nodes |-> mine[x]] /\ seen = [x \in Nodes |-> seen[x]]
  BY DEF ClusterInv, NodeInv, LatestInv, ShareInv, LinkTypes
<1>2. clock \in Nat /\ TTL \in Nat
  BY ReplicationAssumption DEF ClusterInv
<1>3. ASSUME PruneExpired(n) PROVE FALSE
  <2>1. PICK r \in DOMAIN c.expiries : c.expiries[r] < clock
    BY <1>3 DEF PruneExpired, ScanExpired, Expired
  <2>2. TTL <= c.expiries[r] /\ c.expiries[r] \in Nat
    BY <1>1 DEF Latest, IsPool, IsMap
  <2> QED  BY <1>2, <2>1, <2>2
<1>4. ASSUME NEW r \in Reals, Renew(n, r) PROVE SyncStep
  <2> DEFINE q == [c EXCEPT !.expiries = Put(@, r, clock + TTL)]
  <2>1. pools' = [pools EXCEPT ![n] = q] /\ UNCHANGED <<seen, mine>>
    BY <1>4 DEF Renew
  <2>2. /\ q.expiries = Put(c.expiries, r, clock + TTL)
        /\ q.globalFakeToReal = c.globalFakeToReal /\ q.globalVersions = c.globalVersions
    BY <1>1 DEF IsPool
  <2> HIDE DEF q
  <2>3. \A x \in DOMAIN q.expiries : TTL <= q.expiries[x]
    BY <1>1, <1>2, <2>2 DEF Latest, Put
  <2>4. GetAllMappings(q) = GetAllMappings(c)
    BY <2>2 DEF GetAllMappings, Leased
  <2>5. Latest(q, seen[n])
    BY <1>1, <2>2, <2>3, <2>4 DEF Latest
  <2>6. Grows(c, q)
    BY <1>1, <2>2 DEF Grows, IsPool, IsMap
  <2>7. seen' = [seen EXCEPT ![n] = seen[n]] /\ mine' = [mine EXCEPT ![n] = mine[n]]
    BY <1>1, <2>1, Zenon
  <2>8. SyncAt(n, q, seen[n], mine[n])
    BY <2>1, <2>5, <2>6, <2>7, Zenon DEF SyncAt
  <2> QED  BY <2>8, SyncAtOneNode
<1> QED  BY <1>3, <1>4

\* Every step of the cluster keeps the nodes in sync.
LEMMA NextSync ==
  ClusterInv /\ ShareInv /\ SyncInv /\ [Next]_vars => SyncInv'
<1> SUFFICES ASSUME ClusterInv, ShareInv, SyncInv, [Next]_vars,
                    NaturalsDiffer', clock' < TTL
             PROVE  LatestInv' /\ OriginInv'
  BY DEF SyncInv
<1>1. ClusterInv'
  BY NextCluster
<1>2. UNCHANGED hash /\ clock \in Nat /\ (clock' = clock \/ clock' = clock + 1)
  <2>1. ASSUME NEW n \in Nodes, NEW r \in Reals, Allocate(n, r) \/ Renew(n, r)
        PROVE  UNCHANGED <<hash, clock>>
    BY <2>1 DEF Allocate, Renew
  <2>2. ASSUME NEW n, NEW m, Broadcast(n, m) \/ Register(n, m) \/ SendAllMappings(n, m)
        PROVE  UNCHANGED <<hash, clock>>
    BY <2>2 DEF Broadcast, Register, SendAllMappings
  <2>3. ASSUME NEW n, NEW m, Disconnect(n, m) PROVE UNCHANGED <<hash, clock>>
    BY <2>3 DEF Disconnect
  <2>4. ASSUME NEW s, NEW n, NEW m, Deliver(s, n, m) PROVE UNCHANGED <<hash, clock>>
    BY <2>4 DEF Deliver, Take
  <2>5. ASSUME NEW n, PruneExpired(n) PROVE UNCHANGED <<hash, clock>>
    BY <2>5 DEF PruneExpired
  <2> QED  BY <2>1, <2>2, <2>3, <2>4, <2>5 DEF Next, Tick, vars, ClusterInv
<1>3. NaturalsDiffer /\ clock < TTL
  <2>1. NaturalsDiffer
    BY <1>2 DEF NaturalsDiffer
  <2>2. TTL \in Nat
    BY ReplicationAssumption
  <2> QED  BY <1>2, <2>1, <2>2
<1>4. LatestInv /\ OriginInv
  BY <1>3 DEF SyncInv
<1>5. SyncStep
  <2>1. ASSUME NEW n \in Nodes, NEW r \in Reals, Allocate(n, r) PROVE SyncStep
    BY <1>3, <1>4, <2>1, AllocateSync
  <2>2. ASSUME NEW n \in Nodes, PruneExpired(n) \/ \E r \in Reals : Renew(n, r) PROVE SyncStep
    BY <1>3, <1>4, <2>2, LeaseStepsSync
  <2>3. ASSUME NEW e \in Pairs, NEW m \in seen[e[1]], Deliver(e[1], e[2], m) PROVE SyncStep
    <3>1. e[1] \in Nodes /\ e[2] \in Nodes
      BY DEF Pairs
    <3> QED  BY <1>3, <1>4, <2>3, <3>1, DeliverSync
  <2>4. ASSUME UNCHANGED <<pools, seen, mine>> PROVE SyncStep
    BY <1>4, <2>4, StillSync
  <2>5. ASSUME NEW n, NEW m, Broadcast(n, m) \/ Register(n, m) \/ SendAllMappings(n, m)
        PROVE  UNCHANGED <<pools, seen, mine>>
    BY <2>5 DEF Broadcast, Register, SendAllMappings
  <2>6. ASSUME NEW n, NEW m, Disconnect(n, m) PROVE UNCHANGED <<pools, seen, mine>>
    BY <2>6 DEF Disconnect
  <2> QED  BY <2>1, <2>2, <2>3, <2>4, <2>5, <2>6 DEF Next, Tick, vars
<1> QED  BY <1>1, <1>2, <1>3, <1>4, <1>5, OriginKept

\* Only an allocation makes a new version, and only one.
LEMMA NextVersions == ClusterInv /\ VersionsInv /\ [Next]_vars => VersionsInv'
<1> SUFFICES ASSUME ClusterInv, VersionsInv, [Next]_vars PROVE VersionsInv'
  OBVIOUS
<1>1. PICK b \in Nat : \A n \in Nodes : \A k \in seen[n] : k.version <= b
  BY DEF VersionsInv
<1>2. ASSUME NEW n \in Nodes, NEW m \in Mapping, seen' = [seen EXCEPT ![n] = @ \cup {m}]
      PROVE  VersionsInv'
  <2>1. \A x \in Nodes : seen'[x] \subseteq seen[x] \cup {m} /\ seen[x] \subseteq Mapping
    BY <1>2 DEF ClusterInv, NodeInv
  <2>2. m.version \in Nat /\ \A k \in Mapping : k.version \in Nat
    BY DEF Mapping
  <2>3. CASE m.version <= b
    BY <1>1, <2>1, <2>3 DEF VersionsInv
  <2>4. CASE b <= m.version
    <3>1. \A x \in Nodes : \A k \in seen'[x] : k.version <= m.version
      BY <1>1, <2>1, <2>2, <2>4
    <3> QED  BY <2>2, <3>1 DEF VersionsInv
  <2> QED  BY <2>2, <2>3, <2>4
<1>3. ASSUME NEW n \in Nodes, NEW r \in Reals, Allocate(n, r) PROVE VersionsInv'
  <2>1. PICK m : seen' = [seen EXCEPT ![n] = @ \cup {m}]
    BY <1>3, Zenon DEF Allocate
  <2>2. seen'[n] \subseteq Mapping /\ m \in seen'[n]
    BY <2>1, NextCluster DEF ClusterInv, NodeInv
  <2> QED  BY <1>2, <2>1, <2>2, Zenon
<1>4. ASSUME NEW e \in Pairs, NEW m \in seen[e[1]], Deliver(e[1], e[2], m)
      PROVE  VersionsInv'
  <2>1. e[1] \in Nodes /\ e[2] \in Nodes /\ m \in Mapping
    BY DEF Pairs, ClusterInv, NodeInv
  <2>2. seen' = [seen EXCEPT ![e[2]] = @ \cup {m}]
    BY <1>4 DEF Deliver, Take
  <2> QED  BY <1>2, <2>1, <2>2, ZenonT(30)
<1>5. ASSUME UNCHANGED seen PROVE VersionsInv'
  BY <1>5 DEF VersionsInv
<1>6. ASSUME NEW n, NEW m, Broadcast(n, m) \/ Register(n, m) \/ SendAllMappings(n, m)
      PROVE  UNCHANGED seen
  BY <1>6 DEF Broadcast, Register, SendAllMappings
<1>7. ASSUME NEW n, NEW m, Disconnect(n, m) \/ PruneExpired(n) \/ Renew(n, m)
      PROVE  UNCHANGED seen
  BY <1>7 DEF Disconnect, PruneExpired, Renew
<1> QED  BY <1>3, <1>4, <1>5, <1>6, <1>7 DEF Next, Tick, vars

\* In a cluster of any size, until a lease can end and unless two addresses
\* collide, all nodes hold the same mappings at rest, whichever nodes allocated
\* for an address, with whichever clocks, and whenever connections were lost.
THEOREM InSyncCorrect == Spec => []InSyncWithoutCollisions
<1> DEFINE IInv == ClusterInv /\ ShareInv /\ SyncInv /\ VersionsInv
<1>1. Init => IInv
  <2>1. Init => SyncInv
    <3> SUFFICES ASSUME Init PROVE LatestInv /\ OriginInv
      BY DEF SyncInv
    <3>1. \A n \in Nodes : pools[n] = NewPool /\ seen[n] = {}
      BY DEF Init
    <3>2. Latest(NewPool, {})
      BY Zenon DEF Latest, GetAllMappings, Leased, NewPool, EmptyMap
    <3> QED  BY <3>1, <3>2 DEF LatestInv, OriginInv
  <2>2. Init => VersionsInv
    BY DEF Init, VersionsInv
  <2> QED  BY <2>1, <2>2, InitCluster, InitShares
<1>2. IInv /\ [Next]_vars => IInv'
  BY NextCluster, NextShares, NextSync, NextVersions
<1>3. IInv => InSyncWithoutCollisions
  <2> SUFFICES ASSUME ClusterInv, ShareInv, SyncInv, VersionsInv, Quiescent, NaturalsDiffer, clock < TTL,
                      NEW n \in Nodes, NEW m \in Nodes
               PROVE  GetAllMappings(pools[n]) = GetAllMappings(pools[m])
    BY DEF InSyncWithoutCollisions
  <2>1. \A i, j \in Nodes : mine[i] \subseteq seen[j]
    BY OfferedAtRest
  <2>2. \A i, j \in Nodes : GetAllMappings(pools[i]) \subseteq GetAllMappings(pools[j])
    BY <2>1, InSyncAtRest
  <2> QED  BY <2>2, Zenon
<1> HIDE DEF IInv
<1> QED  BY <1>1, <1>2, <1>3, PTL DEF Spec

=============================================================================

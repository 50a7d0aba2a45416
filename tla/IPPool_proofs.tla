--------------------------- MODULE IPPool_proofs ----------------------------
(***************************************************************************)
(* Proofs about IPPool, for any number of resolvers and receivers, any     *)
(* addresses, hashes, pools, queries and peers' mappings.                  *)
(*                                                                         *)
(* The invariant is inductive as a conjunction only: the operations on the *)
(* pool keep the types of the maps because the maps mirror each other, and *)
(* they keep the mirror because the maps have their types.                 *)
(***************************************************************************)
EXTENDS IPPool, PoolOps_proofs

\* The inductive invariant.
Inv == TypeOK /\ MapsMirror /\ HLCAhead

-----------------------------------------------------------------------------
(* Lemmas *)

\* An address of a query is an address, and its pool is a well-formed one.
LEMMA RealFacts ==
  ASSUME NEW r \in Reals
  PROVE  /\ r \in IPKey
         /\ Hash[r] \in Nat
         /\ GeometryOf(r).isIPv6 \in BOOLEAN
         /\ GeometryOf(r).start \in Nat
         /\ GeometryOf(r).size \in Nat \ {0}
  BY IPPoolAssumption, Zenon DEF GeometryOf

\* Putting an answer into the result keeps the types of a call's variables.
LEMMA AnswerType ==
  ASSUME TypeOK, NEW t \in Resolvers, NEW r \in todo[t], NEW f \in IPKey,
         Answer(t, r, f)
  PROVE  /\ pc' \in [Resolvers -> {"idle", "fast", "slow", "undo", "ok", "failed"}]
         /\ todo' \in [Resolvers -> SUBSET Reals]
         /\ DOMAIN result' = Resolvers
         /\ \A s \in Resolvers : IsMap(result'[s], Reals, IPKey)
<1>1. r \in Reals
  BY DEF TypeOK
<1>2. IsMap(Put(result[t], r, f), Reals, IPKey)
  BY <1>1 DEF TypeOK, IsMap, Put
<1>3. \A s \in Resolvers : result'[s] = IF s = t THEN Put(result[t], r, f) ELSE result[s]
  BY DEF TypeOK, Answer
<1> QED  BY <1>2, <1>3 DEF TypeOK, Answer

\* The versions in a mirrored pool are those of its leased fakes.
LEMMA HLCAheadVersions ==
  ASSUME MapsMirror
  PROVE  (\A f \in Leased(pool) : pool.globalVersions[f] <= hlc)
           <=> VersionsUpTo(pool, hlc)
  BY DEF MapsMirror, Mirror, Leased, VersionsUpTo

-----------------------------------------------------------------------------
(* The invariant *)

\* A new pool, with nothing allocated and no call begun, has the invariant.
LEMMA InitInv == Init => Inv
<1> SUFFICES ASSUME Init PROVE Inv
  OBVIOUS
<1>1. TypeOK
  BY NewPoolGood, IPPoolAssumption DEF Init, TypeOK, IsMap, EmptyMap
<1>2. MapsMirror
  BY NewPoolGood DEF Init, MapsMirror
<1>3. HLCAhead
  BY DEF Init, HLCAhead, Leased, NewPool, EmptyMap, Idle
<1> QED  BY <1>1, <1>2, <1>3 DEF Inv

\* A step of a resolver, of a receiver, of the pruning worker or of the clock
\* keeps the invariant, whatever steps of the others came before it.
LEMMA NextInv == Inv /\ [Next]_vars => Inv'
<1> SUFFICES ASSUME Inv, [Next]_vars PROVE Inv'
  OBVIOUS
<1> USE DEF Inv
<1>a. IsPool(pool) /\ Mirror(pool) /\ hlc \in Nat /\ VersionsUpTo(pool, hlc)
  BY HLCAheadVersions DEF TypeOK, MapsMirror, HLCAhead
\* A step on the pool and the clock alone, seen from the receivers' side.
<1>b. ASSUME Mirror(pool'), VersionsUpTo(pool', hlc'), hlc' \in Nat, hlc <= hlc',
             UNCHANGED recv
      PROVE  MapsMirror' /\ HLCAhead'
  <2>1. ASSUME NEW p \in Receivers, recv[p].phase = "merge"
        PROVE  recv[p].msg.version \in Nat
    BY <2>1, IPPoolAssumption DEF TypeOK, Idle, Mapping
  <2>2. \A f \in Leased(pool') : pool'.globalVersions[f] <= hlc'
    BY <1>b DEF Mirror, Leased, VersionsUpTo
  <2>3. ASSUME NEW p \in Receivers, recv'[p].phase = "merge"
        PROVE  recv'[p].msg.version <= hlc'
    <3>1. recv[p].phase = "merge"
      BY <1>b, <2>3
    <3>2. recv[p].msg.version <= hlc
      BY <3>1 DEF HLCAhead
    <3> QED  BY <1>a, <1>b, <2>1, <3>1, <3>2
  <2>4. MapsMirror'
    BY <1>b DEF MapsMirror
  <2>5. HLCAhead'
    BY <2>2, <2>3 DEF HLCAhead
  <2> QED  BY <2>4, <2>5
<1>1. ASSUME NEW t \in Resolvers, NEW q \in Queries, Begin(t, q)
      PROVE  Inv'
  <2>1. /\ IsMap(EmptyMap, Reals, IPKey)
        /\ IsMap(EmptyMap, Reals, [fake : IPKey, version : Nat])
    BY DEF IsMap, EmptyMap
  <2>a. DOMAIN result = Resolvers /\ DOMAIN fresh = Resolvers
    BY DEF TypeOK
  <2>2. /\ DOMAIN result' = Resolvers /\ DOMAIN fresh' = Resolvers
        /\ \A s \in Resolvers : result'[s] = IF s = t THEN EmptyMap ELSE result[s]
        /\ \A s \in Resolvers : fresh'[s] = IF s = t THEN EmptyMap ELSE fresh[s]
    BY <1>1, <2>a DEF Begin
  <2>3. q \subseteq Reals /\ clock \in 0 .. clock
    BY IPPoolAssumption DEF TypeOK
  <2>4. TypeOK'
    BY <1>1, <2>1, <2>2, <2>3, Zenon DEF Begin, TypeOK
  <2> QED  BY <1>1, <1>a, <1>b, <2>4 DEF Begin
<1>2. ASSUME NEW t \in Resolvers, NEW r \in LeastKeys(todo[t]),
             \/ FastHit(t, r) \/ FastMiss(t, r) \/ SlowHit(t, r)
             \/ \E wall \in WallTimes : SlowAllocate(t, r, wall)
             \/ SlowExhausted(t, r)
      PROVE  Inv'
  <2>a. r \in todo[t] /\ r \in Reals
    BY DEF LeastKeys, TypeOK
  <2>1. CASE FastHit(t, r)
    <3>1. pool.realToFake[r] \in IPKey
      BY <2>1 DEF FastHit, NotDue, TypeOK, IsPool, IsMap
    <3>2. TypeOK'
      BY <2>1, <2>a, <3>1, AnswerType, Zenon DEF FastHit, TypeOK
    <3> QED  BY <1>a, <1>b, <2>1, <3>2 DEF FastHit
  <2>2. CASE FastMiss(t, r)
    <3>1. TypeOK'
      BY <2>2, Zenon DEF FastMiss, TypeOK
    <3> QED  BY <1>a, <1>b, <2>2, <3>1 DEF FastMiss
  <2>3. CASE SlowHit(t, r)
    <3>1. pool.realToFake[r] \in IPKey
      BY <2>3 DEF SlowHit, HoldsLease, TypeOK, IsPool, IsMap
    <3>2. IsPool(pool') /\ Mirror(pool') /\ VersionsUpTo(pool', hlc)
      <4>1. now[t] + TTL \in Nat
        BY IPPoolAssumption DEF TypeOK
      <4>2. r \in DOMAIN pool.expiries
        BY <1>a, <2>3 DEF SlowHit, HoldsLease, Mirror
      <4>3. /\ IsPool(Renewed(t, r)) /\ Mirror(Renewed(t, r))
            /\ VersionsUpTo(Renewed(t, r), hlc)
        <5> DEFINE q == [pool EXCEPT !.expiries = Put(@, r, now[t] + TTL)]
        <5>1. /\ DOMAIN q = DOMAIN pool
              /\ q.expiries = Put(pool.expiries, r, now[t] + TTL)
              /\ q.realToFake = pool.realToFake
              /\ q.globalFakeToReal = pool.globalFakeToReal
              /\ q.globalVersions = pool.globalVersions
          BY <1>a DEF IsPool
        <5>2. /\ IsMap(Put(pool.expiries, r, now[t] + TTL), IPKey, Nat)
              /\ DOMAIN Put(pool.expiries, r, now[t] + TTL) = DOMAIN pool.expiries
          BY <1>a, <4>1, <4>2 DEF IsPool, IsMap, Put
        <5>3. Renewed(t, r) \in {pool, q}
          BY DEF Renewed
        <5> HIDE DEF q
        <5>4. IsPool(q) /\ Mirror(q) /\ VersionsUpTo(q, hlc)
          BY <1>a, <5>1, <5>2 DEF IsPool, Mirror, VersionsUpTo
        <5> QED  BY <1>a, <5>3, <5>4
      <4> QED  BY <2>3, <4>3 DEF SlowHit
    <3>3. TypeOK'
      BY <2>3, <2>a, <3>1, <3>2, AnswerType, Zenon DEF SlowHit, TypeOK
    <3> QED  BY <1>a, <1>b, <2>3, <3>2, <3>3 DEF SlowHit
  <2>4. ASSUME NEW wall \in WallTimes, SlowAllocate(t, r, wall)
        PROVE  Inv'
    <3> DEFINE q == WithoutExpired(r)
               v == GetNextVersion(hlc, wall)
    <3>1. PICK f \in FinalFake(GeometryOf(r), Hash[r], Leased(q)) :
            /\ pool' = Install(q, r, f, v, now[t] + TTL)
            /\ hlc' = v
            /\ fresh' = [fresh EXCEPT ![t] = Put(@, r, [fake |-> f, version |-> v])]
            /\ Answer(t, r, f)
      BY <2>4, Zenon DEF SlowAllocate
    <3>2. f \in IPKey /\ f \notin Leased(q)
      BY <2>a, RealFacts, FinalFakeFree
    <3>3. v \in Nat /\ hlc <= v
      BY <1>a, IPPoolAssumption DEF GetNextVersion
    <3>4. /\ IsPool(q) /\ Mirror(q) /\ r \notin DOMAIN q.realToFake
          /\ VersionsUpTo(q, hlc)
      BY <1>a, ForgetGood, Zenon DEF WithoutExpired
    <3>5. now[t] + TTL \in Nat
      BY IPPoolAssumption DEF TypeOK
    <3> HIDE DEF q, v
    <3>6. VersionsUpTo(q, v)
      BY <1>a, <3>3, <3>4 DEF VersionsUpTo, IsPool, IsMap
    <3>7. IsPool(pool') /\ Mirror(pool') /\ VersionsUpTo(pool', hlc')
      BY <2>a, <3>1, <3>2, <3>3, <3>4, <3>5, <3>6, RealFacts,
         InstallIsPool, InstallMirror DEF Leased
    <3>8. /\ DOMAIN fresh' = Resolvers
          /\ \A s \in Resolvers :
                IsMap(fresh'[s], Reals, [fake : IPKey, version : Nat])
      <4>1. IsMap(Put(fresh[t], r, [fake |-> f, version |-> v]),
                  Reals, [fake : IPKey, version : Nat])
        BY <2>a, <3>2, <3>3 DEF TypeOK, IsMap, Put
      <4>2. \A s \in Resolvers : fresh'[s] =
              IF s = t THEN Put(fresh[t], r, [fake |-> f, version |-> v]) ELSE fresh[s]
        BY <3>1 DEF TypeOK
      <4> QED  BY <3>1, <4>1, <4>2, Zenon DEF TypeOK
    <3>9. TypeOK'
      BY <2>4, <2>a, <3>1, <3>2, <3>3, <3>7, <3>8, AnswerType, Zenon
         DEF SlowAllocate, TypeOK
    <3> QED  BY <1>a, <1>b, <2>4, <3>1, <3>3, <3>7, <3>9 DEF SlowAllocate
  <2>5. CASE SlowExhausted(t, r)
    <3>1. IsPool(pool') /\ Mirror(pool') /\ VersionsUpTo(pool', hlc)
      BY <1>a, <2>5, ForgetGood, Zenon DEF SlowExhausted, WithoutExpired
    <3>2. TypeOK'
      <4>1. DOMAIN fresh[t] \subseteq Reals
        BY DEF TypeOK, IsMap
      <4>2. /\ todo' \in [Resolvers -> SUBSET Reals]
            /\ pc' \in [Resolvers -> {"idle", "fast", "slow", "undo", "ok", "failed"}]
        BY <2>5, <4>1 DEF SlowExhausted, TypeOK
      <4>3. UNCHANGED <<hlc, clock, now, result, fresh, recv, prune>>
        BY <2>5 DEF SlowExhausted
      <4> QED  BY <3>1, <4>2, <4>3, Zenon DEF TypeOK
    <3>3. hlc' = hlc /\ hlc' \in Nat /\ hlc <= hlc' /\ UNCHANGED recv
      BY <1>a, <2>5 DEF SlowExhausted
    <3> QED  BY <1>b, <3>1, <3>2, <3>3
  <2> QED  BY <1>2, <2>1, <2>2, <2>3, <2>4, <2>5
<1>3. ASSUME NEW t \in Resolvers, NEW r \in todo[t], Rollback(t, r)
      PROVE  Inv'
  <2>1. IsPool(pool') /\ Mirror(pool') /\ VersionsUpTo(pool', hlc)
    BY <1>a, <1>3, RemoveMappingGood DEF Rollback
  <2>2. TypeOK'
    BY <1>3, <2>1, Zenon DEF Rollback, TypeOK
  <2> QED  BY <1>a, <1>b, <1>3, <2>1, <2>2 DEF Rollback
<1>4. ASSUME NEW p \in Receivers, NEW m \in PeerMappings, Receive(p, m)
      PROVE  Inv'
  <2>1. TypeOK'
    BY <1>4, Zenon DEF Receive, TypeOK, call
  <2>2. \A s \in Receivers : recv'[s].phase = "merge" => recv'[s] = recv[s]
    BY <1>4 DEF Receive, TypeOK
  <2>3. HLCAhead'
    BY <1>4, <2>2 DEF Receive, HLCAhead
  <2> QED  BY <1>4, <2>1, <2>3 DEF Receive, MapsMirror
<1>5. ASSUME NEW p \in Receivers, NEW wall \in WallTimes, Observe(p, wall)
      PROVE  Inv'
  <2>1. recv[p] \in [phase : {"observe", "merge"}, msg : PeerMappings]
    BY <1>5 DEF Observe, TypeOK, Idle
  <2>2. recv[p].msg \in PeerMappings /\ recv[p].msg.version \in Nat
    BY <2>1, IPPoolAssumption DEF Mapping
  <2>3. /\ hlc' \in Nat /\ hlc <= hlc' /\ recv[p].msg.version <= hlc'
    BY <1>5, <1>a, <2>2, IPPoolAssumption DEF Observe, ObserveVersion
  <2>4. recv' = [recv EXCEPT ![p] = [phase |-> "merge", msg |-> recv[p].msg]]
    BY <1>5 DEF Observe, TypeOK
  <2>5. TypeOK'
    <3>1. [phase |-> "merge", msg |-> recv[p].msg]
            \in [phase : {"observe", "merge"}, msg : PeerMappings]
      BY <2>2
    <3>2. recv' \in [Receivers ->
            {Idle} \cup [phase : {"observe", "merge"}, msg : PeerMappings]]
      BY <2>4, <3>1 DEF TypeOK
    <3> QED  BY <1>5, <2>3, <3>2, Zenon DEF Observe, TypeOK, call
  <2>6. \A f \in Leased(pool') : pool'.globalVersions[f] <= hlc'
    BY <1>5, <1>a, <2>3 DEF Observe, Leased, HLCAhead, Mirror, IsPool, IsMap
  <2>7. ASSUME NEW s \in Receivers, recv'[s].phase = "merge"
        PROVE  recv'[s].msg.version <= hlc'
    <3>1. CASE s = p
      BY <2>3, <2>4, <3>1 DEF TypeOK
    <3>2. CASE s # p
      <4>1. recv'[s] = recv[s]
        BY <2>4, <3>2 DEF TypeOK
      <4>2. recv[s].msg.version \in Nat /\ recv[s].msg.version <= hlc
        BY <2>7, <4>1, IPPoolAssumption DEF TypeOK, Idle, Mapping, HLCAhead
      <4> QED  BY <1>a, <2>3, <4>1, <4>2
    <3> QED  BY <3>1, <3>2
  <2>8. HLCAhead'
    BY <2>6, <2>7 DEF HLCAhead
  <2> QED  BY <1>5, <2>5, <2>8 DEF Observe, MapsMirror
<1>6. ASSUME NEW p \in Receivers, Merge(p)
      PROVE  Inv'
  <2> DEFINE m == recv[p].msg
  <2>1. recv[p] \in [phase : {"observe", "merge"}, msg : PeerMappings]
    BY <1>6 DEF Merge, TypeOK, Idle
  <2>2. /\ m.real \in IPKey /\ m.fake \in IPKey /\ m.version \in Nat
        /\ m.version <= hlc
    BY <1>6, <2>1, IPPoolAssumption DEF Merge, Mapping, HLCAhead
  <2>3. clock + TTL \in Nat
    BY IPPoolAssumption DEF TypeOK
  <2>4. pool' = AddMapping(pool, m.real, m.fake, m.version, clock + TTL)
    BY <1>6 DEF Merge
  <2> HIDE DEF m
  <2>5. IsPool(pool') /\ Mirror(pool') /\ VersionsUpTo(pool', hlc)
    BY <1>a, <2>2, <2>3, <2>4, AddMappingGood
  <2>6. TypeOK'
    BY <1>6, <2>5, Zenon DEF Merge, TypeOK, call
  <2>7. \A s \in Receivers : recv'[s].phase = "merge" => recv'[s] = recv[s]
    BY <1>6 DEF Merge, TypeOK, Idle
  <2>8. MapsMirror'
    BY <2>5 DEF MapsMirror
  <2>9. hlc' = hlc
    BY <1>6 DEF Merge
  <2>10. \A f \in Leased(pool') : pool'.globalVersions[f] <= hlc'
    BY <2>5, <2>9 DEF Mirror, Leased, VersionsUpTo
  <2>11. \A s \in Receivers : recv'[s].phase = "merge" => recv'[s].msg.version <= hlc'
    BY <2>7, <2>9 DEF HLCAhead
  <2> QED  BY <2>6, <2>8, <2>10, <2>11 DEF HLCAhead
<1>7. CASE PruneStart
  <2>1. /\ prune \in [phase : {"idle", "scan", "delete"}, now : 0 .. clock,
                       shard : 1 .. NumShards, expired : SUBSET (Reals \X IPKey)]
        /\ clock \in 0 .. clock
    BY DEF TypeOK
  <2>2. prune' \in [phase : {"idle", "scan", "delete"}, now : 0 .. clock,
                    shard : 1 .. NumShards, expired : SUBSET (Reals \X IPKey)]
    BY <1>7, <2>1, Zenon DEF PruneStart
  <2>3. TypeOK'
    BY <1>7, <2>2, Zenon DEF PruneStart, TypeOK, call
  <2> QED  BY <1>7, <1>a, <1>b, <2>3 DEF PruneStart
<1>8. NextShard \in [phase : {"idle", "scan"}, now : 0 .. clock,
                     shard : 1 .. NumShards, expired : {{}}]
  <2>1. prune \in [phase : {"idle", "scan", "delete"}, now : 0 .. clock,
                   shard : 1 .. NumShards, expired : SUBSET (Reals \X IPKey)]
    BY DEF TypeOK
  <2>2. NumShards \in Nat \ {0}
    BY IPPoolAssumption
  <2>3. prune.shard = NumShards \/ prune.shard + 1 \in 1 .. NumShards
    BY <2>1, <2>2
  <2>4. CASE prune.shard = NumShards
    <3>1. NextShard = [prune EXCEPT !.phase = "idle", !.shard = 1, !.expired = {}]
      BY <2>4 DEF NextShard
    <3>2. 1 \in 1 .. NumShards
      BY <2>2
    <3> QED  BY <2>1, <3>1, <3>2, Zenon
  <2>5. CASE prune.shard # NumShards
    <3>1. NextShard = [prune EXCEPT !.phase = "scan", !.shard = prune.shard + 1,
                                    !.expired = {}]
      BY <2>1, <2>5 DEF NextShard
    <3> QED  BY <2>1, <2>3, <2>5, <3>1, Zenon
  <2> QED  BY <2>4, <2>5
<1>9. CASE PruneScan
  <2>1. ScanExpired(pool, Shard(prune.shard), prune.now) \subseteq Reals \X IPKey
    BY DEF ScanExpired, Shard, TypeOK, IsPool, IsMap
  <2>2. TypeOK'
    BY <1>8, <1>9, <2>1, Zenon DEF PruneScan, TypeOK, call
  <2> QED  BY <1>9, <1>a, <1>b, <2>2 DEF PruneScan
<1>10. CASE PruneDelete
  <2>1. IsPool(pool') /\ Mirror(pool') /\ VersionsUpTo(pool', hlc)
    BY <1>10, <1>a, RemoveExpiredGood DEF PruneDelete
  <2>2. TypeOK'
    BY <1>8, <1>10, <2>1, Zenon DEF PruneDelete, TypeOK, call
  <2> QED  BY <1>10, <1>a, <1>b, <2>1, <2>2 DEF PruneDelete
<1>11. CASE Tick
  <2>1. clock \in Nat /\ clock' = clock + 1
    BY <1>11 DEF Tick, TypeOK
  <2>2. clock' \in Nat /\ 0 .. clock \subseteq 0 .. clock'
    BY <2>1
  <2>3. TypeOK'
    BY <1>11, <2>2, Zenon DEF Tick, TypeOK, call
  <2> QED  BY <1>11, <1>a, <1>b, <2>3 DEF Tick
<1>12. CASE UNCHANGED vars
  <2>1. TypeOK'
    BY <1>12, Zenon DEF vars, TypeOK
  <2> QED  BY <1>12, <1>a, <1>b, <2>1 DEF vars
<1> QED
  BY <1>1, <1>2, <1>3, <1>4, <1>5, <1>6, <1>7, <1>9, <1>10, <1>11, <1>12
     DEF Next, Resolve

-----------------------------------------------------------------------------
(* Theorems *)

\* The invariant holds throughout.
THEOREM Invariance == Spec => []Inv
  BY InitInv, NextInv, PTL DEF Spec

\* Type correctness: the pool's maps, the calls' local variables and the
\* workers' registers keep their types in every run of the pool.
THEOREM TypeCorrect == Spec => []TypeOK
<1>1. Inv => TypeOK
  BY DEF Inv
<1> QED  BY <1>1, Invariance, PTL

\* The two directions of the mapping never disagree and no fake is handed to
\* two real addresses, for any number of goroutines and any schedule of
\* GetFakeIPsForReals, AddMapping, RemoveMapping and PruneExpired.
THEOREM MirrorCorrect == Spec => []MapsMirror
<1>1. Inv => MapsMirror
  BY DEF Inv
<1> QED  BY <1>1, Invariance, PTL

\* The hybrid logical clock is never behind a version in the pool or about to
\* be merged, whatever the wall clock does.
THEOREM HLCCorrect == Spec => []HLCAhead
<1>1. Inv => HLCAhead
  BY DEF Inv
<1> QED  BY <1>1, Invariance, PTL

-----------------------------------------------------------------------------
(***************************************************************************)
(* Proofs of the action properties of IPPool: what a step may do to a      *)
(* mapping that stands.  Each follows from Inv and a single step.          *)
(***************************************************************************)

\* The step that LiveLeaseKept allows.
KeptStep ==
  \A r \in DOMAIN pool.realToFake :
     LET f == pool.realToFake[r]
     IN  clock < pool.expiries[r] /\ ~MapsTo(pool', r, f)
           => MergeDisplaces(r, f) \/ RollbackDisplaces(r, f)

\* A merge that is not refused outranks the mapping of its fake and the
\* mapping of its real address.
LEMMA NotRefused ==
  ASSUME NEW p, IsPool(p), Mirror(p), NEW r \in IPKey, NEW f \in IPKey,
         NEW v \in Nat, ~Refused(p, r, f, v),
         NEW q \in DOMAIN p.realToFake, q = r \/ p.realToFake[q] = f
  PROVE  p.globalVersions[p.realToFake[q]] <= v
  BY DEF Refused, Loses, Lookup, Mirror, IsPool, IsMap

\* No step takes a mapping whose lease runs, but a merge or a rollback.
LEMMA NextKeeps == Inv /\ [Next]_vars => KeptStep
<1> SUFFICES ASSUME Inv, [Next]_vars, NEW r \in DOMAIN pool.realToFake,
                    clock < pool.expiries[r], ~MapsTo(pool', r, pool.realToFake[r])
             PROVE  \/ MergeDisplaces(r, pool.realToFake[r])
                    \/ RollbackDisplaces(r, pool.realToFake[r])
  BY DEF KeptStep
<1> DEFINE f == pool.realToFake[r]
<1>a. /\ IsPool(pool) /\ Mirror(pool) /\ MapsTo(pool, r, f)
      /\ r \in DOMAIN pool.expiries /\ pool.expiries[r] \in Nat /\ clock \in Nat
  BY DEF Inv, TypeOK, MapsMirror, Mirror, MapsTo, IsPool, IsMap
<1>b. pool' # pool
  BY <1>a
<1>1. ASSUME NEW t \in Resolvers, NEW q, SlowHit(t, q)
      PROVE  FALSE
  <2>1. pool'.realToFake = pool.realToFake
    BY <1>1, <1>a DEF SlowHit, Renewed, IsPool
  <2> QED  BY <1>a, <2>1 DEF MapsTo
<1>2. ASSUME NEW t \in Resolvers, NEW q, pc[t] = "slow", ~HoldsLease(t, q), q = r
      PROVE  FALSE
  BY <1>2, <1>a DEF HoldsLease, Inv, TypeOK
<1>3. ASSUME NEW t \in Resolvers, NEW q, NEW wall \in WallTimes, SlowAllocate(t, q, wall)
      PROVE  FALSE
  <2>1. q # r
    BY <1>2, <1>3 DEF SlowAllocate
  <2>2. PICK g, v, exp : pool' = Install(WithoutExpired(q), q, g, v, exp)
    BY <1>3 DEF SlowAllocate
  <2> QED
    BY <1>a, <2>1, <2>2 DEF WithoutExpired, Drop, Delete, Install, Put, MapsTo
<1>4. ASSUME NEW t \in Resolvers, NEW q, SlowExhausted(t, q)
      PROVE  FALSE
  <2>1. q # r
    BY <1>2, <1>4 DEF SlowExhausted
  <2> QED
    BY <1>4, <1>a, <2>1 DEF SlowExhausted, WithoutExpired, Drop, Delete, MapsTo
<1>5. ASSUME NEW t \in Resolvers, NEW q \in todo[t], Rollback(t, q)
      PROVE  RollbackDisplaces(r, f)
  <2>1. q = r /\ fresh[t][q].fake = f
    BY <1>5, <1>a DEF Rollback, RemoveMapping, Drop, Delete, MapsTo
  <2>2. r \in todo[t] \ todo'[t]
    BY <1>5, <2>1 DEF Rollback, Inv, TypeOK
  <2> QED  BY <1>5, <2>1, <2>2 DEF Rollback, RollbackDisplaces
<1>6. ASSUME NEW p \in Receivers, Merge(p)
      PROVE  MergeDisplaces(r, f)
  <2> DEFINE m == recv[p].msg
  <2>1. recv[p] \in [phase : {"observe", "merge"}, msg : PeerMappings]
    BY <1>6 DEF Merge, Inv, TypeOK, Idle
  <2>2. m.real \in IPKey /\ m.fake \in IPKey /\ m.version \in Nat
    BY <2>1, IPPoolAssumption DEF Mapping
  <2>3. PICK exp : pool' = AddMapping(pool, m.real, m.fake, m.version, exp)
    BY <1>6 DEF Merge
  <2>4. recv[p].phase = "merge" /\ recv'[p] = Idle
    BY <1>6 DEF Merge, Inv, TypeOK
  <2> HIDE DEF m
  <2>5. ~Refused(pool, m.real, m.fake, m.version)
    BY <1>b, <2>3 DEF AddMapping
  <2>6. m.real = r \/ f = m.fake
    <3>1. r # m.real /\ r \notin Lookup(pool.globalFakeToReal, m.fake)
            => MapsTo(pool', r, f)
      BY <1>a, <2>3, <2>5 DEF AddMapping, Install, Drop, Put, Delete, MapsTo
    <3>2. r \in Lookup(pool.globalFakeToReal, m.fake) => f = m.fake
      BY <1>a DEF Lookup, Mirror
    <3> QED  BY <3>1, <3>2
  <2>7. pool.globalVersions[f] <= m.version
    BY <1>a, <2>2, <2>5, <2>6, NotRefused
  <2>8. pool.globalVersions[f] \in Nat
    BY <1>a DEF IsPool, IsMap, Mirror
  <2> QED  BY <2>2, <2>4, <2>6, <2>7, <2>8 DEF MergeDisplaces, m
<1>7. CASE PruneDelete
  <2>1. Expired(pool, r, prune.now)
    BY <1>7, <1>a DEF PruneDelete, RemoveExpired, Drop, Delete, MapsTo
  <2>2. prune.now \in Nat /\ prune.now <= clock
    BY <1>a DEF Inv, TypeOK
  <2> QED  BY <1>a, <2>1, <2>2 DEF Expired
<1>8. ASSUME UNCHANGED pool PROVE FALSE
  BY <1>b, <1>8
<1> QED
  BY <1>1, <1>3, <1>4, <1>5, <1>6, <1>7, <1>8
     DEF Next, Resolve, Begin, FastHit, FastMiss, Receive, Observe,
         PruneStart, PruneScan, Tick, vars

\* A lease that runs is taken by nothing but a merge that is not older or the
\* rollback of the call that allocated it: pruning and allocation act on an
\* earlier look at the pool and on an earlier time, and still never take it.
THEOREM LiveLeaseCorrect == Spec => LiveLeaseKept
<1>1. Inv /\ [Next]_vars => [KeptStep]_vars
  BY NextKeeps
<1> QED  BY <1>1, Invariance, PTL DEF Spec, LiveLeaseKept, KeptStep

\* The step that FakeNeverRegresses allows.
ForwardStep ==
  \A f \in Leased(pool) \cap Leased(pool') :
     \/ pool.globalVersions[f] < pool'.globalVersions[f]
     \/ /\ pool.globalVersions[f] = pool'.globalVersions[f]
        /\ KeyLeq(pool.globalFakeToReal[f], pool'.globalFakeToReal[f])

\* KeyLeq is reflexive and total on address keys.
LEMMA KeyLeqTotal ==
  ASSUME NEW a \in IPKey, NEW b \in IPKey
  PROVE  KeyLeq(a, a) /\ (KeyLeq(a, b) \/ KeyLeq(b, a))
  BY DEF KeyLeq, IPKey

\* Every step moves the meaning of a fake forward or leaves it.
LEMMA NextForward == Inv /\ [Next]_vars => ForwardStep
<1> SUFFICES ASSUME Inv, [Next]_vars, NEW f \in Leased(pool) \cap Leased(pool')
             PROVE  \/ pool.globalVersions[f] < pool'.globalVersions[f]
                    \/ /\ pool.globalVersions[f] = pool'.globalVersions[f]
                       /\ KeyLeq(pool.globalFakeToReal[f], pool'.globalFakeToReal[f])
  BY DEF ForwardStep
<1> DEFINE r == pool.globalFakeToReal[f]
           Forward ==
             \/ pool.globalVersions[f] < pool'.globalVersions[f]
             \/ /\ pool.globalVersions[f] = pool'.globalVersions[f]
                /\ KeyLeq(r, pool'.globalFakeToReal[f])
<1>a. /\ IsPool(pool) /\ Mirror(pool) /\ hlc \in Nat
      /\ f \in IPKey /\ r \in IPKey /\ f \in DOMAIN pool.globalVersions
      /\ pool.globalVersions[f] \in Nat /\ pool.globalVersions[f] <= hlc
  BY DEF Inv, TypeOK, MapsMirror, HLCAhead, Mirror, IsPool, IsMap, Leased
<1>b. KeyLeq(r, r)
  BY <1>a, KeyLeqTotal
<1>1. ASSUME pool'.globalFakeToReal[f] = r,
             pool'.globalVersions[f] = pool.globalVersions[f]
      PROVE  Forward
  BY <1>1, <1>b
<1>2. ASSUME NEW reals, NEW fakes, pool' = Drop(pool, reals, fakes)
      PROVE  Forward
  <2>1. f \in DOMAIN pool'.globalFakeToReal /\ f \notin fakes
    BY <1>2 DEF Leased, Drop, Delete
  <2> QED  BY <1>a, <1>1, <1>2, <2>1 DEF Drop, Delete
<1>3. ASSUME NEW t \in Resolvers, NEW q, NEW wall \in WallTimes, SlowAllocate(t, q, wall)
      PROVE  Forward
  <2> DEFINE v == GetNextVersion(hlc, wall)
  <2>1. PICK g, exp : pool' = Install(WithoutExpired(q), q, g, v, exp)
    BY <1>3 DEF SlowAllocate
  <2>2. v \in Nat /\ v > hlc
    BY <1>a, IPPoolAssumption DEF GetNextVersion
  <2> HIDE DEF v
  <2>3. CASE f = g
    BY <1>a, <2>1, <2>2, <2>3 DEF Install, Put
  <2>4. CASE f # g
    BY <1>1, <1>a, <2>1, <2>4, Zenon
       DEF Install, Put, WithoutExpired, Drop, Delete, Leased
  <2> QED  BY <2>3, <2>4
<1>4. ASSUME NEW p \in Receivers, Merge(p)
      PROVE  Forward
  <2> DEFINE m == recv[p].msg
  <2>1. recv[p] \in [phase : {"observe", "merge"}, msg : PeerMappings]
    BY <1>4 DEF Merge, Inv, TypeOK, Idle
  <2>2. m.real \in IPKey /\ m.fake \in IPKey /\ m.version \in Nat
    BY <2>1, IPPoolAssumption DEF Mapping
  <2>3. PICK exp : pool' = AddMapping(pool, m.real, m.fake, m.version, exp)
    BY <1>4 DEF Merge
  <2> HIDE DEF m
  <2>4. CASE Refused(pool, m.real, m.fake, m.version)
    BY <1>1, <2>3, <2>4 DEF AddMapping
  <2>5. CASE ~Refused(pool, m.real, m.fake, m.version) /\ f # m.fake
    BY <1>1, <1>a, <2>3, <2>5
       DEF AddMapping, Install, Put, Drop, Delete, Leased
  <2>6. CASE ~Refused(pool, m.real, m.fake, m.version) /\ f = m.fake
    <3>1. /\ pool'.globalFakeToReal[f] = m.real
          /\ pool'.globalVersions[f] = m.version
      BY <2>3, <2>6, Zenon DEF AddMapping, Install, Put
    <3>2. ~Loses(pool, m.version, f, KeyLeq(m.real, r))
      BY <1>a, <2>6 DEF Refused, Lookup, Leased
    <3>3. KeyLeq(m.real, r) \/ KeyLeq(r, m.real)
      BY <1>a, <2>2, KeyLeqTotal
    <3> QED  BY <1>a, <2>2, <3>1, <3>2, <3>3 DEF Loses
  <2> QED  BY <2>4, <2>5, <2>6
<1>5. ASSUME NEW t \in Resolvers, NEW q, SlowHit(t, q)
      PROVE  Forward
  <2>1. /\ pool'.globalFakeToReal = pool.globalFakeToReal
        /\ pool'.globalVersions = pool.globalVersions
    BY <1>5, <1>a DEF SlowHit, Renewed, IsPool
  <2> QED  BY <1>1, <2>1
<1>6. ASSUME UNCHANGED pool PROVE Forward
  BY <1>1, <1>6
<1>7. ASSUME NEW t \in Resolvers, NEW q, SlowExhausted(t, q)
      PROVE  Forward
  BY <1>2, <1>7 DEF SlowExhausted, WithoutExpired
<1>8. ASSUME NEW t \in Resolvers, NEW q \in todo[t], Rollback(t, q)
      PROVE  Forward
  BY <1>2, <1>6, <1>8, Zenon DEF Rollback, RemoveMapping
<1>9. CASE PruneDelete
  BY <1>2, <1>9, Zenon DEF PruneDelete, RemoveExpired
<1> QED
  BY <1>3, <1>4, <1>5, <1>6, <1>7, <1>8, <1>9
     DEF Next, Resolve, Begin, FastHit, FastMiss, Receive, Observe,
         PruneStart, PruneScan, Tick, vars

\* While a fake stays leased, the pair (version, real address) it stands for
\* never goes back, whatever the order of merges and allocations and however
\* the wall clock steps (the tie-break of AddMapping, GetNextVersion).
THEOREM ForwardCorrect == Spec => FakeNeverRegresses
<1>1. Inv /\ [Next]_vars => [ForwardStep]_vars
  BY NextForward
<1> QED  BY <1>1, Invariance, PTL DEF Spec, FakeNeverRegresses, ForwardStep

-----------------------------------------------------------------------------
(***************************************************************************)
(* Proof of FailedCallLeavesNothing.  A mapping that a rollback has taken  *)
(* out does not come back: whoever allocates the same fake for the same    *)
(* address does so with a version above all that the clock has given out.  *)
(***************************************************************************)

\* The mapping of r to a fake with a version, n, is out of the pool, or a peer
\* has sent it.
Gone(r, n) ==
  MapsTo(pool, r, n.fake) /\ pool.globalVersions[n.fake] = n.version
    => \E m \in PeerMappings :
          m.real = r /\ m.fake = n.fake /\ m.version = n.version

\* The clock is not behind what calls have allocated, and what a rollback has
\* dealt with is gone.
FreshInv ==
  \A t \in Resolvers : \A r \in DOMAIN fresh[t] :
     /\ fresh[t][r].version <= hlc
     /\ pc[t] = "failed" => Gone(r, fresh[t][r])
     /\ pc[t] = "undo" /\ r \notin todo[t] => Gone(r, fresh[t][r])

\* Together with what holds of the pool.
RollbackInv == Inv /\ FreshInv

\* What the proofs below use of the calls' state.
LEMMA FreshFacts ==
  ASSUME Inv
  PROVE  /\ IsPool(pool) /\ Mirror(pool) /\ hlc \in Nat
         /\ DOMAIN pc = Resolvers /\ DOMAIN todo = Resolvers /\ DOMAIN fresh = Resolvers
         /\ \A t \in Resolvers : \A r \in DOMAIN fresh[t] : fresh[t][r].version \in Nat
<1>1. TypeOK /\ MapsMirror
  BY DEF Inv
<1>2. ASSUME NEW t \in Resolvers, NEW r \in DOMAIN fresh[t]
      PROVE  fresh[t][r].version \in Nat
  BY <1>1 DEF TypeOK, IsMap
<1> QED  BY <1>1, <1>2 DEF TypeOK, MapsMirror

\* A mapping with a version that the clock has passed enters the pool only if
\* a peer has sent it.
LEMMA NoReturn ==
  ASSUME Inv, [Next]_vars, NEW r, NEW f, NEW v \in Nat, v <= hlc,
         MapsTo(pool', r, f), pool'.globalVersions[f] = v
  PROVE  \/ MapsTo(pool, r, f) /\ pool.globalVersions[f] = v
         \/ \E m \in PeerMappings : m.real = r /\ m.fake = f /\ m.version = v
<1> DEFINE Goal == \/ MapsTo(pool, r, f) /\ pool.globalVersions[f] = v
                   \/ \E m \in PeerMappings : m.real = r /\ m.fake = f /\ m.version = v
<1>a. IsPool(pool) /\ Mirror(pool) /\ hlc \in Nat
  BY FreshFacts
<1>b. Mirror(pool')
  BY NextInv DEF Inv, MapsMirror
<1>c. f \in DOMAIN pool'.globalVersions
  BY <1>b DEF Mirror, MapsTo
<1>1. ASSUME NEW reals, NEW fakes, pool' = Drop(pool, reals, fakes)
      PROVE  Goal
  BY <1>1, <1>c DEF Drop, Delete, MapsTo
<1>2. ASSUME UNCHANGED pool PROVE Goal
  BY <1>2
<1>3. ASSUME NEW t \in Resolvers, NEW q, SlowHit(t, q)
      PROVE  Goal
  <2>1. /\ pool'.realToFake = pool.realToFake
        /\ pool'.globalVersions = pool.globalVersions
    BY <1>3, <1>a DEF SlowHit, Renewed, IsPool
  <2> QED  BY <2>1 DEF MapsTo
<1>4. ASSUME NEW t \in Resolvers, NEW q, NEW wall \in WallTimes, SlowAllocate(t, q, wall)
      PROVE  Goal
  <2> DEFINE w == GetNextVersion(hlc, wall)
  <2>1. PICK g, exp : pool' = Install(WithoutExpired(q), q, g, w, exp)
    BY <1>4 DEF SlowAllocate
  <2>2. w \in Nat /\ w > hlc
    BY <1>a, IPPoolAssumption DEF GetNextVersion
  <2> HIDE DEF w
  <2>3. f # g
    BY <1>a, <2>1, <2>2 DEF Install, Put
  <2>4. r # q
    BY <2>1, <2>3 DEF Install, Put, MapsTo
  <2> QED  BY <1>c, <2>1, <2>3, <2>4 DEF Install, Put, WithoutExpired, Drop, Delete, MapsTo
<1>5. ASSUME NEW p \in Receivers, Merge(p)
      PROVE  Goal
  <2> DEFINE m == recv[p].msg
  <2>1. recv[p] \in [phase : {"observe", "merge"}, msg : PeerMappings]
    BY <1>5 DEF Merge, Inv, TypeOK, Idle
  <2>2. m \in PeerMappings
    BY <2>1
  <2>3. PICK exp : pool' = AddMapping(pool, m.real, m.fake, m.version, exp)
    BY <1>5 DEF Merge
  <2> HIDE DEF m
  <2>4. CASE Refused(pool, m.real, m.fake, m.version)
    BY <1>2, <2>3, <2>4 DEF AddMapping
  <2>5. CASE ~Refused(pool, m.real, m.fake, m.version)
    <3>1. PICK reals, fakes :
             pool' = Install(Drop(pool, reals, fakes), m.real, m.fake, m.version, exp)
      BY <2>3, <2>5 DEF AddMapping
    <3>2. CASE f = m.fake
      <4>1. pool'.globalVersions[f] = m.version /\ pool'.globalFakeToReal[f] = m.real
        BY <3>1, <3>2 DEF Install, Put
      <4>2. pool'.globalFakeToReal[f] = r
        BY <1>b DEF Mirror, MapsTo
      <4> QED  BY <2>2, <3>2, <4>1, <4>2, ZenonT(30)
    <3>3. CASE f # m.fake
      <4>1. r # m.real
        BY <3>1, <3>3 DEF Install, Put, MapsTo
      <4> QED  BY <1>c, <3>1, <3>3, <4>1, ZenonT(30) DEF Install, Put, Drop, Delete, MapsTo
    <3> QED  BY <3>2, <3>3
  <2> QED  BY <2>4, <2>5
<1>6. ASSUME NEW t \in Resolvers, NEW q, SlowExhausted(t, q)
      PROVE  Goal
  BY <1>1, <1>6 DEF SlowExhausted, WithoutExpired
<1>7. ASSUME NEW t \in Resolvers, NEW q \in todo[t], Rollback(t, q)
      PROVE  Goal
  BY <1>1, <1>2, <1>7 DEF Rollback, RemoveMapping
<1>8. CASE PruneDelete
  BY <1>1, <1>8 DEF PruneDelete, RemoveExpired
<1> QED
  BY <1>2, <1>3, <1>4, <1>5, <1>6, <1>7, <1>8
     DEF Next, Resolve, Begin, FastHit, FastMiss, Receive, Observe,
         PruneStart, PruneScan, Tick, vars

\* So a mapping that is gone stays so.
LEMMA GoneStays ==
  ASSUME Inv, [Next]_vars, NEW t \in Resolvers, NEW r \in DOMAIN fresh[t],
         fresh'[t] = fresh[t], fresh[t][r].version <= hlc, Gone(r, fresh[t][r])
  PROVE  Gone(r, fresh[t][r])'
<1>1. fresh[t][r].version \in Nat
  BY FreshFacts
<1> DEFINE f == fresh[t][r].fake
           v == fresh[t][r].version
<1>2. MapsTo(pool', r, f) /\ pool'.globalVersions[f] = v =>
         \/ MapsTo(pool, r, f) /\ pool.globalVersions[f] = v
         \/ \E m \in PeerMappings : m.real = r /\ m.fake = f /\ m.version = v
  BY <1>1, NoReturn
<1> QED  BY <1>2 DEF Gone

\* The clock never goes back.
LEMMA ClockForward ==
  ASSUME Inv, [Next]_vars
  PROVE  hlc' \in Nat /\ hlc <= hlc'
<1>1. hlc \in Nat /\ WallTimes \subseteq Nat
  BY FreshFacts, IPPoolAssumption
<1>2. hlc' \in Nat
  BY NextInv, Zenon DEF Inv, TypeOK
<1>3. ASSUME NEW p \in Receivers, NEW wall \in WallTimes, Observe(p, wall)
      PROVE  hlc <= hlc'
  <2>1. hlc' = ObserveVersion(hlc, wall, recv[p].msg.version)
    BY <1>3 DEF Observe
  <2>2. recv[p].msg.version \in Nat
    BY <1>3, IPPoolAssumption DEF Observe, Inv, TypeOK, Idle, Mapping
  <2> QED  BY <1>1, <2>1, <2>2 DEF ObserveVersion
<1>4. ASSUME NEW t \in Resolvers, NEW q, NEW wall \in WallTimes, SlowAllocate(t, q, wall)
      PROVE  hlc <= hlc'
  BY <1>1, <1>4 DEF SlowAllocate, GetNextVersion
<1>5. ASSUME UNCHANGED hlc PROVE hlc <= hlc'
  BY <1>1, <1>5
<1> QED
  BY <1>2, <1>3, <1>4, <1>5
     DEF Next, Resolve, Begin, FastHit, FastMiss, SlowHit, SlowExhausted, Rollback,
         Receive, Merge, PruneStart, PruneScan, PruneDelete, Tick, vars

\* Every step keeps the invariant.
LEMMA NextFresh == RollbackInv /\ [Next]_vars => FreshInv'
<1> SUFFICES ASSUME RollbackInv, [Next]_vars, NEW s \in Resolvers, NEW r \in DOMAIN fresh'[s]
             PROVE  /\ fresh'[s][r].version <= hlc'
                    /\ pc'[s] = "failed" => Gone(r, fresh[s][r])'
                    /\ pc'[s] = "undo" /\ r \notin todo'[s] => Gone(r, fresh[s][r])'
  BY Zenon DEF FreshInv
<1> DEFINE Goal == /\ fresh'[s][r].version <= hlc'
                   /\ pc'[s] = "failed" => Gone(r, fresh[s][r])'
                   /\ pc'[s] = "undo" /\ r \notin todo'[s] => Gone(r, fresh[s][r])'
<1>a. Inv /\ FreshInv
  BY DEF RollbackInv
<1>b. /\ DOMAIN pc = Resolvers /\ DOMAIN todo = Resolvers /\ DOMAIN fresh = Resolvers
      /\ hlc \in Nat
      /\ \A t \in Resolvers : \A q \in DOMAIN fresh[t] : fresh[t][q].version \in Nat
  BY <1>a, FreshFacts, Zenon
<1>c. hlc' \in Nat /\ hlc <= hlc'
  BY <1>a, ClockForward
<1>1. ASSUME fresh'[s] = fresh[s],
             pc'[s] = "failed" => Gone(r, fresh[s][r]) \/ Gone(r, fresh[s][r])',
             pc'[s] = "undo" /\ r \notin todo'[s]
               => Gone(r, fresh[s][r]) \/ Gone(r, fresh[s][r])'
      PROVE  Goal
  <2>1. r \in DOMAIN fresh[s] /\ fresh[s][r].version \in Nat /\ fresh[s][r].version <= hlc
    BY <1>1, <1>a, <1>b DEF FreshInv
  <2>2. fresh'[s][r].version <= hlc'
    BY <1>1, <1>b, <1>c, <2>1
  <2>3. Gone(r, fresh[s][r]) => Gone(r, fresh[s][r])'
    BY <1>1, <1>a, <2>1, GoneStays
  <2> QED  BY <1>1, <2>2, <2>3, ZenonT(30)
<1>2. ASSUME fresh'[s] = fresh[s], pc'[s] = pc[s], todo'[s] = todo[s]
      PROVE  Goal
  <2>1. r \in DOMAIN fresh[s]
    BY <1>2
  <2> QED  BY <1>1, <1>2, <1>a, <2>1 DEF FreshInv
<1>3. ASSUME fresh'[s] = fresh[s], pc'[s] \notin {"failed", "undo"}
      PROVE  Goal
  BY <1>1, <1>3, ZenonT(30)
<1>4. ASSUME NEW t \in Resolvers, Resolve(t), s # t
      PROVE  Goal
  <2>1. fresh'[s] = fresh[s] /\ pc'[s] = pc[s] /\ todo'[s] = todo[s]
    BY <1>4, <1>b, Zenon DEF Resolve, FastHit, FastMiss, SlowHit, SlowAllocate, SlowExhausted,
                      Rollback, Answer
  <2> QED  BY <1>2, <2>1
<1>5. ASSUME NEW q, FastHit(s, q) \/ FastMiss(s, q) \/ SlowHit(s, q)
      PROVE  Goal
  <2>1. fresh'[s] = fresh[s] /\ pc'[s] \notin {"failed", "undo"}
    BY <1>5, <1>b DEF FastHit, FastMiss, SlowHit, Answer
  <2> QED  BY <1>3, <2>1
<1>6. ASSUME NEW q, NEW wall \in WallTimes, SlowAllocate(s, q, wall)
      PROVE  Goal
  <2>1. PICK f : /\ fresh' = [fresh EXCEPT ![s] = Put(@, q, [fake |-> f, version |-> hlc'])]
                 /\ Answer(s, q, f)
    BY <1>6, Zenon DEF SlowAllocate
  <2>2. pc'[s] \notin {"failed", "undo"}
    BY <1>b, <2>1 DEF Answer
  <2>3. fresh'[s] = Put(fresh[s], q, [fake |-> f, version |-> hlc'])
    BY <1>b, <2>1
  <2>4. CASE r = q
    BY <1>c, <2>2, <2>3, <2>4 DEF Put
  <2>5. CASE r # q
    <3>1. r \in DOMAIN fresh[s] /\ fresh'[s][r] = fresh[s][r]
      BY <2>3, <2>5 DEF Put
    <3>2. fresh[s][r].version <= hlc
      BY <1>a, <3>1 DEF FreshInv
    <3> QED  BY <1>b, <1>c, <2>2, <3>1, <3>2
  <2> QED  BY <2>4, <2>5
<1>7. ASSUME NEW q, SlowExhausted(s, q)
      PROVE  Goal
  <2>1. /\ fresh'[s] = fresh[s] /\ todo'[s] = DOMAIN fresh[s]
        /\ pc'[s] = IF DOMAIN fresh[s] = {} THEN "failed" ELSE "undo"
    BY <1>7, <1>b DEF SlowExhausted
  <2>2. r \in DOMAIN fresh[s]
    BY <2>1
  <2> QED  BY <1>1, <2>1, <2>2
<1>8. ASSUME NEW q \in todo[s], Rollback(s, q)
      PROVE  Goal
  <2>1. /\ fresh'[s] = fresh[s] /\ todo'[s] = todo[s] \ {q} /\ pc[s] = "undo"
        /\ pc'[s] = IF todo[s] = {q} THEN "failed" ELSE "undo"
        /\ pool' = RemoveMapping(pool, q, fresh[s][q].fake)
    BY <1>8, <1>b DEF Rollback
  <2>2. CASE r = q
    <3>1. ~MapsTo(pool', r, fresh[s][r].fake)
      BY <2>1, <2>2 DEF RemoveMapping, MapsTo, Drop, Delete
    <3>2. Gone(r, fresh[s][r])'
      BY <2>1, <3>1 DEF Gone
    <3> QED  BY <1>1, <2>1, <3>2
  <2>3. CASE r # q
    <3>1. (pc'[s] = "failed" \/ r \notin todo'[s]) => r \notin todo[s]
      BY <2>1, <2>3
    <3>2. r \notin todo[s] => Gone(r, fresh[s][r])
      BY <1>a, <2>1 DEF FreshInv
    <3> QED  BY <1>1, <2>1, <3>1, <3>2, Zenon
  <2> QED  BY <2>2, <2>3
<1>9. ASSUME NEW t \in Resolvers, NEW q \in Queries, Begin(t, q)
      PROVE  Goal
  <2>1. s # t
    BY <1>9, <1>b DEF Begin, EmptyMap
  <2>2. fresh'[s] = fresh[s] /\ pc'[s] = pc[s] /\ todo'[s] = todo[s]
    BY <1>9, <1>b, <2>1 DEF Begin
  <2> QED  BY <1>2, <2>2
<1>10. ASSUME UNCHANGED call PROVE Goal
  BY <1>2, <1>10 DEF call
<1> QED
  <2>1. ASSUME NEW t \in Resolvers, Resolve(t) PROVE Goal
    BY <1>4, <1>5, <1>6, <1>7, <1>8, <2>1, Zenon DEF Resolve
  <2> QED
    BY <1>9, <1>10, <2>1
       DEF Next, Receive, Observe, Merge, PruneStart, PruneScan, PruneDelete, Tick, vars, call

\* A call that has failed leaves none of its mappings in the pool, for any
\* number of other calls, merges and pruning passes that ran during its
\* rollback, unless a peer sends the same mapping with the same version.
THEOREM RollbackCorrect == Spec => []FailedCallLeavesNothing
<1>1. Init => RollbackInv
  <2>1. Init => FreshInv
    BY DEF Init, FreshInv, EmptyMap
  <2> QED  BY <2>1, InitInv DEF RollbackInv
<1>2. RollbackInv /\ [Next]_vars => RollbackInv'
  BY NextInv, NextFresh DEF RollbackInv
<1>3. RollbackInv => FailedCallLeavesNothing
  BY DEF RollbackInv, FreshInv, Gone, FailedCallLeavesNothing
<1> QED  BY <1>1, <1>2, <1>3, PTL DEF Spec

=============================================================================

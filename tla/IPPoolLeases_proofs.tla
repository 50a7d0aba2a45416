------------------------ MODULE IPPoolLeases_proofs -------------------------
(***************************************************************************)
(* Proofs about the leases of IPPool and the times at which they end: that *)
(* an answer's lease is long enough (AnswerLease), that a pruning pass     *)
(* frees what had run out when it began (PassFreesExpired), and that the   *)
(* pool implements LeaseTable.                                             *)
(***************************************************************************)
EXTENDS IPPoolLeases, IPPool_proofs

-----------------------------------------------------------------------------
(* The times of calls *)

\* A call in progress began at most MaxStall ago.
CallsAreShort ==
  \A t \in Resolvers :
     pc[t] \in {"fast", "slow", "undo"} => clock <= now[t] + MaxStall

\* The facts about times, leases and calls that the proofs below use.
LEMMA LeaseFacts ==
  ASSUME Inv
  PROVE  /\ IsPool(pool) /\ Mirror(pool)
         /\ clock \in Nat
         /\ \A t \in Resolvers : now[t] \in Nat /\ now[t] <= clock
         /\ DOMAIN pool.expiries = DOMAIN pool.realToFake
         /\ \A q \in DOMAIN pool.expiries : pool.expiries[q] \in Nat
         /\ pc = [t \in Resolvers |-> pc[t]] /\ now = [t \in Resolvers |-> now[t]]
         /\ DOMAIN result = Resolvers
<1>1. TypeOK /\ MapsMirror
  BY DEF Inv
<1>2. IsPool(pool) /\ Mirror(pool)
  BY <1>1 DEF TypeOK, MapsMirror
<1>3. clock \in Nat /\ now \in [Resolvers -> 0 .. clock] /\ DOMAIN result = Resolvers
  BY <1>1 DEF TypeOK
<1>4. \A t \in Resolvers : now[t] \in Nat /\ now[t] <= clock
  BY <1>3
<1>5. pc = [t \in Resolvers |-> pc[t]] /\ now = [t \in Resolvers |-> now[t]]
  BY <1>1 DEF TypeOK
<1>6. DOMAIN pool.expiries = DOMAIN pool.realToFake
  BY <1>2 DEF Mirror
<1>7. \A q \in DOMAIN pool.expiries : pool.expiries[q] \in Nat
  BY <1>2 DEF IsPool, IsMap
<1> QED  BY <1>2, <1>3, <1>4, <1>5, <1>6, <1>7

\* Only the first step of a call, and time, bear on how long it has run.
LEMMA NextShort == Inv /\ CallsAreShort /\ [Next]_vars => CallsAreShort'
<1> SUFFICES ASSUME Inv, CallsAreShort, [Next]_vars, NEW s \in Resolvers,
                    pc'[s] \in {"fast", "slow", "undo"}
             PROVE  clock' <= now'[s] + MaxStall
  BY DEF CallsAreShort
<1>a. /\ clock \in Nat /\ MaxStall \in Nat /\ now[s] \in Nat
      /\ pc = [t \in Resolvers |-> pc[t]] /\ now = [t \in Resolvers |-> now[t]]
  BY LeaseFacts, IPPoolAssumption
<1>1. ASSUME UNCHANGED <<clock, now>>, pc[s] \in {"fast", "slow", "undo"}
      PROVE  clock' <= now'[s] + MaxStall
  BY <1>1 DEF CallsAreShort
<1>2. ASSUME NEW t \in Resolvers, Resolve(t)
      PROVE  clock' <= now'[s] + MaxStall
  <2>1. UNCHANGED <<clock, now>>
    BY <1>2 DEF Resolve, FastHit, FastMiss, SlowHit, SlowAllocate, SlowExhausted, Rollback
  <2>2. pc[t] \in {"fast", "slow", "undo"} /\ (s # t => pc'[s] = pc[s])
    BY <1>2, <1>a, Zenon
       DEF Resolve, FastHit, FastMiss, SlowHit, SlowAllocate, SlowExhausted, Rollback, Answer
  <2> QED  BY <1>1, <2>1, <2>2
<1>3. ASSUME NEW t \in Resolvers, NEW q \in Queries, Begin(t, q)
      PROVE  clock' <= now'[s] + MaxStall
  <2>1. CASE s = t
    BY <1>3, <1>a, <2>1 DEF Begin
  <2>2. CASE s # t
    BY <1>3, <1>a, <2>2, Zenon DEF Begin, CallsAreShort
  <2> QED  BY <2>1, <2>2
<1>4. CASE Tick
  BY <1>4, <1>a DEF Tick, call
<1>5. ASSUME UNCHANGED <<clock, call>> PROVE clock' <= now'[s] + MaxStall
  BY <1>1, <1>5 DEF call
<1> QED
  BY <1>2, <1>3, <1>4, <1>5
     DEF Next, Receive, Observe, Merge, PruneStart, PruneScan, PruneDelete, vars, call

-----------------------------------------------------------------------------
(***************************************************************************)
(* Proof that IPPool implements LeaseTable.  Every section that changes    *)
(* the pool is one step of the table: the maps of a pool in which both     *)
(* directions agree hold one lease per real address.                       *)
(***************************************************************************)

\* The table that a well-formed pool stands for.
LEMMA LeaseOf ==
  ASSUME NEW p, IsPool(p), Mirror(p)
  PROVE  /\ DOMAIN LeasesOf(p) = DOMAIN p.realToFake
         /\ \A r \in DOMAIN p.realToFake :
              /\ LeasesOf(p)[r] = [fake    |-> p.realToFake[r],
                                   version |-> p.globalVersions[p.realToFake[r]],
                                   expires |-> p.expiries[r]]
              /\ p.expiries[r] \in Nat
              /\ p.realToFake[r] \in DOMAIN p.globalVersions
              /\ p.globalVersions[p.realToFake[r]] \in Nat
  BY DEF LeasesOf, GetVersion, IsPool, IsMap, Mirror

\* A lease is the same if its fake, its version and its expiry are.
LEMMA SameLeases ==
  ASSUME IsPool(pool), Mirror(pool), IsPool(pool'), Mirror(pool'), NEW S,
         \A r \in S :
            /\ r \in DOMAIN pool.realToFake <=> r \in DOMAIN pool'.realToFake
            /\ r \in DOMAIN pool.realToFake =>
                 /\ pool'.realToFake[r] = pool.realToFake[r]
                 /\ pool'.expiries[r] = pool.expiries[r]
                 /\ pool'.globalVersions[pool.realToFake[r]]
                      = pool.globalVersions[pool.realToFake[r]]
  PROVE  Table!Same(S)
<1>1. /\ DOMAIN LeasesOf(pool) = DOMAIN pool.realToFake
      /\ DOMAIN LeasesOf(pool') = DOMAIN pool'.realToFake
  BY LeaseOf
<1>2. ASSUME NEW r \in S, r \in DOMAIN pool.realToFake
      PROVE  LeasesOf(pool')[r] = LeasesOf(pool)[r]
  <2>1. r \in DOMAIN pool'.realToFake
    BY <1>2
  <2>2. LeasesOf(pool)[r] = [fake    |-> pool.realToFake[r],
                             version |-> pool.globalVersions[pool.realToFake[r]],
                             expires |-> pool.expiries[r]]
    BY <1>2, LeaseOf
  <2>3. LeasesOf(pool')[r] = [fake    |-> pool'.realToFake[r],
                              version |-> pool'.globalVersions[pool'.realToFake[r]],
                              expires |-> pool'.expiries[r]]
    BY <2>1, LeaseOf
  <2> QED  BY <1>2, <2>2, <2>3
<1> QED  BY <1>1, <1>2 DEF Table!Same

\* The pool before and after a step, and the tables they stand for.
Facts ==
  /\ IsPool(pool) /\ Mirror(pool) /\ IsPool(pool') /\ Mirror(pool')
  /\ clock \in Nat /\ hlc \in Nat
  /\ \A f \in DOMAIN pool.globalVersions : pool.globalVersions[f] <= hlc
  /\ \A t \in Resolvers :
        /\ now[t] \in Nat /\ now[t] <= clock
        /\ pc[t] = "slow" => clock <= now[t] + MaxStall
  /\ \A t \in Resolvers : todo[t] \subseteq Reals

\* They hold of every step.
LEMMA StepFacts == Inv /\ CallsAreShort /\ [Next]_vars => Facts
<1> SUFFICES ASSUME Inv, CallsAreShort, [Next]_vars PROVE Facts
  OBVIOUS
<1>1. Inv'
  BY NextInv
<1>2. IsPool(pool) /\ Mirror(pool) /\ IsPool(pool') /\ Mirror(pool')
  BY <1>1 DEF Inv, TypeOK, MapsMirror
<1>3. /\ clock \in Nat
      /\ \A t \in Resolvers : now[t] \in Nat /\ now[t] <= clock
  BY LeaseFacts
<1>4. hlc \in Nat /\ \A f \in DOMAIN pool.globalVersions : pool.globalVersions[f] <= hlc
  BY <1>2 DEF Inv, TypeOK, HLCAhead, Leased, Mirror
<1>5. \A t \in Resolvers : todo[t] \subseteq Reals
  BY DEF Inv, TypeOK
<1>6. \A t \in Resolvers : pc[t] = "slow" => clock <= now[t] + MaxStall
  BY DEF CallsAreShort
<1> QED  BY <1>2, <1>3, <1>4, <1>5, <1>6 DEF Facts

\* The table before and after a step, in terms of the maps of the pool.
LEMMA Tables ==
  ASSUME Facts
  PROVE  /\ DOMAIN LeasesOf(pool) = DOMAIN pool.realToFake
         /\ \A r \in DOMAIN pool.realToFake :
              /\ LeasesOf(pool)[r].fake = pool.realToFake[r]
              /\ LeasesOf(pool)[r].version = pool.globalVersions[pool.realToFake[r]]
              /\ LeasesOf(pool)[r].expires = pool.expiries[r]
              /\ pool.expiries[r] \in Nat
              /\ pool.realToFake[r] \in DOMAIN pool.globalVersions
              /\ pool.globalVersions[pool.realToFake[r]] \in Nat
         /\ DOMAIN LeasesOf(pool') = DOMAIN pool'.realToFake
         /\ \A r \in DOMAIN pool'.realToFake :
              /\ LeasesOf(pool')[r].fake = pool'.realToFake[r]
              /\ LeasesOf(pool')[r].version = pool'.globalVersions[pool'.realToFake[r]]
              /\ LeasesOf(pool')[r].expires = pool'.expiries[r]
              /\ pool'.expiries[r] \in Nat
<1>1. IsPool(pool) /\ Mirror(pool) /\ IsPool(pool') /\ Mirror(pool')
  BY DEF Facts
<1>2. ASSUME NEW r \in DOMAIN pool.realToFake
      PROVE  /\ LeasesOf(pool)[r].fake = pool.realToFake[r]
             /\ LeasesOf(pool)[r].version = pool.globalVersions[pool.realToFake[r]]
             /\ LeasesOf(pool)[r].expires = pool.expiries[r]
             /\ pool.expiries[r] \in Nat
             /\ pool.realToFake[r] \in DOMAIN pool.globalVersions
             /\ pool.globalVersions[pool.realToFake[r]] \in Nat
  <2>1. LeasesOf(pool)[r] = [fake    |-> pool.realToFake[r],
                                version |-> pool.globalVersions[pool.realToFake[r]],
                                expires |-> pool.expiries[r]]
    BY <1>1, <1>2, LeaseOf
  <2>2. /\ pool.expiries[r] \in Nat /\ pool.realToFake[r] \in DOMAIN pool.globalVersions
        /\ pool.globalVersions[pool.realToFake[r]] \in Nat
    BY <1>1, <1>2, LeaseOf, Zenon
  <2> QED  BY <2>1, <2>2
<1>3. ASSUME NEW r \in DOMAIN pool'.realToFake
      PROVE  /\ LeasesOf(pool')[r].fake = pool'.realToFake[r]
             /\ LeasesOf(pool')[r].version = pool'.globalVersions[pool'.realToFake[r]]
             /\ LeasesOf(pool')[r].expires = pool'.expiries[r]
             /\ pool'.expiries[r] \in Nat
  <2>1. LeasesOf(pool')[r] = [fake    |-> pool'.realToFake[r],
                                version |-> pool'.globalVersions[pool'.realToFake[r]],
                                expires |-> pool'.expiries[r]]
    BY <1>1, <1>3, LeaseOf
  <2>2. /\ pool'.expiries[r] \in Nat /\ pool'.realToFake[r] \in DOMAIN pool'.globalVersions
        /\ pool'.globalVersions[pool'.realToFake[r]] \in Nat
    BY <1>1, <1>3, LeaseOf, Zenon
  <2> QED  BY <2>1, <2>2
<1>4. /\ DOMAIN LeasesOf(pool) = DOMAIN pool.realToFake
      /\ DOMAIN LeasesOf(pool') = DOMAIN pool'.realToFake
  BY <1>1, LeaseOf
<1> QED  BY <1>2, <1>3, <1>4

\* A lease that a call grants runs for the renewal window and no longer than
\* the time-to-live.
LEMMA GrantRunsWell ==
  ASSUME Facts, NEW t \in Resolvers, pc[t] = "slow"
  PROVE  clock + Grace <= now[t] + TTL /\ now[t] + TTL <= clock + TTL
<1>1. TTL \in Nat /\ Grace \in Nat /\ MaxStall \in Nat /\ Grace + MaxStall <= TTL
  BY IPPoolAssumption
<1> QED  BY <1>1 DEF Facts

\* An allocation takes a lease.
LEMMA AllocateTakes ==
  ASSUME Facts, NEW t \in Resolvers, NEW r \in Reals, NEW wall \in WallTimes,
         SlowAllocate(t, r, wall)
  PROVE  Table!Take(r)
<1> DEFINE v == GetNextVersion(hlc, wall)
<1>1. PICK f \in FinalFake(GeometryOf(r), Hash[r], Leased(WithoutExpired(r))) :
         pool' = Install(WithoutExpired(r), r, f, v, now[t] + TTL)
  BY Zenon DEF SlowAllocate
<1>2. v \in Nat /\ v > hlc
  BY IPPoolAssumption DEF Facts, GetNextVersion
<1> HIDE DEF v
<1>3. f \notin Leased(WithoutExpired(r))
  BY RealFacts, FinalFakeFree
<1>4. /\ r \in DOMAIN pool'.realToFake /\ pool'.realToFake[r] = f
      /\ pool'.globalVersions[f] = v /\ pool'.expiries[r] = now[t] + TTL
  BY <1>1 DEF Install, Put
<1>5. r \in DOMAIN pool.realToFake => pool.expiries[r] <= clock
  <2>1. r \in DOMAIN pool.realToFake => r \in DOMAIN pool.expiries /\ pool.expiries[r] \in Nat
    BY Tables, Zenon DEF Facts, Mirror
  <2>2. now[t] \in Nat /\ now[t] <= clock /\ clock \in Nat
    BY Zenon DEF Facts
  <2>3. ~HoldsLease(t, r)
    BY DEF SlowAllocate
  <2> QED  BY <2>1, <2>2, <2>3 DEF HoldsLease
<1>6. clock + Grace <= now[t] + TTL /\ now[t] + TTL <= clock + TTL
  BY GrantRunsWell DEF SlowAllocate
<1>7. ASSUME NEW s \in DOMAIN pool.realToFake, pool.realToFake[s] = f
      PROVE  s = r
  BY <1>3, <1>7 DEF Facts, Mirror, Leased, WithoutExpired, Drop, Delete, Lookup
<1>8. ASSUME NEW s \in DOMAIN pool.realToFake
      PROVE  pool.globalVersions[pool.realToFake[s]] < v
  BY <1>2, Tables DEF Facts
<1>9. Table!Same(Reals \ {r})
  <2>1. ASSUME NEW s \in Reals \ {r}
        PROVE  /\ s \in DOMAIN pool.realToFake <=> s \in DOMAIN pool'.realToFake
               /\ s \in DOMAIN pool.realToFake =>
                    /\ pool'.realToFake[s] = pool.realToFake[s]
                    /\ pool'.expiries[s] = pool.expiries[s]
    BY <1>1, Zenon DEF Facts, Mirror, Install, Put, WithoutExpired, Drop, Delete
  <2>2. ASSUME NEW s \in Reals \ {r}, s \in DOMAIN pool.realToFake
        PROVE  pool'.globalVersions[pool.realToFake[s]]
                 = pool.globalVersions[pool.realToFake[s]]
    <3>1. pool.realToFake[s] # f
      BY <1>7, <2>2, Zenon
    <3>2. pool.realToFake[s] \notin Lookup(pool.realToFake, r)
      <4>1. \A x \in DOMAIN pool.realToFake :
               pool.globalFakeToReal[pool.realToFake[x]] = x
        BY DEF Facts, Mirror
      <4> QED  BY <2>2, <4>1 DEF Lookup
    <3>3. pool'.globalVersions =
            Put(Delete(pool.globalVersions, Lookup(pool.realToFake, r)), f, v)
      <4>1. WithoutExpired(r).globalVersions
              = Delete(pool.globalVersions, Lookup(pool.realToFake, r))
        BY Zenon DEF Facts, IsPool, WithoutExpired, Drop
      <4>2. pool'.globalVersions = Put(WithoutExpired(r).globalVersions, f, v)
        BY <1>1, Zenon DEF Install
      <4> QED  BY <4>1, <4>2
    <3>4. pool.realToFake[s] \in DOMAIN pool.globalVersions
      BY <2>2, Tables, Zenon
    <3> QED  BY <3>1, <3>2, <3>3, <3>4, Zenon DEF Put, Delete
  <2> QED  BY <2>1, <2>2, SameLeases DEF Facts
<1> QED
  BY <1>4, <1>5, <1>6, <1>7, <1>8, <1>9, Tables, ZenonT(30) DEF Table!Take, Table!RunsWell

\* The second lookup renews the lease or leaves the pool alone.
LEMMA HitRenews ==
  ASSUME Facts, NEW t \in Resolvers, NEW r \in Reals, SlowHit(t, r)
  PROVE  Table!Renew(r) \/ pool' = pool
<1> SUFFICES ASSUME pool' # pool PROVE Table!Renew(r)
  OBVIOUS
<1>1. /\ r \in DOMAIN pool.realToFake
      /\ now[t] + Grace > pool.expiries[r]
      /\ pool' = [pool EXCEPT !.expiries = Put(@, r, now[t] + TTL)]
  BY DEF SlowHit, HoldsLease, Renewed
<1>2. /\ pool'.realToFake = pool.realToFake
      /\ pool'.globalVersions = pool.globalVersions
      /\ pool'.expiries = Put(pool.expiries, r, now[t] + TTL)
  BY <1>1 DEF Facts, IsPool
<1>3. pool'.expiries[r] = now[t] + TTL
  BY <1>2 DEF Put
<1>4. clock + Grace <= now[t] + TTL /\ now[t] + TTL <= clock + TTL
  BY GrantRunsWell DEF SlowHit
<1>5. pool.expiries[r] < now[t] + TTL
  <2>1. TTL \in Nat /\ Grace \in Nat /\ MaxStall \in Nat /\ Grace + MaxStall <= TTL
    BY IPPoolAssumption
  <2>2. now[t] \in Nat /\ pool.expiries[r] \in Nat
    BY <1>1, Tables DEF Facts
  <2> QED  BY <1>1, <2>1, <2>2
<1>6. Table!Same(Reals \ {r})
  <2>1. ASSUME NEW s \in Reals \ {r}
        PROVE  /\ s \in DOMAIN pool.realToFake <=> s \in DOMAIN pool'.realToFake
               /\ s \in DOMAIN pool.realToFake =>
                    /\ pool'.realToFake[s] = pool.realToFake[s]
                    /\ pool'.expiries[s] = pool.expiries[s]
                    /\ pool'.globalVersions[pool.realToFake[s]]
                         = pool.globalVersions[pool.realToFake[s]]
    BY <1>2 DEF Facts, Mirror, Put
  <2> QED  BY <2>1, SameLeases DEF Facts
<1>7. LeasesOf(pool')[r] = [LeasesOf(pool)[r] EXCEPT !.expires = LeasesOf(pool')[r].expires]
  <2>1. IsPool(pool) /\ Mirror(pool)
    BY DEF Facts
  <2>a. IsPool(pool') /\ Mirror(pool') /\ r \in DOMAIN pool'.realToFake
    BY <1>1, <1>2 DEF Facts
  <2>2. LeasesOf(pool)[r] = [fake    |-> pool.realToFake[r],
                             version |-> pool.globalVersions[pool.realToFake[r]],
                             expires |-> pool.expiries[r]]
    BY <1>1, <2>1, LeaseOf
  <2>3. LeasesOf(pool')[r] = [fake    |-> pool'.realToFake[r],
                              version |-> pool'.globalVersions[pool'.realToFake[r]],
                              expires |-> pool'.expiries[r]]
    BY <2>a, LeaseOf
  <2> QED  BY <1>2, <2>2, <2>3
<1> QED
  BY <1>1, <1>2, <1>3, <1>4, <1>5, <1>6, <1>7, Tables DEF Table!Renew, Table!RunsWell

\* A merge that is not refused is an adoption.
LEMMA MergeAdopts ==
  ASSUME Facts, NEW r \in IPKey, NEW f \in IPKey, NEW v \in Nat,
         pool' = AddMapping(pool, r, f, v, clock + TTL)
  PROVE  Table!Adopt(r) \/ pool' = pool
<1> SUFFICES ASSUME ~Refused(pool, r, f, v) PROVE Table!Adopt(r)
  BY DEF AddMapping
<1> DEFINE oldReals == Lookup(pool.globalFakeToReal, f) \ {r}
           oldFakes == Lookup(pool.realToFake, r) \ {f}
           displaced == {s \in DOMAIN pool.realToFake : s = r \/ pool.realToFake[s] = f}
<1>a. /\ \A x \in DOMAIN pool.realToFake :
           /\ pool.realToFake[x] \in DOMAIN pool.globalFakeToReal
           /\ pool.globalFakeToReal[pool.realToFake[x]] = x
      /\ \A g \in DOMAIN pool.globalFakeToReal :
           /\ pool.globalFakeToReal[g] \in DOMAIN pool.realToFake
           /\ pool.realToFake[pool.globalFakeToReal[g]] = g
  BY DEF Facts, Mirror
<1>1. pool' = Install(Drop(pool, oldReals, oldFakes), r, f, v, clock + TTL)
  BY DEF AddMapping
<1>2. /\ r \in DOMAIN pool'.realToFake /\ pool'.realToFake[r] = f
      /\ pool'.globalVersions[f] = v /\ pool'.expiries[r] = clock + TTL
  BY <1>1 DEF Install, Put
<1>3. ASSUME NEW s \in displaced
      PROVE  pool.globalVersions[pool.realToFake[s]] <= v
  BY <1>3, NotRefused DEF Facts
<1>4. ASSUME NEW s \in displaced \ {r}
      PROVE  s \notin DOMAIN pool'.realToFake
  <2>1. s \in oldReals
    BY <1>a, <1>4 DEF Lookup
  <2>2. pool'.realToFake = Put(Delete(pool.realToFake, oldReals), r, f)
    BY <1>1 DEF Install, Drop
  <2> HIDE DEF oldReals
  <2> QED  BY <1>4, <2>1, <2>2 DEF Put, Delete
<1>5. Table!Same(Reals \ (displaced \cup {r}))
  <2>1. ASSUME NEW s, s \notin displaced \cup {r}
        PROVE  /\ s \in DOMAIN pool.realToFake <=> s \in DOMAIN pool'.realToFake
               /\ s \in DOMAIN pool.realToFake =>
                    /\ pool'.realToFake[s] = pool.realToFake[s]
                    /\ pool'.expiries[s] = pool.expiries[s]
    <3>1. s \notin oldReals
      BY <1>a, <2>1 DEF Lookup
    <3>2. /\ pool'.realToFake = Put(Delete(pool.realToFake, oldReals), r, f)
          /\ pool'.expiries = Put(Delete(pool.expiries, oldReals), r, clock + TTL)
      BY <1>1 DEF Install, Drop
    <3>3. s # r /\ DOMAIN pool.expiries = DOMAIN pool.realToFake
      BY <2>1 DEF Facts, Mirror
    <3> HIDE DEF oldReals
    <3> QED  BY <3>1, <3>2, <3>3, Zenon DEF Put, Delete
  <2>2. ASSUME NEW s \in DOMAIN pool.realToFake, s \notin displaced \cup {r}
        PROVE  pool'.globalVersions[pool.realToFake[s]]
                 = pool.globalVersions[pool.realToFake[s]]
    <3>1. pool.realToFake[s] # f
      BY <2>2
    <3>2. pool.realToFake[s] \notin oldFakes
      BY <1>a, <2>2 DEF Lookup
    <3>3. pool'.globalVersions = Put(Delete(pool.globalVersions, oldFakes), f, v)
      BY <1>1 DEF Install, Drop
    <3>4. pool.realToFake[s] \in DOMAIN pool.globalVersions
      BY <2>2, Tables
    <3> HIDE DEF oldFakes
    <3> QED  BY <3>1, <3>2, <3>3, <3>4, Zenon DEF Put, Delete
  <2> HIDE DEF displaced
  <2> QED  BY <2>1, <2>2, SameLeases DEF Facts
<1>6. displaced = {s \in DOMAIN LeasesOf(pool) :
                     s = r \/ LeasesOf(pool)[s].fake = LeasesOf(pool')[r].fake}
  BY <1>2, Tables
<1>7. /\ r \in DOMAIN LeasesOf(pool') /\ LeasesOf(pool')[r].expires = clock + TTL
      /\ \A s \in displaced : LeasesOf(pool)[s].version <= LeasesOf(pool')[r].version
      /\ \A s \in displaced \ {r} : s \notin DOMAIN LeasesOf(pool')
  <2>1. r \in DOMAIN LeasesOf(pool') /\ DOMAIN LeasesOf(pool') = DOMAIN pool'.realToFake
    BY <1>2, Tables
  <2>2. LeasesOf(pool')[r].expires = clock + TTL /\ LeasesOf(pool')[r].version = v
    BY <1>2, Tables
  <2>3. \A s \in displaced : LeasesOf(pool)[s].version <= v
    BY <1>3, Tables
  <2> QED  BY <1>4, <2>1, <2>2, <2>3
<1> HIDE DEF displaced
<1> QED  BY <1>5, <1>6, <1>7 DEF Table!Adopt

\* Matching deletes leave all other leases as they are.
LEMMA DropSame ==
  ASSUME Facts, NEW reals, NEW fakes, Matching(pool, reals, fakes),
         pool' = Drop(pool, reals, fakes), NEW S, S \cap reals = {}
  PROVE  Table!Same(S) /\ DOMAIN pool'.realToFake = DOMAIN pool.realToFake \ reals
<1>1. ASSUME NEW s \in S
      PROVE  /\ s \in DOMAIN pool.realToFake <=> s \in DOMAIN pool'.realToFake
             /\ s \in DOMAIN pool.realToFake =>
                  /\ pool'.realToFake[s] = pool.realToFake[s]
                  /\ pool'.expiries[s] = pool.expiries[s]
  BY DEF Facts, Mirror, Drop, Delete
<1>2. ASSUME NEW s \in S, s \in DOMAIN pool.realToFake
      PROVE  pool'.globalVersions[pool.realToFake[s]]
               = pool.globalVersions[pool.realToFake[s]]
  <2>1. pool.realToFake[s] \notin fakes
    BY <1>2 DEF Matching
  <2> QED  BY <1>2, <2>1, Tables DEF Drop, Delete
<1>3. DOMAIN pool'.realToFake = DOMAIN pool.realToFake \ reals
  BY DEF Drop, Delete
<1> QED  BY <1>1, <1>2, <1>3, SameLeases DEF Facts

\* Matching deletes of leases that ran out end them.
LEMMA DropEnds ==
  ASSUME Facts, NEW reals, NEW fakes, Matching(pool, reals, fakes),
         pool' = Drop(pool, reals, fakes),
         \A r \in reals \cap DOMAIN pool.realToFake : pool.expiries[r] <= clock
  PROVE  Table!End
<1>1. DOMAIN pool'.realToFake = DOMAIN pool.realToFake \ reals
  BY DEF Drop, Delete
<1>2. Table!Same(Reals \cap DOMAIN pool'.realToFake)
  BY <1>1, DropSame
<1> QED  BY <1>1, <1>2, Tables DEF Table!End

\* The mapping that an exhausted call has dropped had run out.
LEMMA ExhaustedEnds ==
  ASSUME Facts, NEW t \in Resolvers, NEW r, SlowExhausted(t, r)
  PROVE  Table!End
<1>1. pool' = Drop(pool, {r}, Lookup(pool.realToFake, r))
  BY DEF SlowExhausted, WithoutExpired
<1>2. Matching(pool, {r}, Lookup(pool.realToFake, r))
  BY DEF Facts, Mirror, Matching, Lookup
<1>3. r \in DOMAIN pool.realToFake => pool.expiries[r] <= clock
  <2>1. r \in DOMAIN pool.realToFake => r \in DOMAIN pool.expiries /\ pool.expiries[r] \in Nat
    BY Tables, Zenon DEF Facts, Mirror
  <2>2. now[t] \in Nat /\ now[t] <= clock /\ clock \in Nat
    BY DEF Facts
  <2>3. ~HoldsLease(t, r)
    BY DEF SlowExhausted
  <2> QED  BY <2>1, <2>2, <2>3 DEF HoldsLease
<1>4. \A s \in {r} \cap DOMAIN pool.realToFake : pool.expiries[s] <= clock
  BY <1>3
<1> QED  BY <1>1, <1>2, <1>4, DropEnds

\* So had what the pruning worker deletes: it looks again.
LEMMA PruneEnds ==
  ASSUME Facts, PruneDelete, prune.now \in Nat, prune.now <= clock
  PROVE  Table!End
<1> DEFINE still == {e \in prune.expired : /\ Expired(pool, e[1], prune.now)
                                          /\ MapsTo(pool, e[1], e[2])}
           reals == {e[1] : e \in still}
           fakes == {e[2] : e \in still}
<1>1. pool' = Drop(pool, reals, fakes)
  BY DEF PruneDelete, RemoveExpired
<1>2. Matching(pool, reals, fakes)
  BY DEF Facts, Mirror, Matching, MapsTo
<1>3. ASSUME NEW r \in reals \cap DOMAIN pool.realToFake PROVE pool.expiries[r] <= clock
  <2>1. pool.expiries[r] < prune.now
    BY <1>3 DEF Expired
  <2>2. pool.expiries[r] \in Nat
    BY <1>3, Tables
  <2>3. clock \in Nat
    BY DEF Facts
  <2> QED  BY <2>1, <2>2, <2>3
<1> HIDE DEF reals, fakes
<1> QED  BY <1>1, <1>2, <1>3, DropEnds

\* A rollback gives a lease back, if it is still there.
LEMMA RollbackWithdraws ==
  ASSUME Facts, NEW r, NEW f, pool' = RemoveMapping(pool, r, f)
  PROVE  Table!Withdraw(r) \/ pool' = pool
<1> SUFFICES ASSUME MapsTo(pool, r, f) PROVE Table!Withdraw(r)
  BY DEF RemoveMapping
<1>1. pool' = Drop(pool, {r}, {f}) /\ Matching(pool, {r}, {f})
  BY DEF RemoveMapping, MapsTo, Matching, Facts, Mirror
<1>2. Table!Same(Reals \ {r}) /\ DOMAIN pool'.realToFake = DOMAIN pool.realToFake \ {r}
  BY <1>1, DropSame
<1> QED  BY <1>2, Tables DEF Table!Withdraw, MapsTo

\* Every step of the pool is a step of the table, or none.
LEMMA NextTable == Inv /\ CallsAreShort /\ [Next]_vars => [Table!Next]_(Table!vars)
<1> SUFFICES ASSUME Inv, CallsAreShort, [Next]_vars PROVE [Table!Next]_(Table!vars)
  OBVIOUS
<1>a. Facts
  BY StepFacts
<1>1. ASSUME UNCHANGED <<pool, clock>> PROVE UNCHANGED Table!vars
  BY <1>1 DEF Table!vars
<1>2. ASSUME UNCHANGED clock, NEW r \in Reals,
             Table!End \/ Table!Take(r) \/ Table!Renew(r) \/ Table!Adopt(r) \/ Table!Withdraw(r)
      PROVE  Table!Next
  BY <1>2 DEF Table!Next
<1>3. ASSUME NEW t \in Resolvers, Resolve(t) PROVE [Table!Next]_(Table!vars)
  <2>1. UNCHANGED clock
    BY <1>3, Zenon DEF Resolve, FastHit, FastMiss, SlowHit, SlowAllocate, SlowExhausted, Rollback
  <2>2. ASSUME NEW r \in LeastKeys(todo[t]) PROVE r \in Reals
    BY <1>a DEF Facts, LeastKeys
  <2>3. ASSUME NEW r \in LeastKeys(todo[t]), FastHit(t, r) \/ FastMiss(t, r)
        PROVE  [Table!Next]_(Table!vars)
    BY <1>1, <2>1, <2>3 DEF FastHit, FastMiss
  <2>4. ASSUME NEW r \in LeastKeys(todo[t]), SlowHit(t, r)
        PROVE  [Table!Next]_(Table!vars)
    BY <1>a, <1>1, <1>2, <2>1, <2>2, <2>4, HitRenews
  <2>5. ASSUME NEW r \in LeastKeys(todo[t]), NEW wall \in WallTimes, SlowAllocate(t, r, wall)
        PROVE  [Table!Next]_(Table!vars)
    BY <1>a, <1>2, <2>1, <2>2, <2>5, AllocateTakes
  <2>6. ASSUME NEW r \in LeastKeys(todo[t]), SlowExhausted(t, r)
        PROVE  [Table!Next]_(Table!vars)
    BY <1>a, <1>2, <2>1, <2>2, <2>6, ExhaustedEnds
  <2>7. ASSUME NEW r \in todo[t], Rollback(t, r)
        PROVE  [Table!Next]_(Table!vars)
    <3>1. r \in Reals /\ pool' = RemoveMapping(pool, r, fresh[t][r].fake)
      BY <1>a, <2>7 DEF Facts, Rollback
    <3> QED  BY <1>a, <1>1, <1>2, <2>1, <3>1, RollbackWithdraws
  <2> QED  BY <1>3, <2>3, <2>4, <2>5, <2>6, <2>7 DEF Resolve
<1>4. ASSUME NEW p \in Receivers, Merge(p) PROVE [Table!Next]_(Table!vars)
  <2> DEFINE m == recv[p].msg
  <2>1. recv[p] \in [phase : {"observe", "merge"}, msg : PeerMappings]
    BY <1>4 DEF Merge, Inv, TypeOK, Idle
  <2>2. m.real \in Reals /\ m.real \in IPKey /\ m.fake \in IPKey /\ m.version \in Nat
    BY <2>1, IPPoolAssumption DEF Mapping
  <2>3. /\ pool' = AddMapping(pool, m.real, m.fake, m.version, clock + TTL)
        /\ UNCHANGED clock
    BY <1>4 DEF Merge
  <2> HIDE DEF m
  <2> QED  BY <1>a, <1>1, <1>2, <2>2, <2>3, MergeAdopts
<1>5. CASE PruneDelete
  <2>1. prune.now \in Nat /\ prune.now <= clock
    BY <1>a DEF Inv, TypeOK, Facts
  <2>2. Table!End /\ UNCHANGED clock
    BY <1>a, <1>5, <2>1, PruneEnds DEF PruneDelete
  <2> QED  BY <2>2 DEF Table!Next
<1>6. CASE Tick
  BY <1>6 DEF Tick, Table!Next, Table!Tick
<1>7. ASSUME UNCHANGED <<pool, clock>> PROVE [Table!Next]_(Table!vars)
  BY <1>1, <1>7
<1>8. ASSUME \/ \E t \in Resolvers : \E q \in Queries : Begin(t, q)
             \/ \E p \in Receivers : \/ \E m \in PeerMappings : Receive(p, m)
                                     \/ \E wall \in WallTimes : Observe(p, wall)
             \/ PruneStart \/ PruneScan \/ UNCHANGED vars
      PROVE  UNCHANGED <<pool, clock>>
  BY <1>8 DEF Begin, Receive, Observe, PruneStart, PruneScan, vars
<1> QED
  BY <1>3, <1>4, <1>5, <1>6, <1>7, <1>8 DEF Next

\* A new pool is an empty table.
LEMMA InitTable == Init => Table!Init
<1> SUFFICES ASSUME Init PROVE Table!Init
  OBVIOUS
<1>1. DOMAIN pool.realToFake = {} /\ clock = 0
  BY DEF Init, NewPool, EmptyMap
<1>2. LeasesOf(pool) = [r \in {} |-> 0]
  BY <1>1 DEF LeasesOf
<1> QED  BY <1>1, <1>2 DEF Table!Init

\* The pool implements the table of leases, for any number of goroutines,
\* addresses, shards and peers' mappings and for every wall clock, provided
\* that no call takes longer than the time-to-live less the renewal window
\* (GetFakeIPsForReals, AddMapping, RemoveMapping and PruneExpired).
THEOREM ImplementsCorrect == Spec => ImplementsLeaseTable
<1>1. Init => CallsAreShort
  BY DEF Init, CallsAreShort
<1>2. Spec => [](Inv /\ CallsAreShort)
  <2>1. Init => Inv /\ CallsAreShort
    BY <1>1, InitInv
  <2>2. Inv /\ CallsAreShort /\ [Next]_vars => (Inv /\ CallsAreShort)'
    BY NextInv, NextShort
  <2> QED  BY <2>1, <2>2, PTL DEF Spec
<1> QED
  BY <1>2, InitTable, NextTable, PTL DEF Spec, ImplementsLeaseTable, Table!Spec

-----------------------------------------------------------------------------
(***************************************************************************)
(* Proof of AnswerLease.  It is not inductive with Inv alone: another call *)
(* may renew or replace the lease with an older time than that of the call *)
(* which answered.  That calls are short bounds how much older.            *)
(***************************************************************************)

\* The inductive invariant.
LeaseInv == Inv /\ CallsAreShort /\ AnswerLease

\* What a step does to the lease of a mapping it leaves or installs.
LeaseStep ==
  \A r \in DOMAIN pool'.realToFake :
     \/ MapsTo(pool, r, pool'.realToFake[r]) /\ pool.expiries[r] <= pool'.expiries[r]
     \/ clock + Grace <= pool'.expiries[r]

\* A step shortens no lease, and a lease it grants outlasts the renewal window.
LEMMA NextLease == Inv /\ CallsAreShort /\ [Next]_vars => LeaseStep
<1> SUFFICES ASSUME Inv, CallsAreShort, [Next]_vars, NEW r \in DOMAIN pool'.realToFake
             PROVE  \/ /\ MapsTo(pool, r, pool'.realToFake[r])
                       /\ pool.expiries[r] <= pool'.expiries[r]
                    \/ clock + Grace <= pool'.expiries[r]
  BY DEF LeaseStep
<1> DEFINE Goal == \/ /\ MapsTo(pool, r, pool'.realToFake[r])
                      /\ pool.expiries[r] <= pool'.expiries[r]
                   \/ clock + Grace <= pool'.expiries[r]
<1>a. /\ IsPool(pool) /\ Mirror(pool) /\ clock \in Nat
      /\ \A q \in DOMAIN pool.realToFake :
            q \in DOMAIN pool.expiries /\ pool.expiries[q] \in Nat
      /\ \A t \in Resolvers : now[t] \in Nat /\ now[t] <= clock
  BY LeaseFacts
<1>b. TTL \in Nat /\ Grace \in Nat /\ MaxStall \in Nat /\ Grace + MaxStall <= TTL
  BY IPPoolAssumption
<1>c. \A t \in Resolvers : pc[t] = "slow" => clock + Grace <= now[t] + TTL
  BY <1>a, <1>b DEF CallsAreShort
<1>1. ASSUME NEW reals, NEW fakes, pool' = Drop(pool, reals, fakes)
      PROVE  Goal
  <2>1. r \in DOMAIN pool.realToFake \ reals
    BY <1>1 DEF Drop, Delete
  <2>2. pool'.realToFake[r] = pool.realToFake[r] /\ pool'.expiries[r] = pool.expiries[r]
    BY <1>1, <1>a, <2>1 DEF Drop, Delete
  <2> QED  BY <1>a, <2>1, <2>2 DEF MapsTo
<1>2. ASSUME UNCHANGED pool PROVE Goal
  BY <1>2, <1>a DEF MapsTo
<1>3. ASSUME NEW t \in Resolvers, NEW q, SlowHit(t, q)
      PROVE  Goal
  <2>1. CASE pool' = pool
    BY <1>2, <2>1
  <2>2. CASE pool' # pool
    <3>1. /\ pool'.realToFake = pool.realToFake
          /\ pool'.expiries = Put(pool.expiries, q, now[t] + TTL)
      BY <1>3, <1>a, <2>2 DEF SlowHit, Renewed, IsPool
    <3>2. CASE r = q
      BY <1>3, <1>a, <1>c, <3>1, <3>2 DEF SlowHit, Put
    <3>3. CASE r # q
      BY <1>a, <3>1, <3>3 DEF Put, MapsTo
    <3> QED  BY <3>2, <3>3
  <2> QED  BY <2>1, <2>2
<1>4. ASSUME NEW t \in Resolvers, NEW q, NEW wall \in WallTimes, SlowAllocate(t, q, wall)
      PROVE  Goal
  <2>1. PICK g, v : pool' = Install(WithoutExpired(q), q, g, v, now[t] + TTL)
    BY <1>4 DEF SlowAllocate
  <2>2. CASE r = q
    <3>1. pool'.expiries[r] = now[t] + TTL
      BY <2>1, <2>2 DEF Install, Put
    <3> QED  BY <1>4, <1>c, <3>1, ZenonT(30) DEF SlowAllocate
  <2>3. CASE r # q
    <3>1. /\ r \in DOMAIN pool.realToFake
          /\ pool'.realToFake[r] = pool.realToFake[r]
          /\ pool'.expiries[r] = pool.expiries[r]
      BY <1>a, <2>1, <2>3 DEF Install, Put, WithoutExpired, Drop, Delete
    <3> QED  BY <1>a, <3>1 DEF MapsTo
  <2> QED  BY <2>2, <2>3
<1>5. ASSUME NEW p \in Receivers, Merge(p)
      PROVE  Goal
  <2> DEFINE m == recv[p].msg
  <2>1. pool' = AddMapping(pool, m.real, m.fake, m.version, clock + TTL)
    BY <1>5 DEF Merge
  <2> HIDE DEF m
  <2>2. CASE Refused(pool, m.real, m.fake, m.version)
    BY <1>2, <2>1, <2>2 DEF AddMapping
  <2>3. CASE ~Refused(pool, m.real, m.fake, m.version) /\ r = m.real
    <3>1. pool'.expiries[r] = clock + TTL
      BY <2>1, <2>3 DEF AddMapping, Install, Put
    <3> QED  BY <1>a, <1>b, <3>1
  <2>4. CASE ~Refused(pool, m.real, m.fake, m.version) /\ r # m.real
    <3>1. /\ r \in DOMAIN pool.realToFake
          /\ pool'.realToFake[r] = pool.realToFake[r]
          /\ pool'.expiries[r] = pool.expiries[r]
      BY <1>a, <2>1, <2>4, ZenonT(30) DEF AddMapping, Install, Put, Drop, Delete
    <3> QED  BY <1>a, <3>1 DEF MapsTo
  <2> QED  BY <2>2, <2>3, <2>4
<1>6. ASSUME NEW t \in Resolvers, NEW q, SlowExhausted(t, q)
      PROVE  Goal
  BY <1>1, <1>6, ZenonT(30) DEF SlowExhausted, WithoutExpired
<1>7. ASSUME NEW t \in Resolvers, NEW q \in todo[t], Rollback(t, q)
      PROVE  Goal
  BY <1>1, <1>2, <1>7 DEF Rollback, RemoveMapping
<1>8. CASE PruneDelete
  BY <1>1, <1>8 DEF PruneDelete, RemoveExpired
<1> QED
  BY <1>2, <1>3, <1>4, <1>5, <1>6, <1>7, <1>8
     DEF Next, Resolve, Begin, FastHit, FastMiss, Receive, Observe,
         PruneStart, PruneScan, Tick, vars

\* Every step keeps the leases of the answers given so far.
LEMMA NextAnswer == LeaseInv /\ [Next]_vars => AnswerLease'
<1> SUFFICES ASSUME LeaseInv, [Next]_vars, NEW s \in Resolvers, NEW r \in DOMAIN result'[s],
                    pc'[s] \in {"fast", "slow", "ok"}, MapsTo(pool', r, result'[s][r])
             PROVE  now'[s] + Grace <= pool'.expiries[r]
  BY DEF AnswerLease
<1> DEFINE Goal == now'[s] + Grace <= pool'.expiries[r]
<1>a. /\ Inv /\ CallsAreShort /\ AnswerLease
      /\ IsPool(pool') /\ Mirror(pool')
  <2>1. Inv /\ CallsAreShort /\ AnswerLease
    BY DEF LeaseInv
  <2>2. Inv'
    BY <2>1, NextInv
  <2> QED  BY <2>1, <2>2, Zenon DEF Inv, TypeOK, MapsMirror
<1>b. /\ IsPool(pool) /\ clock \in Nat
      /\ \A t \in Resolvers : now[t] \in Nat /\ now[t] <= clock
      /\ DOMAIN pool.expiries = DOMAIN pool.realToFake
      /\ \A q \in DOMAIN pool.expiries : pool.expiries[q] \in Nat
      /\ pc = [t \in Resolvers |-> pc[t]] /\ now = [t \in Resolvers |-> now[t]]
      /\ DOMAIN result = Resolvers
  BY <1>a, LeaseFacts
<1>c. TTL \in Nat /\ Grace \in Nat /\ MaxStall \in Nat /\ Grace + MaxStall <= TTL
  BY IPPoolAssumption
<1>d. pool'.expiries[r] \in Nat /\ (r \in DOMAIN pool.realToFake => pool.expiries[r] \in Nat)
  <2>1. pool'.expiries[r] \in Nat
    BY <1>a DEF IsPool, IsMap, Mirror, MapsTo
  <2> QED  BY <1>b, <2>1
<1>1. ASSUME now'[s] = now[s], pc[s] \in {"fast", "slow", "ok"},
             r \in DOMAIN result[s], result'[s][r] = result[s][r]
      PROVE  Goal
  <2>1. LeaseStep
    BY <1>a, NextLease
  <2>2. \/ MapsTo(pool, r, result[s][r]) /\ pool.expiries[r] <= pool'.expiries[r]
        \/ clock + Grace <= pool'.expiries[r]
    BY <1>1, <2>1 DEF LeaseStep, MapsTo
  <2>3. MapsTo(pool, r, result[s][r]) => now[s] + Grace <= pool.expiries[r]
    BY <1>1, <1>a DEF AnswerLease
  <2> QED  BY <1>1, <1>b, <1>c, <1>d, <2>2, <2>3 DEF MapsTo
<1>2. ASSUME NEW t \in Resolvers, NEW q, NEW f, Answer(t, q, f), now' = now,
             pc[t] \in {"fast", "slow"}, now[t] + Grace <= pool'.expiries[q]
      PROVE  Goal
  <2>1. CASE s = t /\ r = q
    BY <1>2, <2>1
  <2>2. CASE s = t /\ r # q
    <3>1. r \in DOMAIN result[s] /\ result'[s][r] = result[s][r]
      BY <1>2, <1>b, <2>2 DEF Answer, Put
    <3> QED  BY <1>1, <1>2, <2>2, <3>1
  <2>3. CASE s # t
    <3>1. result'[s] = result[s] /\ pc'[s] = pc[s]
      BY <1>2, <1>b, <2>3 DEF Answer
    <3> QED  BY <1>1, <1>2, <3>1
  <2> QED  BY <2>1, <2>2, <2>3
<1>3. ASSUME NEW t \in Resolvers, NEW q, FastHit(t, q)
      PROVE  Goal
  <2>1. now[t] \in Nat /\ pool.expiries[q] \in Nat /\ now[t] + Grace < pool.expiries[q]
    BY <1>3, <1>b DEF FastHit, NotDue
  <2>2. now[t] + Grace <= pool'.expiries[q]
    BY <1>3, <1>c, <2>1 DEF FastHit
  <2> QED  BY <1>2, <1>3, <2>2 DEF FastHit
<1>4. ASSUME NEW t \in Resolvers, NEW q, SlowHit(t, q)
      PROVE  Goal
  <2>1. q \in DOMAIN pool.expiries /\ pool.expiries[q] \in Nat /\ now[t] \in Nat
    BY <1>4, <1>b DEF SlowHit, HoldsLease
  <2>2. now[t] + Grace <= pool'.expiries[q]
    <3>1. CASE now[t] + Grace > pool.expiries[q]
      <4>1. pool'.expiries = Put(pool.expiries, q, now[t] + TTL)
        BY <1>4, <1>b, <2>1, <3>1 DEF SlowHit, Renewed, IsPool
      <4> QED  BY <1>c, <2>1, <4>1 DEF Put
    <3>2. CASE ~(now[t] + Grace > pool.expiries[q])
      BY <1>4, <1>c, <2>1, <3>2 DEF SlowHit, Renewed
    <3> QED  BY <3>1, <3>2
  <2> QED  BY <1>2, <1>4, <2>2 DEF SlowHit
<1>5. ASSUME NEW t \in Resolvers, NEW q, NEW wall \in WallTimes, SlowAllocate(t, q, wall)
      PROVE  Goal
  <2>1. PICK f, v : /\ pool' = Install(WithoutExpired(q), q, f, v, now[t] + TTL)
                    /\ Answer(t, q, f)
    BY <1>5 DEF SlowAllocate
  <2>2. pool'.expiries[q] = now[t] + TTL /\ now[t] \in Nat
    BY <1>b, <2>1 DEF Install, Put
  <2>3. now[t] + Grace <= pool'.expiries[q]
    BY <1>c, <2>2
  <2>4. pc[t] = "slow" /\ now' = now
    BY <1>5 DEF SlowAllocate
  <2> QED  BY <1>2, <2>1, <2>3, <2>4
<1>6. ASSUME NEW t \in Resolvers, NEW q, UNCHANGED <<now, result>>,
             \/ FastMiss(t, q) \/ SlowExhausted(t, q) \/ Rollback(t, q)
      PROVE  Goal
  <2>1. pc[s] \in {"fast", "slow", "ok"}
    BY <1>6, <1>b DEF FastMiss, SlowExhausted, Rollback
  <2> QED  BY <1>1, <1>6, <2>1
<1>7. ASSUME NEW t \in Resolvers, NEW q \in Queries, Begin(t, q)
      PROVE  Goal
  <2>1. s # t
    BY <1>7, <1>b DEF Begin, EmptyMap
  <2>2. result'[s] = result[s] /\ pc'[s] = pc[s] /\ now'[s] = now[s]
    BY <1>7, <1>b, <2>1, Zenon DEF Begin
  <2> QED  BY <1>1, <2>2
<1>8. ASSUME UNCHANGED call PROVE Goal
  BY <1>1, <1>8 DEF call
<1> QED
  <2>1. ASSUME NEW t \in Resolvers, Resolve(t) PROVE Goal
    BY <1>3, <1>4, <1>5, <1>6, <2>1, ZenonT(30) DEF Resolve, FastMiss, SlowExhausted, Rollback
  <2> QED
    BY <1>7, <1>8, <2>1
       DEF Next, Receive, Observe, Merge, PruneStart, PruneScan, PruneDelete, Tick, vars, call

\* An answer's lease outlasts the renewal window counted from the start of the
\* call, provided that no call takes longer than the time-to-live less the
\* window (IPPoolAssumption): another call that renews or replaces the lease
\* works with its own, older time.
THEOREM AnswerLeaseCorrect == Spec => []AnswerLease
<1>1. Init => LeaseInv
  <2>1. Init => CallsAreShort
    BY DEF Init, CallsAreShort
  <2>2. Init => AnswerLease
    BY DEF Init, AnswerLease, EmptyMap
  <2> QED  BY <2>1, <2>2, InitInv DEF LeaseInv
<1>2. LeaseInv /\ [Next]_vars => LeaseInv'
  BY NextInv, NextShort, NextAnswer DEF LeaseInv
<1>3. LeaseInv => AnswerLease
  BY DEF LeaseInv
<1> QED  BY <1>1, <1>2, <1>3, PTL DEF Spec

-----------------------------------------------------------------------------
(***************************************************************************)
(* Proof of PassFreesExpired.  Between the scan of a shard and the         *)
(* deletion, and after it, no lease becomes one that had run out when the  *)
(* pass began: a lease that is granted or renewed meanwhile ends later.    *)
(***************************************************************************)

\* The shards that a pass has left hold no lease that had run out when it
\* began, and what the scan of a shard found is all that can be deleted there.
PassInv ==
  /\ prune.phase = "idle" => prune.shard = 1
  /\ prune.phase # "idle" =>
        \A r \in Reals : ShardOf[r] < prune.shard => ~Expired(pool, r, prune.now)
  /\ prune.phase = "delete" =>
        \A r \in Shard(prune.shard) :
           Expired(pool, r, prune.now) => <<r, pool.realToFake[r]>> \in prune.expired

\* The inductive invariant.
PruneInv == Inv /\ CallsAreShort /\ PassInv

\* What the proofs below use of the pruning worker's state.
LEMMA PassFacts ==
  ASSUME Inv
  PROVE  /\ IsPool(pool) /\ Mirror(pool)
         /\ clock \in Nat /\ prune.now \in Nat /\ prune.now <= clock
         /\ prune = [phase |-> prune.phase, now |-> prune.now,
                     shard |-> prune.shard, expired |-> prune.expired]
         /\ NumShards \in Nat /\ prune.shard \in Nat
         /\ 1 <= prune.shard /\ prune.shard <= NumShards
         /\ \A r \in Reals : ShardOf[r] \in Nat /\ 1 <= ShardOf[r] /\ ShardOf[r] <= NumShards
<1>1. TypeOK /\ MapsMirror
  BY DEF Inv
<1>2. IsPool(pool) /\ Mirror(pool) /\ clock \in Nat
  BY <1>1 DEF TypeOK, MapsMirror
<1>3. prune \in [phase : {"idle", "scan", "delete"}, now : 0 .. clock,
                 shard : 1 .. NumShards, expired : SUBSET (Reals \X IPKey)]
  BY <1>1 DEF TypeOK
<1>4. prune.now \in 0 .. clock /\ prune.shard \in 1 .. NumShards
  BY <1>3
<1>5. prune = [phase |-> prune.phase, now |-> prune.now,
               shard |-> prune.shard, expired |-> prune.expired]
  BY <1>3
<1>6. NumShards \in Nat /\ ShardOf \in [Reals -> 1 .. NumShards]
  BY IPPoolAssumption
<1> QED  BY <1>2, <1>4, <1>5, <1>6

\* A lease that has run out after a step was there, and had run out, before.
LEMMA ExpiredBefore ==
  ASSUME Inv, CallsAreShort, [Next]_vars, NEW r, Expired(pool', r, prune.now)
  PROVE  /\ Expired(pool, r, prune.now)
         /\ r \in DOMAIN pool.realToFake /\ pool'.realToFake[r] = pool.realToFake[r]
<1>1. LeaseStep
  BY NextLease
<1>2. Inv'
  BY NextInv
<1>3. IsPool(pool') /\ Mirror(pool')
  BY <1>2 DEF Inv, TypeOK, MapsMirror
<1>4. r \in DOMAIN pool'.realToFake /\ pool'.expiries[r] \in Nat
  BY <1>3 DEF Expired, IsPool, IsMap, Mirror
<1>5. pool'.expiries[r] < prune.now /\ prune.now \in Nat /\ clock \in Nat /\ prune.now <= clock
  BY PassFacts DEF Expired
<1>6. Grace \in Nat
  BY IPPoolAssumption
<1>7. ~ (clock + Grace <= pool'.expiries[r])
  BY <1>4, <1>5, <1>6
<1>8. MapsTo(pool, r, pool'.realToFake[r]) /\ pool.expiries[r] <= pool'.expiries[r]
  BY <1>1, <1>4, <1>7 DEF LeaseStep
<1>9. r \in DOMAIN pool.expiries /\ pool.expiries[r] \in Nat
  BY <1>8, LeaseFacts DEF MapsTo
<1> QED  BY <1>4, <1>5, <1>8, <1>9 DEF Expired, MapsTo

\* After the deletion no lease of the shard is left that had run out.
LEMMA DeleteFrees ==
  ASSUME PruneInv, PruneDelete, [Next]_vars, NEW r \in Shard(prune.shard)
  PROVE  ~Expired(pool', r, prune.now)
<1> SUFFICES ASSUME Expired(pool', r, prune.now) PROVE FALSE
  OBVIOUS
<1>1. Expired(pool, r, prune.now) /\ r \in DOMAIN pool.realToFake
  BY ExpiredBefore DEF PruneInv
<1>2. <<r, pool.realToFake[r]>> \in prune.expired
  BY <1>1 DEF PruneInv, PassInv, PruneDelete
<1> DEFINE still == {e \in prune.expired : /\ Expired(pool, e[1], prune.now)
                                          /\ MapsTo(pool, e[1], e[2])}
<1>3. <<r, pool.realToFake[r]>> \in still
  BY <1>1, <1>2 DEF MapsTo
<1>4. r \in {e[1] : e \in still}
  BY <1>3
<1>5. r \notin DOMAIN pool'.expiries
  BY <1>4 DEF PruneDelete, RemoveExpired, Drop, Delete
<1> QED  BY <1>5 DEF Expired

\* When a shard is done with, so are all shards up to it.
LEMMA ShardDone ==
  ASSUME Inv, prune.phase # "idle", prune' = NextShard,
         \A r \in Reals : ShardOf[r] <= prune.shard => ~Expired(pool', r, prune.now)
  PROVE  /\ PassInv'
         /\ prune'.phase = "idle" => \A r \in Reals : ~Expired(pool', r, prune.now)
<1>a. /\ prune = [phase |-> prune.phase, now |-> prune.now,
                  shard |-> prune.shard, expired |-> prune.expired]
      /\ NumShards \in Nat /\ prune.shard \in Nat /\ prune.shard <= NumShards
      /\ \A r \in Reals : ShardOf[r] \in Nat /\ ShardOf[r] <= NumShards
  BY PassFacts
<1>1. prune' = [phase   |-> IF prune.shard = NumShards THEN "idle" ELSE "scan",
                now     |-> prune.now,
                shard   |-> IF prune.shard = NumShards THEN 1 ELSE prune.shard + 1,
                expired |-> {}]
  BY <1>a, Zenon DEF NextShard
<1>2. CASE prune.shard = NumShards
  <2>1. prune'.phase = "idle" /\ prune'.shard = 1
    BY <1>1, <1>2
  <2>2. \A r \in Reals : ~Expired(pool', r, prune.now)
    BY <1>a, <1>2
  <2> QED  BY <2>1, <2>2 DEF PassInv
<1>3. CASE prune.shard # NumShards
  <2>1. prune'.phase = "scan" /\ prune'.shard = prune.shard + 1 /\ prune'.now = prune.now
    BY <1>1, <1>3
  <2>2. ASSUME NEW r \in Reals, ShardOf[r] < prune'.shard
        PROVE  ~Expired(pool', r, prune'.now)
    BY <1>a, <2>1, <2>2
  <2> QED  BY <2>1, <2>2 DEF PassInv
<1> QED  BY <1>2, <1>3

\* The step that PassFreesExpired allows.
FreeStep ==
  prune.phase # "idle" /\ prune'.phase = "idle"
    => \A r \in Reals : ~Expired(pool', r, prune.now)

\* Every step keeps the invariant, and a step that ends a pass leaves nothing.
LEMMA NextPass == PruneInv /\ [Next]_vars => PassInv' /\ FreeStep
<1> SUFFICES ASSUME PruneInv, [Next]_vars PROVE PassInv' /\ FreeStep
  OBVIOUS
<1>a. Inv /\ CallsAreShort /\ PassInv
  BY DEF PruneInv
<1>b. /\ clock \in Nat /\ prune.now \in Nat /\ prune.shard \in Nat /\ NumShards \in Nat
      /\ prune = [phase |-> prune.phase, now |-> prune.now,
                  shard |-> prune.shard, expired |-> prune.expired]
      /\ \A r \in Reals : ShardOf[r] \in Nat /\ 1 <= ShardOf[r]
  BY <1>a, PassFacts
<1>c. \A r : Expired(pool', r, prune.now) =>
         /\ Expired(pool, r, prune.now)
         /\ r \in DOMAIN pool.realToFake /\ pool'.realToFake[r] = pool.realToFake[r]
  BY <1>a, ExpiredBefore
<1>1. ASSUME UNCHANGED prune PROVE PassInv' /\ FreeStep
  BY <1>1, <1>a, <1>c DEF PassInv, FreeStep, Shard
<1>2. CASE PruneStart
  <2>1. prune'.phase = "scan" /\ prune'.shard = 1 /\ prune.phase = "idle"
    BY <1>2, <1>a, <1>b DEF PruneStart, PassInv
  <2> QED  BY <1>b, <2>1 DEF PassInv, FreeStep
<1>3. CASE PruneScan
  <2> DEFINE found == ScanExpired(pool, Shard(prune.shard), prune.now)
  <2>1. /\ prune.phase = "scan" /\ UNCHANGED pool
        /\ prune' = IF found = {} THEN NextShard
                    ELSE [prune EXCEPT !.phase = "delete", !.expired = found]
    BY <1>3 DEF PruneScan
  <2>2. ASSUME NEW r \in Shard(prune.shard), Expired(pool, r, prune.now)
        PROVE  <<r, pool.realToFake[r]>> \in found
    <3>1. r \in DOMAIN pool.realToFake
      BY <1>a, <2>2, PassFacts DEF Expired, Mirror
    <3> QED  BY <2>2, <3>1 DEF ScanExpired
  <2>3. \A r \in Reals : ShardOf[r] < prune.shard => ~Expired(pool, r, prune.now)
    BY <1>a, <2>1 DEF PassInv
  <2> HIDE DEF found
  <2>4. CASE found = {}
    <3>1. ASSUME NEW r \in Reals, ShardOf[r] <= prune.shard
          PROVE  ~Expired(pool', r, prune.now)
      <4>1. ShardOf[r] < prune.shard \/ r \in Shard(prune.shard)
        BY <1>b, <3>1 DEF Shard
      <4> QED  BY <2>1, <2>2, <2>3, <2>4, <4>1
    <3>2. prune.phase # "idle" /\ prune' = NextShard
      BY <2>1, <2>4
    <3> QED  BY <1>a, <3>1, <3>2, ShardDone DEF FreeStep
  <2>5. CASE found # {}
    <3>1. /\ prune'.phase = "delete" /\ prune'.now = prune.now
          /\ prune'.shard = prune.shard /\ prune'.expired = found
      BY <1>b, <2>1, <2>5
    <3> QED  BY <2>1, <2>2, <2>3, <3>1 DEF PassInv, FreeStep
  <2> QED  BY <2>4, <2>5
<1>4. CASE PruneDelete
  <2>1. prune.phase = "delete" /\ prune' = NextShard
    BY <1>4 DEF PruneDelete
  <2>2. ASSUME NEW r \in Reals, ShardOf[r] <= prune.shard
        PROVE  ~Expired(pool', r, prune.now)
    <3>1. CASE r \in Shard(prune.shard)
      BY <1>4, <3>1, DeleteFrees
    <3>2. CASE ShardOf[r] < prune.shard
      BY <1>a, <1>c, <2>1, <3>2 DEF PassInv
    <3> QED  BY <1>b, <2>2, <3>1, <3>2 DEF Shard
  <2> QED  BY <1>a, <2>1, <2>2, ShardDone DEF FreeStep
<1> QED
  BY <1>1, <1>2, <1>3, <1>4
     DEF Next, Resolve, Begin, FastHit, FastMiss, SlowHit, SlowAllocate, SlowExhausted,
         Rollback, Receive, Observe, Merge, Tick, vars

\* A pass over any number of shards is complete: no lease is left that had run
\* out when it began, whatever calls and merges did while it went from shard
\* to shard (PruneExpired).
THEOREM PassCorrect == Spec => PassFreesExpired
<1>1. Init => PruneInv
  <2>1. Init => CallsAreShort
    BY DEF Init, CallsAreShort
  <2>2. Init => PassInv
    BY DEF Init, PassInv
  <2> QED  BY <2>1, <2>2, InitInv DEF PruneInv
<1>2. PruneInv /\ [Next]_vars => PruneInv'
  BY NextInv, NextShort, NextPass DEF PruneInv
<1>3. PruneInv /\ [Next]_vars => [FreeStep]_vars
  BY NextPass
<1> QED  BY <1>1, <1>2, <1>3, PTL DEF Spec, PassFreesExpired, FreeStep

=============================================================================

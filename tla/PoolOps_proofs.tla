--------------------------- MODULE PoolOps_proofs ---------------------------
(***************************************************************************)
(* What the operations of PoolOps preserve, for every pool: that the maps  *)
(* have their types (IsPool), that they mirror each other (Mirror), and    *)
(* that a bound on the versions is kept (VersionsUpTo).                    *)
(***************************************************************************)
EXTENDS PoolOps, TLAPS

\* No version in the pool is above h.
VersionsUpTo(p, h) == \A f \in DOMAIN p.globalVersions : p.globalVersions[f] <= h

\* The deletes for a set of reals and a set of fakes match: a real address
\* goes exactly when its fake does.
Matching(p, reals, fakes) ==
  \A r \in DOMAIN p.realToFake : r \in reals <=> p.realToFake[r] \in fakes

-----------------------------------------------------------------------------
\* Deleting a key before assigning it changes nothing.
LEMMA PutAbsorbsDelete ==
  ASSUME NEW m, NEW D, NEW k, NEW v
  PROVE  Put(Delete(m, D), k, v) = Put(Delete(m, D \cup {k}), k, v)
  BY DEF Put, Delete

-----------------------------------------------------------------------------
(* Pools *)

\* A new pool is well formed.
LEMMA NewPoolGood == IsPool(NewPool) /\ Mirror(NewPool)
  BY DEF IsPool, IsMap, Mirror, NewPool, EmptyMap

\* Deletes keep the types of the maps and a bound on the versions.
LEMMA DropIsPool ==
  ASSUME NEW p, IsPool(p), NEW reals, NEW fakes
  PROVE  /\ IsPool(Drop(p, reals, fakes))
         /\ \A h \in Nat : VersionsUpTo(p, h) => VersionsUpTo(Drop(p, reals, fakes), h)
  BY DEF IsPool, IsMap, Delete, Drop, VersionsUpTo

\* Matching deletes keep the mirror.
LEMMA DropMirror ==
  ASSUME NEW p, IsPool(p), Mirror(p), NEW reals, NEW fakes,
         Matching(p, reals, fakes)
  PROVE  Mirror(Drop(p, reals, fakes))
  BY DEF IsPool, IsMap, Delete, Drop, Mirror, Matching

\* The assignments keep the types of the maps and a bound on the versions.
LEMMA InstallIsPool ==
  ASSUME NEW p, IsPool(p), NEW r \in IPKey, NEW f \in IPKey,
         NEW v \in Nat, NEW exp \in Nat
  PROVE  /\ IsPool(Install(p, r, f, v, exp))
         /\ \A h \in Nat : VersionsUpTo(p, h) /\ v <= h
                             => VersionsUpTo(Install(p, r, f, v, exp), h)
  BY DEF IsPool, IsMap, Put, Install, VersionsUpTo

\* Between a real address and a fake that are both free they keep the mirror.
LEMMA InstallMirror ==
  ASSUME NEW p, IsPool(p), Mirror(p), NEW r \in IPKey, NEW f \in IPKey,
         NEW v \in Nat, NEW exp \in Nat,
         r \notin DOMAIN p.realToFake, f \notin DOMAIN p.globalFakeToReal
  PROVE  Mirror(Install(p, r, f, v, exp))
<1> DEFINE q == Install(p, r, f, v, exp)
<1>1. /\ q.realToFake = Put(p.realToFake, r, f)
      /\ q.globalFakeToReal = Put(p.globalFakeToReal, f, r)
      /\ q.expiries = Put(p.expiries, r, exp)
      /\ q.globalVersions = Put(p.globalVersions, f, v)
  BY DEF IsPool, Install
<1> HIDE DEF q
<1>2. Mirror(q)
  BY <1>1 DEF Put, Mirror
<1> QED  BY <1>2 DEF q

\* Taking a mapping out keeps everything.
LEMMA RemoveMappingGood ==
  ASSUME NEW p, IsPool(p), Mirror(p), NEW r, NEW f
  PROVE  /\ IsPool(RemoveMapping(p, r, f))
         /\ Mirror(RemoveMapping(p, r, f))
         /\ \A h \in Nat : VersionsUpTo(p, h) => VersionsUpTo(RemoveMapping(p, r, f), h)
<1>1. MapsTo(p, r, f) => Matching(p, {r}, {f})
  BY DEF MapsTo, Matching, Mirror
<1> QED  BY <1>1, DropIsPool, DropMirror DEF RemoveMapping

\* So does taking out the mapping of a real address, if it has one, which is
\* what GetFakeIPsForReals does with an expired one; the address is then free.
LEMMA ForgetGood ==
  ASSUME NEW p, IsPool(p), Mirror(p), NEW r
  PROVE  LET q == Drop(p, {r}, Lookup(p.realToFake, r))
         IN  /\ IsPool(q) /\ Mirror(q)
             /\ r \notin DOMAIN q.realToFake
             /\ \A h \in Nat : VersionsUpTo(p, h) => VersionsUpTo(q, h)
<1>1. Matching(p, {r}, Lookup(p.realToFake, r))
  BY DEF Matching, Mirror, Lookup
<1>2. r \notin DOMAIN Drop(p, {r}, Lookup(p.realToFake, r)).realToFake
  BY DEF Drop, Delete
<1> QED  BY <1>1, <1>2, DropIsPool, DropMirror

\* And so does the pruning of what a scan found, whatever has happened to the
\* pool since the scan.
LEMMA RemoveExpiredGood ==
  ASSUME NEW p, IsPool(p), Mirror(p), NEW pairs, NEW t
  PROVE  /\ IsPool(RemoveExpired(p, pairs, t))
         /\ Mirror(RemoveExpired(p, pairs, t))
         /\ \A h \in Nat : VersionsUpTo(p, h) => VersionsUpTo(RemoveExpired(p, pairs, t), h)
<1> DEFINE still == {e \in pairs : Expired(p, e[1], t) /\ MapsTo(p, e[1], e[2])}
<1>1. Matching(p, {e[1] : e \in still}, {e[2] : e \in still})
  BY DEF MapsTo, Matching, Mirror
<1> QED  BY <1>1, DropIsPool, DropMirror DEF RemoveExpired

\* A merge of a mapping keeps the types and the mirror, and a bound on the
\* versions that covers the mapping, whether it is refused, new, or takes a
\* real address or a fake away from another one.
LEMMA AddMappingGood ==
  ASSUME NEW p, IsPool(p), Mirror(p), NEW r \in IPKey, NEW f \in IPKey,
         NEW v \in Nat, NEW exp \in Nat
  PROVE  /\ IsPool(AddMapping(p, r, f, v, exp))
         /\ Mirror(AddMapping(p, r, f, v, exp))
         /\ \A h \in Nat : VersionsUpTo(p, h) /\ v <= h
                             => VersionsUpTo(AddMapping(p, r, f, v, exp), h)
<1> DEFINE oldReals == Lookup(p.globalFakeToReal, f) \ {r}
           oldFakes == Lookup(p.realToFake, r) \ {f}
           q == Drop(p, oldReals \cup {r}, oldFakes \cup {f})
<1>1. Install(Drop(p, oldReals, oldFakes), r, f, v, exp) = Install(q, r, f, v, exp)
  BY PutAbsorbsDelete DEF Install, Drop
<1>2. Matching(p, oldReals \cup {r}, oldFakes \cup {f})
  BY DEF Matching, Mirror, Lookup
<1>3. IsPool(q) /\ Mirror(q) /\ \A h \in Nat : VersionsUpTo(p, h) => VersionsUpTo(q, h)
  BY <1>2, DropIsPool, DropMirror
<1>4. r \notin DOMAIN q.realToFake /\ f \notin DOMAIN q.globalFakeToReal
  BY DEF Drop, Delete
<1> HIDE DEF q
<1>5. /\ IsPool(Install(q, r, f, v, exp)) /\ Mirror(Install(q, r, f, v, exp))
      /\ \A h \in Nat : VersionsUpTo(q, h) /\ v <= h
                          => VersionsUpTo(Install(q, r, f, v, exp), h)
  BY <1>3, <1>4, InstallIsPool, InstallMirror
<1> QED  BY <1>1, <1>3, <1>5 DEF AddMapping

-----------------------------------------------------------------------------
(* Addresses *)

\* Arithmetic on words stays in the naturals.
LEMMA WordType == ASSUME NEW n \in Int PROVE Word(n) \in Nat
  BY FakeAddrAssumption DEF Word

\* The address that an allocation chooses is an address and is not leased, on
\* the hashed and on the probed path.
LEMMA FinalFakeFree ==
  ASSUME NEW g, g.isIPv6 \in BOOLEAN, g.start \in Nat, g.size \in Nat \ {0},
         NEW h \in Nat, NEW leased, NEW f \in FinalFake(g, h, leased)
  PROVE  f \in IPKey /\ f \notin leased
<1>1. ComputeLevel1Hash(g, h) \in IPKey
  <2>1. g.start + (h % g.size) \in Int
    OBVIOUS
  <2> DEFINE val == Word(g.start + (h % g.size))
  <2>2. val \in Nat
    BY <2>1, WordType
  <2> HIDE DEF val
  <2>3. Word(val + 1) \in Nat /\ Word(val - 1) \in Nat
    BY <2>2, WordType
  <2> QED  BY <2>2, <2>3 DEF ComputeLevel1Hash, Key, IPKey, val
<1>2. ASSUME NEW a \in Attempts(g) PROVE Candidate(g, h, a) \in IPKey
  <2> DEFINE offset == Word(ComputeLevel1Hash(g, h).val - g.start)
  <2>1. offset \in Nat
    BY <1>1, WordType DEF IPKey
  <2>2. a \in Nat
    BY FakeAddrAssumption DEF Attempts
  <2> HIDE DEF offset
  <2>3. Word(offset + a) \in Nat
    BY <2>1, <2>2, WordType
  <2>4. g.start + (Word(offset + a) % g.size) \in Int
    BY <2>3
  <2>5. Word(g.start + (Word(offset + a) % g.size)) \in Nat
    BY <2>4, WordType
  <2> QED  BY <2>5 DEF Candidate, Key, IPKey, offset
<1> QED  BY <1>1, <1>2 DEF FinalFake, Hits, Least

=============================================================================

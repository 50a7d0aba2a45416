------------------------------ MODULE PoolOps ------------------------------
(***************************************************************************)
(* The maps of an IPPool and the operations that change them, as functions *)
(* from pools to pools.  Each is the body of one section of the code that  *)
(* holds globalMu and the shard locks it needs, so each is one step.       *)
(*                                                                         *)
(* The 64 shards partition realToFake and expiries by real address; the    *)
(* model keeps them as one map each.  Which shard holds an address matters *)
(* to the pruning loop only (module IPPool).                               *)
(***************************************************************************)
EXTENDS FakeAddr, GoMap

IsPool(p) ==
  /\ DOMAIN p = {"realToFake", "expiries", "globalFakeToReal", "globalVersions"}
  /\ IsMap(p.realToFake, IPKey, IPKey)
  /\ IsMap(p.expiries, IPKey, Nat)
  /\ IsMap(p.globalFakeToReal, IPKey, IPKey)
  /\ IsMap(p.globalVersions, IPKey, Nat)

NewPool ==
  [realToFake       |-> EmptyMap,
   expiries         |-> EmptyMap,
   globalFakeToReal |-> EmptyMap,
   globalVersions   |-> EmptyMap]

Leased(p) == DOMAIN p.globalFakeToReal

\* Real r leads to fake f.
MapsTo(p, r, f) == r \in DOMAIN p.realToFake /\ p.realToFake[r] = f

\* The four maps agree: the two directions are inverse, and every lease has
\* an expiry and a version.
Mirror(p) ==
  /\ DOMAIN p.expiries = DOMAIN p.realToFake
  /\ DOMAIN p.globalVersions = DOMAIN p.globalFakeToReal
  /\ \A r \in DOMAIN p.realToFake :
        /\ p.realToFake[r] \in DOMAIN p.globalFakeToReal
        /\ p.globalFakeToReal[p.realToFake[r]] = r
  /\ \A f \in DOMAIN p.globalFakeToReal :
        /\ p.globalFakeToReal[f] \in DOMAIN p.realToFake
        /\ p.realToFake[p.globalFakeToReal[f]] = f

-----------------------------------------------------------------------------
\* The four deletes of RemoveMapping, PruneExpired and GetFakeIPsForReals,
\* for a set of real addresses and a set of fake ones.
Drop(p, reals, fakes) ==
  [realToFake       |-> Delete(p.realToFake, reals),
   expiries         |-> Delete(p.expiries, reals),
   globalFakeToReal |-> Delete(p.globalFakeToReal, fakes),
   globalVersions   |-> Delete(p.globalVersions, fakes)]

\* The four assignments that install a mapping.
Install(p, r, f, v, exp) ==
  [realToFake       |-> Put(p.realToFake, r, f),
   expiries         |-> Put(p.expiries, r, exp),
   globalFakeToReal |-> Put(p.globalFakeToReal, f, r),
   globalVersions   |-> Put(p.globalVersions, f, v)]

GetVersion(p, f) ==
  IF f \in DOMAIN p.globalVersions THEN p.globalVersions[f] ELSE 0

\* The mapping <<r, f>> with version v loses to what fake g holds, by the
\* version or, at equal versions, by the tie-break ge.
Loses(p, v, g, ge) ==
  /\ g \in DOMAIN p.globalVersions
  /\ \/ v < p.globalVersions[g]
     \/ v = p.globalVersions[g] /\ ge

\* Mutant of Refused: the receiver's own version check is trusted.
RefusedNever(p, r, f, v) == FALSE

\* AddMapping returns false.
Refused(p, r, f, v) ==
  \/ \E old \in Lookup(p.globalFakeToReal, f) :
        Loses(p, v, f, KeyLeq(r, old))
  \/ \E old \in Lookup(p.realToFake, r) \ {f} :
        Loses(p, v, old, KeyLeq(f, old))

\* Mutant of AddMapping: a mapping already held keeps its version.
AddMappingKeepsVersion(p, r, f, v, exp) ==
  LET oldReals == Lookup(p.globalFakeToReal, f) \ {r}
      oldFakes == Lookup(p.realToFake, r) \ {f}
  IN  IF Refused(p, r, f, v) THEN p
      ELSE Install(Drop(p, oldReals, oldFakes), r, f,
                   IF MapsTo(p, r, f) THEN GetVersion(p, f) ELSE v, exp)

AddMapping(p, r, f, v, exp) ==
  LET oldReals == Lookup(p.globalFakeToReal, f) \ {r}
      oldFakes == Lookup(p.realToFake, r) \ {f}
  IN  IF Refused(p, r, f, v) THEN p
      ELSE Install(Drop(p, oldReals, oldFakes), r, f, v, exp)

RemoveMapping(p, r, f) == IF MapsTo(p, r, f) THEN Drop(p, {r}, {f}) ELSE p

\* Entry r has an expiry, and `t' is after it (strictly).
Expired(p, r, t) == r \in DOMAIN p.expiries /\ p.expiries[r] < t

\* The scan of PruneExpired over a set of keys, at time t.
ScanExpired(p, keys, t) ==
  {<<r, p.realToFake[r]>> :
      r \in {x \in keys \cap DOMAIN p.realToFake : Expired(p, x, t)}}

\* Mutant of RemoveExpired: what the scan found is not checked again.
RemoveExpiredUnchecked(p, pairs, t) ==
  Drop(p, {e[1] : e \in pairs}, {e[2] : e \in pairs})

\* Its second, locked pass over what the scan found.
RemoveExpired(p, pairs, t) ==
  LET still == {e \in pairs : Expired(p, e[1], t) /\ MapsTo(p, e[1], e[2])}
  IN  Drop(p, {e[1] : e \in still}, {e[2] : e \in still})

-----------------------------------------------------------------------------
(* The hybrid logical clock, at value hlc, with the wall clock at wall *)

\* Mutant of GetNextVersion: the clock stands still within one reading.
GetNextVersionSame(hlc, wall) == IF wall > hlc THEN wall ELSE hlc

GetNextVersion(hlc, wall) == IF wall > hlc THEN wall ELSE hlc + 1

\* Mutant of ObserveVersion: only the wall clock is looked at.
ObserveVersionWallOnly(hlc, wall, v) == IF wall > hlc THEN wall ELSE hlc

ObserveVersion(hlc, wall, v) ==
  LET h == IF wall > hlc THEN wall ELSE hlc
  IN  IF v > h THEN v ELSE h

=============================================================================

------------------------------- MODULE IPPool -------------------------------
(***************************************************************************)
(* The Fake-IP pool shared by its concurrent users:                        *)
(*                                                                         *)
(*  - resolvers, the goroutines of the DNS proxy inside                    *)
(*    GetFakeIPsForReals;                                                  *)
(*  - receivers, the goroutines of the sync manager applying the mappings  *)
(*    a peer sent (the loop over msg.Mappings in handleConnection);        *)
(*  - the pruning worker inside PruneExpired.                              *)
(*                                                                         *)
(* One action is one section of the code that holds globalMu, a shard lock *)
(* or hlcMu.  Between two sections anything may happen.                    *)
(*                                                                         *)
(* clock is the monotonic clock that leases are measured with.  The wall   *)
(* clock that feeds the hybrid logical clock hlc may step either way: a    *)
(* reading of it is any member of WallTimes.                               *)
(***************************************************************************)
EXTENDS PoolOps, FiniteSets

CONSTANTS
  Resolvers, Receivers,
  Reals,        \* the real addresses that occur, a set of IPKeys
  Hash,         \* fnv1aBytes of each of them
  Pool4, Pool6, \* the geometries of the two families
  Queries,      \* the sets of real addresses a query may ask for
  PeerMappings, \* the mappings peers may send
  NumShards, ShardOf,
  TTL,          \* MappingTTL, 2 hours
  Grace,        \* the renewal window, 5 minutes
  WallTimes,
  MaxClock,     \* bound on clock
  MaxVersion,   \* bound on hlc at the start of a call
  MaxStall      \* bound on the time a call takes between time.Now() and its end

Mapping == [fake : IPKey, real : IPKey, version : Nat]

ASSUME IPPoolAssumption ==
  /\ Reals \subseteq IPKey
  /\ Hash \in [Reals -> Nat]
  /\ \A g \in {Pool4, Pool6} : g.start \in Nat /\ g.size \in Nat \ {0}
  /\ Pool4.isIPv6 = FALSE /\ Pool6.isIPv6 = TRUE
  /\ Queries \subseteq (SUBSET Reals) \ {{}}
  /\ PeerMappings \subseteq Mapping
  /\ \A m \in PeerMappings : m.real \in Reals
  /\ NumShards \in Nat \ {0}
  /\ ShardOf \in [Reals -> 1 .. NumShards]
  /\ WallTimes \subseteq Nat
  /\ {TTL, Grace, MaxClock, MaxVersion, MaxStall} \subseteq Nat
  /\ Grace + MaxStall <= TTL

VARIABLES
  pool,    \* the shards and the global maps
  hlc,
  clock,
  pc,      \* per resolver: where its call of GetFakeIPsForReals stands
  now,     \* per resolver: time.Now() at the start of the call
  todo,    \* per resolver: addresses still to serve, or to roll back
  result,  \* per resolver: real -> fake
  fresh,   \* per resolver: newMappings, real -> [fake, version]
  recv,    \* per receiver: the mapping it is applying and how far it got
  prune    \* the pruning worker: phase, now, shard and the expired pairs

call == <<pc, now, todo, result, fresh>>
vars == <<pool, hlc, clock, pc, now, todo, result, fresh, recv, prune>>

GeometryOf(k) == IF k.isIPv6 THEN Pool6 ELSE Pool4

LeastKeys(S) == {r \in S : \A q \in S : KeyLeq(r, q)}

-----------------------------------------------------------------------------
(* Resolvers: GetFakeIPsForReals *)

Begin(t, q) ==
  /\ pc[t] \in {"idle", "ok", "failed"}
  /\ hlc < MaxVersion
  /\ pc' = [pc EXCEPT ![t] = "fast"]
  /\ now' = [now EXCEPT ![t] = clock]
  /\ todo' = [todo EXCEPT ![t] = q]
  /\ result' = [result EXCEPT ![t] = EmptyMap]
  /\ fresh' = [fresh EXCEPT ![t] = EmptyMap]
  /\ UNCHANGED <<pool, hlc, clock, recv, prune>>

\* The fake of r goes into the result, and the loop moves on or ends.
Answer(t, r, f) ==
  /\ result' = [result EXCEPT ![t] = Put(@, r, f)]
  /\ todo' = [todo EXCEPT ![t] = @ \ {r}]
  /\ pc' = [pc EXCEPT ![t] = IF todo[t] = {r} THEN "ok" ELSE "fast"]

\* The lookup under the shard's read lock finds a lease that is not due.
NotDue(t, r) ==
  /\ r \in DOMAIN pool.realToFake \cap DOMAIN pool.expiries
  /\ now[t] + Grace < pool.expiries[r]

FastHit(t, r) ==
  /\ pc[t] = "fast"
  /\ NotDue(t, r)
  /\ Answer(t, r, pool.realToFake[r])
  /\ UNCHANGED <<pool, hlc, clock, now, fresh, recv, prune>>

FastMiss(t, r) ==
  /\ pc[t] = "fast"
  /\ ~NotDue(t, r)
  /\ pc' = [pc EXCEPT ![t] = "slow"]
  /\ UNCHANGED <<pool, hlc, clock, now, todo, result, fresh, recv, prune>>

\* The second lookup, under globalMu and the shard's lock.
HoldsLease(t, r) ==
  /\ r \in DOMAIN pool.realToFake
  /\ r \in DOMAIN pool.expiries => now[t] < pool.expiries[r]

\* Mutant of Renewed: a lease about to end is handed out as it is.
RenewedNever(t, r) == pool

\* The lease is renewed when it ends within the renewal window.
Renewed(t, r) ==
  IF r \in DOMAIN pool.expiries /\ now[t] + Grace > pool.expiries[r]
  THEN [pool EXCEPT !.expiries = Put(@, r, now[t] + TTL)]
  ELSE pool

SlowHit(t, r) ==
  /\ pc[t] = "slow"
  /\ HoldsLease(t, r)
  /\ pool' = Renewed(t, r)
  /\ Answer(t, r, pool.realToFake[r])
  /\ UNCHANGED <<hlc, clock, now, fresh, recv, prune>>

\* Mutant of WithoutExpired: only the shard forgets the mapping.
WithoutExpiredShardOnly(r) == Drop(pool, {r}, {})

\* The pool without the expired mapping of r, if it has one.
WithoutExpired(r) == Drop(pool, {r}, Lookup(pool.realToFake, r))

SlowAllocate(t, r, wall) ==
  /\ pc[t] = "slow"
  /\ ~HoldsLease(t, r)
  /\ \E f \in FinalFake(GeometryOf(r), Hash[r], Leased(WithoutExpired(r))) :
        LET v == GetNextVersion(hlc, wall)
        IN  /\ pool' = Install(WithoutExpired(r), r, f, v, now[t] + TTL)
            /\ hlc' = v
            /\ fresh' = [fresh EXCEPT ![t] =
                           Put(@, r, [fake |-> f, version |-> v])]
            /\ Answer(t, r, f)
  /\ UNCHANGED <<clock, now, recv, prune>>

\* Mutant of SlowExhausted: the call fails without rolling back.
SlowExhaustedNoRollback(t, r) ==
  /\ pc[t] = "slow"
  /\ ~HoldsLease(t, r)
  /\ FinalFake(GeometryOf(r), Hash[r], Leased(WithoutExpired(r))) = {}
  /\ pool' = WithoutExpired(r)
  /\ pc' = [pc EXCEPT ![t] = "failed"]
  /\ UNCHANGED <<hlc, clock, now, todo, result, fresh, recv, prune>>

\* No address left: the expired mapping stays deleted, and what the call has
\* allocated so far is to be rolled back.
SlowExhausted(t, r) ==
  /\ pc[t] = "slow"
  /\ ~HoldsLease(t, r)
  /\ FinalFake(GeometryOf(r), Hash[r], Leased(WithoutExpired(r))) = {}
  /\ pool' = WithoutExpired(r)
  /\ todo' = [todo EXCEPT ![t] = DOMAIN fresh[t]]
  /\ pc' = [pc EXCEPT ![t] = IF DOMAIN fresh[t] = {} THEN "failed" ELSE "undo"]
  /\ UNCHANGED <<hlc, clock, now, result, fresh, recv, prune>>

\* One RemoveMapping of the rollback; map iteration takes them in any order.
Rollback(t, r) ==
  /\ pc[t] = "undo"
  /\ pool' = RemoveMapping(pool, r, fresh[t][r].fake)
  /\ todo' = [todo EXCEPT ![t] = @ \ {r}]
  /\ pc' = [pc EXCEPT ![t] = IF todo[t] = {r} THEN "failed" ELSE "undo"]
  /\ UNCHANGED <<hlc, clock, now, result, fresh, recv, prune>>

Resolve(t) ==
  \/ \E r \in LeastKeys(todo[t]) :
        \/ FastHit(t, r)
        \/ FastMiss(t, r)
        \/ SlowHit(t, r)
        \/ \E wall \in WallTimes : SlowAllocate(t, r, wall)
        \/ SlowExhausted(t, r)
  \/ \E r \in todo[t] : Rollback(t, r)

-----------------------------------------------------------------------------
(* Receivers: applying one mapping of a MsgTypeMappings message *)

Idle == [phase |-> "idle"]

\* isInSubnet and the version check; a mapping that fails either is skipped.
Receive(p, m) ==
  /\ recv[p] = Idle
  /\ InSubnet(GeometryOf(m.fake), m.fake)
  /\ GetVersion(pool, m.fake) <= m.version
  /\ recv' = [recv EXCEPT ![p] = [phase |-> "observe", msg |-> m]]
  /\ UNCHANGED <<pool, hlc, clock, call, prune>>

Observe(p, wall) ==
  /\ recv[p].phase = "observe"
  /\ hlc' = ObserveVersion(hlc, wall, recv[p].msg.version)
  /\ recv' = [recv EXCEPT ![p] = [phase |-> "merge", msg |-> @.msg]]
  /\ UNCHANGED <<pool, clock, call, prune>>

Merge(p) ==
  /\ recv[p].phase = "merge"
  /\ LET m == recv[p].msg
     IN  pool' = AddMapping(pool, m.real, m.fake, m.version, clock + TTL)
  /\ recv' = [recv EXCEPT ![p] = Idle]
  /\ UNCHANGED <<hlc, clock, call, prune>>

-----------------------------------------------------------------------------
(* The pruning worker: PruneExpired *)

Shard(i) == {r \in Reals : ShardOf[r] = i}

\* Mutant of NextShard: the last shard is never visited.
NextShardShort ==
  [prune EXCEPT !.phase = IF prune.shard >= NumShards - 1 THEN "idle" ELSE "scan",
                !.shard = IF prune.shard >= NumShards - 1 THEN 1 ELSE @ + 1,
                !.expired = {}]

\* Moves on to the next shard, or ends the pass after the last one.
NextShard ==
  [prune EXCEPT !.phase = IF prune.shard = NumShards THEN "idle" ELSE "scan",
                !.shard = IF prune.shard = NumShards THEN 1 ELSE @ + 1,
                !.expired = {}]

\* The ticker fires.
PruneStart ==
  /\ prune.phase = "idle"
  /\ prune' = [prune EXCEPT !.phase = "scan", !.now = clock]
  /\ UNCHANGED <<pool, hlc, clock, call, recv>>

PruneScan ==
  /\ prune.phase = "scan"
  /\ LET found == ScanExpired(pool, Shard(prune.shard), prune.now)
     IN  prune' = IF found = {} THEN NextShard
                  ELSE [prune EXCEPT !.phase = "delete", !.expired = found]
  /\ UNCHANGED <<pool, hlc, clock, call, recv>>

PruneDelete ==
  /\ prune.phase = "delete"
  /\ pool' = RemoveExpired(pool, prune.expired, prune.now)
  /\ prune' = NextShard
  /\ UNCHANGED <<hlc, clock, call, recv>>

-----------------------------------------------------------------------------

Tick ==
  /\ clock < MaxClock
  /\ \A t \in Resolvers :
        pc[t] \in {"fast", "slow", "undo"} => clock < now[t] + MaxStall
  /\ clock' = clock + 1
  /\ UNCHANGED <<pool, hlc, call, recv, prune>>

Init ==
  /\ pool = NewPool
  /\ hlc = 0
  /\ clock = 0
  /\ pc = [t \in Resolvers |-> "idle"]
  /\ now = [t \in Resolvers |-> 0]
  /\ todo = [t \in Resolvers |-> {}]
  /\ result = [t \in Resolvers |-> EmptyMap]
  /\ fresh = [t \in Resolvers |-> EmptyMap]
  /\ recv = [p \in Receivers |-> Idle]
  /\ prune = [phase |-> "idle", now |-> 0, shard |-> 1, expired |-> {}]

Next ==
  \/ \E t \in Resolvers : Resolve(t) \/ \E q \in Queries : Begin(t, q)
  \/ \E p \in Receivers :
        \/ \E m \in PeerMappings : Receive(p, m)
        \/ \E wall \in WallTimes : Observe(p, wall)
        \/ Merge(p)
  \/ PruneStart \/ PruneScan \/ PruneDelete
  \/ Tick

Spec == Init /\ [][Next]_vars

-----------------------------------------------------------------------------
(* Properties *)

\* Every variable of the pool, of the calls and of the workers has its type,
\* and the time a call or a pruning pass works with is never in the future.
TypeOK ==
  /\ IsPool(pool)
  /\ hlc \in Nat
  /\ clock \in Nat
  /\ pc \in [Resolvers -> {"idle", "fast", "slow", "undo", "ok", "failed"}]
  /\ now \in [Resolvers -> 0 .. clock]
  /\ todo \in [Resolvers -> SUBSET Reals]
  /\ DOMAIN result = Resolvers /\ DOMAIN fresh = Resolvers
  /\ \A t \in Resolvers :
        /\ IsMap(result[t], Reals, IPKey)
        /\ IsMap(fresh[t], Reals, [fake : IPKey, version : Nat])
  /\ recv \in [Receivers ->
       {Idle} \cup [phase : {"observe", "merge"}, msg : PeerMappings]]
  /\ prune \in [phase : {"idle", "scan", "delete"}, now : 0 .. clock,
                shard : 1 .. NumShards, expired : SUBSET (Reals \X IPKey)]

\* The sharded and the global maps mirror each other: realToFake and
\* globalFakeToReal are inverse, every lease has an expiry and every leased
\* fake a version, and there is nothing else in any of them.  No fake is
\* ever handed to two real addresses, although allocation, merges, rollback
\* and pruning each touch four maps under two locks (AddMapping,
\* RemoveMapping, PruneExpired and GetFakeIPsForReals in ippool.go).
MapsMirror == Mirror(pool)

\* The hybrid logical clock is never behind a version in the pool, nor behind
\* one about to be merged, so that an allocation always wins over everything
\* the node has seen (ObserveVersion comes before AddMapping).
HLCAhead ==
  /\ \A f \in Leased(pool) : pool.globalVersions[f] <= hlc
  /\ \A p \in Receivers :
        recv[p].phase = "merge" => recv[p].msg.version <= hlc

\* A fake that a call has put into its answer has, while the mapping stands,
\* a lease of at least the renewal window counted from the start of the
\* call, whatever other calls, merges and pruning did in between
\* (the fast path's and the slow path's expiry checks).
AnswerLease ==
  \A t \in Resolvers : \A r \in DOMAIN result[t] :
     pc[t] \in {"fast", "slow", "ok"} /\ MapsTo(pool, r, result[t][r])
        => now[t] + Grace <= pool.expiries[r]

\* Once a call has failed and its rollback is over, none of the mappings it
\* allocated is left in the pool, not even after its addresses were served to
\* other calls meanwhile (the RemoveMapping loop after "IP pool exhausted"),
\* unless a peer sends the very same mapping with the very same version.
FailedCallLeavesNothing ==
  \A t \in Resolvers : pc[t] = "failed" =>
     \A r \in DOMAIN fresh[t] :
        LET f == fresh[t][r].fake
            v == fresh[t][r].version
        IN  MapsTo(pool, r, f) /\ pool.globalVersions[f] = v
              => \E m \in PeerMappings :
                    m.real = r /\ m.fake = f /\ m.version = v

\* A mapping is displaced by a merge of a mapping for the same real or the
\* same fake that is not older.
MergeDisplaces(r, f) ==
  \E p \in Receivers :
     /\ recv[p].phase = "merge"
     /\ recv'[p] = Idle
     /\ recv[p].msg.real = r \/ recv[p].msg.fake = f
     /\ recv[p].msg.version >= pool.globalVersions[f]

\* ... or by the rollback of a call that allocated it.
RollbackDisplaces(r, f) ==
  \E t \in Resolvers :
     /\ pc[t] = "undo"
     /\ r \in todo[t] \ todo'[t]
     /\ fresh[t][r].fake = f

\* A mapping whose lease has not run out leaves the pool only because a merge
\* or a rollback displaces it; pruning and allocation, which decide on an
\* earlier look at the pool and on an earlier clock, never take it.
LiveLeaseKept ==
  [][\A r \in DOMAIN pool.realToFake :
       LET f == pool.realToFake[r]
       IN  clock < pool.expiries[r] /\ ~MapsTo(pool', r, f)
             => MergeDisplaces(r, f) \/ RollbackDisplaces(r, f)]_vars

\* While a fake stays leased, what it stands for only moves forward in the
\* order (version, real address) of the tie-break, whatever the order in which
\* messages arrive and allocations happen.
FakeNeverRegresses ==
  [][\A f \in Leased(pool) \cap Leased(pool') :
       \/ pool.globalVersions[f] < pool'.globalVersions[f]
       \/ /\ pool.globalVersions[f] = pool'.globalVersions[f]
          /\ KeyLeq(pool.globalFakeToReal[f], pool'.globalFakeToReal[f])]_vars

\* A pass of the pruning worker is complete: when it ends, no lease is left
\* that had run out when it began, although each shard is unlocked between
\* the scan and the deletion, and calls renew and merges replace leases
\* meanwhile (the two loops of PruneExpired).
PassFreesExpired ==
  [][prune.phase # "idle" /\ prune'.phase = "idle"
       => \A r \in Reals : ~Expired(pool', r, prune.now)]_vars

=============================================================================

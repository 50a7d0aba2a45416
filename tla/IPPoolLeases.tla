---------------------------- MODULE IPPoolLeases ----------------------------
(***************************************************************************)
(* IPPool implements LeaseTable: the four maps of the pool, read together, *)
(* are the table, and every section of the code is one step of the table   *)
(* or none.                                                                *)
(***************************************************************************)
EXTENDS IPPool

\* The leases that the shards hold, with the versions of the global map.
LeasesOf(p) ==
  [r \in DOMAIN p.realToFake |->
     [fake    |-> p.realToFake[r],
      version |-> GetVersion(p, p.realToFake[r]),
      expires |-> IF r \in DOMAIN p.expiries THEN p.expiries[r] ELSE 0]]

Table == INSTANCE LeaseTable WITH lease <- LeasesOf(pool)

\* Concurrent calls of GetFakeIPsForReals, merges of peers' mappings,
\* rollbacks and pruning, each made of several locked sections, act on the
\* pool as on a table of leases that is changed one lease at a time: a lease
\* that is taken is exclusive, newer than all others and runs for at least the
\* renewal window, and one that runs is not lost or handed on but to a peer's
\* mapping that is not older, or with the query that failed.
ImplementsLeaseTable == Table!Spec

=============================================================================

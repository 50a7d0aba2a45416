----------------------------- MODULE LeaseTable -----------------------------
(***************************************************************************)
(* What an IPPool promises, without locks, shards, calls in progress or a  *)
(* second direction of the map: a table of leases, one per real address,   *)
(* [fake, version, expires].                                               *)
(*                                                                         *)
(*  - A lease that is taken has a fake that nobody else holds, a version   *)
(*    above every one in the table, and a time to run of at least Grace.   *)
(*  - A lease that runs is never given to somebody else and never cut      *)
(*    short, except by a mapping of a peer that is not older, or when the  *)
(*    query that took it fails.                                            *)
(***************************************************************************)
EXTENDS Naturals

CONSTANTS Reals, TTL, Grace

VARIABLES
  lease,  \* real address -> [fake, version, expires]
  clock

vars == <<lease, clock>>

\* The leases of S do not change.
Same(S) ==
  \A r \in S : /\ r \in DOMAIN lease <=> r \in DOMAIN lease'
               /\ r \in DOMAIN lease => lease'[r] = lease[r]

RunsWell(l) == clock + Grace <= l.expires /\ l.expires <= clock + TTL

\* An address without a lease, or whose lease ran out, gets a new one.
Take(r) ==
  /\ r \in DOMAIN lease => lease[r].expires <= clock
  /\ r \in DOMAIN lease'
  /\ RunsWell(lease'[r])
  /\ \A s \in DOMAIN lease : /\ lease[s].version < lease'[r].version
                             /\ lease[s].fake = lease'[r].fake => s = r
  /\ Same(Reals \ {r})

Renew(r) ==
  /\ r \in DOMAIN lease /\ r \in DOMAIN lease'
  /\ lease'[r] = [lease[r] EXCEPT !.expires = lease'[r].expires]
  /\ lease[r].expires < lease'[r].expires
  /\ RunsWell(lease'[r])
  /\ Same(Reals \ {r})

\* A mapping of a peer displaces the leases of its real and of its fake
\* address, none of which is newer.
Adopt(r) ==
  /\ r \in DOMAIN lease'
  /\ lease'[r].expires = clock + TTL
  /\ LET displaced == {s \in DOMAIN lease : s = r \/ lease[s].fake = lease'[r].fake}
     IN  /\ \A s \in displaced : lease[s].version <= lease'[r].version
         /\ \A s \in displaced \ {r} : s \notin DOMAIN lease'
         /\ Same(Reals \ (displaced \cup {r}))

\* Leases that ran out leave the table.
End ==
  /\ DOMAIN lease' \subseteq DOMAIN lease
  /\ Same(Reals \cap DOMAIN lease')
  /\ \A r \in DOMAIN lease \ DOMAIN lease' : lease[r].expires <= clock

\* A query failed, and a lease it took is given back.
Withdraw(r) ==
  /\ r \in DOMAIN lease /\ r \notin DOMAIN lease'
  /\ Same(Reals \ {r})

Tick == clock' = clock + 1 /\ UNCHANGED lease

Init == lease = [r \in {} |-> 0] /\ clock = 0

Next ==
  \/ Tick
  \/ /\ UNCHANGED clock
     /\ \/ End
        \/ \E r \in Reals : Take(r) \/ Renew(r) \/ Adopt(r) \/ Withdraw(r)

Spec == Init /\ [][Next]_vars

=============================================================================

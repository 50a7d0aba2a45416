------------------------------ MODULE MCIPPool ------------------------------
(***************************************************************************)
(* Small instances of IPPool.  Words have 16 values and an octet 4, so     *)
(* that an IPv4 pool of four addresses has one network and one broadcast   *)
(* address and two usable ones.                                            *)
(***************************************************************************)
EXTENDS IPPoolLeases, TLC

\* Real addresses.
A == Key(FALSE, 1)
B == Key(FALSE, 2)
C == Key(FALSE, 3)

ThreeReals == {A, B, C}

\* A and B collide on their natural address, and B's hash exceeds the pool.
\* C occurs only in what a peer sends.
Collide == [r \in ThreeReals |-> IF r = B THEN 5 ELSE 1]

\* Four addresses of which two are usable, and a pool for IPv6.
FourAddrs == Geometry(FALSE, 9, 4, 8)
TwoAddrs6 == Geometry(TRUE, 4, 2, 8)

PairQueries == {{A, B}, {B}}

\* The two leasable fakes of the IPv4 pool, and an address outside it.
F1 == Key(FALSE, 9)
F2 == Key(FALSE, 10)
Outside == Key(FALSE, 5)

M(f, r, v) == [fake |-> f, real |-> r, version |-> v]

\* A tie with the first allocation, a mapping that leaves one address for two
\* reals, and one that isInSubnet rejects.
SomeMappings == {M(F1, A, 1), M(F2, C, 2), M(Outside, B, 2)}

TwoShards == [r \in ThreeReals |-> IF r = C THEN 2 ELSE 1]

\* Resolvers differ in nothing but their name.
Symmetry == Permutations(Resolvers)

=============================================================================

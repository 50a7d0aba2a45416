--------------------------- MODULE MCReplication ---------------------------
(***************************************************************************)
(* Small instances of Replication: real addresses that share their natural *)
(* fake, in a pool with two or three usable addresses.                     *)
(***************************************************************************)
EXTENDS Replication, TLC

TwoReals == {Key(FALSE, 1), Key(FALSE, 2)}
ThreeReals == TwoReals \cup {Key(FALSE, 3)}

BothHashes == {[r \in TwoReals |-> 1], [r \in TwoReals |-> r.val]}
SomeHash == {[r \in ThreeReals |-> IF r.val = 3 THEN 2 ELSE 1]}

\* At most one of two wall clocks is ahead.
NoSkew == {[n \in Nodes |-> 0]}
OneAhead == {s \in [Nodes -> {0, 2}] : \E n \in Nodes : s[n] = 0}

FourAddrs == Geometry(FALSE, 9, 4, 8)

Symmetry == Permutations(Nodes)

=============================================================================

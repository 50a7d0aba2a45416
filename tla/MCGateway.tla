----------------------------- MODULE MCGateway -----------------------------
(***************************************************************************)
(* Small instances of Gateway.  Words have 16 values and an octet 4.       *)
(***************************************************************************)
EXTENDS Gateway, TLC

\* Two IPv4 and two IPv6 addresses.
A == Key(FALSE, 1)
B == Key(FALSE, 2)
D == Key(TRUE, 1)
E == Key(TRUE, 2)

FourReals == {A, B, D, E}
SameHash == [r \in FourReals |-> 1]

\* An IPv4 pool with two usable addresses, an IPv6 pool with one.
FourAddrs == Geometry(FALSE, 9, 4, 8)
OneAddr6 == Geometry(TRUE, 4, 1, 8)

\* Two handlers with answers of both families, of which only one can have its
\* IPv6 address, while a peer gives A's address to B and writes fail.
Queries ==
  [upstream |-> {{A, D}, {A, B, E}}, writesFail |-> TRUE,
   peers |-> {[fake |-> Key(FALSE, 9), real |-> B, version |-> 2]},
   handlers |-> 2, maxClock |-> 0, maxCrashes |-> 0]

\* One handler after another over the lifetime of several leases, with a crash.
Lifetimes ==
  [upstream |-> {{A}, {B}, {A, B}}, writesFail |-> FALSE, peers |-> {},
   handlers |-> 1, maxClock |-> 5, maxCrashes |-> 1]

BothWorkloads == {Queries, Lifetimes}

Symmetry == Permutations(Handlers)

=============================================================================

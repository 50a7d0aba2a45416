------------------------------ MODULE Probing ------------------------------
(***************************************************************************)
(* One family of the pool, filled and emptied one address at a time: the   *)
(* allocation part of GetFakeIPsForReals over every geometry that          *)
(* NewIPPoolWithConfig can build and every hash.                           *)
(***************************************************************************)
EXTENDS FakeAddr

CONSTANT Geometries   \* the pools to consider

ASSUME ProbingAssumption ==
  \A g \in Geometries :
    /\ g.isIPv6 \in BOOLEAN
    /\ g.start \in Nat
    /\ g.size \in Nat \ {0}

VARIABLES
  geo,      \* the geometry of the pool
  leased    \* the addresses in globalFakeToReal

vars == <<geo, leased>>

\* The values fnv1aBytes may return.
Hashes == 0 .. WordSize - 1

Init == geo \in Geometries /\ leased = {}

\* An address is found for a real address with hash h.
Allocate(h) ==
  /\ \E f \in FinalFake(geo, h, leased) : leased' = leased \cup {f}
  /\ UNCHANGED geo

\* A lease ends.
Release(f) ==
  /\ leased' = leased \ {f}
  /\ UNCHANGED geo

Next ==
  \/ \E h \in Hashes : Allocate(h)
  \/ \E f \in leased : Release(f)

Spec == Init /\ [][Next]_vars

-----------------------------------------------------------------------------
(* Properties *)

\* The addresses of the pool that may be handed out.
Usable == {Key(geo.isIPv6, v) :
             v \in {w \in geo.start .. geo.start + geo.size - 1 :
                      ~Reserved(geo, w)}}

\* Every address that hashing, the adjustment away from network and broadcast
\* addresses, or probing with wrap-around hands out lies in the subnet that
\* GetPoolNet advertises, and none is the network or broadcast address of an
\* IPv4 /24 (ComputeLevel1Hash adjusts them, the probing loop skips them).
OnlyUsable == \A f \in leased : InSubnet(geo, f) /\ ~Reserved(geo, f.val)

\* When the allocator gives up on a real address and counts an exhaustion, no
\* usable address of the pool is free.
ExhaustedIsFull ==
  \A h \in Hashes : FinalFake(geo, h, leased) = {} => Usable \subseteq leased

=============================================================================

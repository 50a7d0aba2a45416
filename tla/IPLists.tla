------------------------------ MODULE IPLists ------------------------------
(***************************************************************************)
(* The compiler's treatment of IP lists (compileIPs), for one address      *)
(* family: included prefixes are aggregated until at most limit are left,  *)
(* then excluded and denied ones are taken out.                            *)
(*                                                                         *)
(* A prefix is [bits, addr]: it holds the addresses that agree with addr   *)
(* on their first bits bits.                                               *)
(***************************************************************************)
EXTENDS Naturals, FiniteSets, FiniteSetsExt

CONSTANTS
  Width,        \* the bits of an address
  Limits,       \* the values CompileConfig.Limit may have
  MinPrefix,    \* aggregation widens no prefix beyond this length
  MinAllowed,   \* included prefixes that are shorter are ignored
  IncludeIPs,   \* the contents that include-ips may have
  ExcludeIPs,   \* the contents that exclude-ips may have
  DenyIPs       \* the contents that deny-ips may have

ASSUME IPListsAssumption ==
  /\ {Width, MinPrefix, MinAllowed} \subseteq Nat /\ Limits \subseteq Nat \ {0}
  /\ MinAllowed <= MinPrefix /\ MinPrefix <= Width

VARIABLES
  limit,                    \* CompileConfig.Limit
  incIps, excIps, denyIps,  \* the lists
  aggregated,               \* what aggregatePrefixes returned
  routeIps, denied,         \* the files route-ips and deny-ips
  ipsWritten

ipLists == <<limit, incIps, excIps, denyIps>>
ipFiles == <<aggregated, routeIps, denied, ipsWritten>>

Addr == 0 .. 2^Width - 1

\* netip.Prefix.Masked
Masked(a, n) == [bits |-> n, addr |-> a - (a % 2^(Width - n))]
Prefix == {Masked(a, n) : a \in Addr, n \in 0 .. Width}

AddressesOf(p) == p.addr .. p.addr + 2^(Width - p.bits) - 1
Addresses(nets) == UNION {AddressesOf(p) : p \in nets}

\* netipx.IPSet.Prefixes: the fewest prefixes that hold exactly S.
Prefixes(S) ==
  {p \in Prefix : /\ AddressesOf(p) \subseteq S
                  /\ p.bits = 0 \/ ~(AddressesOf(Masked(p.addr, p.bits - 1)) \subseteq S)}

SubNetsOptimized(incNets, excNets) == Prefixes(Addresses(incNets) \ Addresses(excNets))

CollapseIPNets(nets) == SubNetsOptimized(nets, {})

\* The safeguard is for included prefixes only.
FilterIPNets(nets, applySafeguard) ==
  {p \in nets : ~applySafeguard \/ p.bits >= MinAllowed}

MaxBits(nets) == Max({p.bits : p \in nets})

\* One round of the loop: the longest prefixes lose a bit.
Supers(nets) ==
  {IF p.bits = MaxBits(nets) THEN Masked(p.addr, p.bits - 1) ELSE p : p \in nets}

DoneAboveLimit(nets) == Cardinality(nets) <= limit + 1 \/ MaxBits(nets) <= MinPrefix

\* The conditions under which aggregatePrefixes returns.
Done(nets) == Cardinality(nets) <= limit \/ MaxBits(nets) <= MinPrefix

RECURSIVE Aggregate(_)
Aggregate(nets) == IF nets = {} \/ Done(nets) THEN nets
                   ELSE Aggregate(CollapseIPNets(Supers(nets)))

AggregatePrefixes(nets) == Aggregate(CollapseIPNets(nets))

\* Mutant of CompileIPs: the exclusions are taken out before aggregating.
CompileIPsEarly ==
  /\ denied' = SubNetsOptimized(FilterIPNets(denyIps, FALSE), {})
  /\ aggregated' = AggregatePrefixes(
                     SubNetsOptimized(FilterIPNets(incIps, TRUE), excIps \cup denyIps))
  /\ routeIps' = aggregated'
  /\ ipsWritten' = TRUE
  /\ UNCHANGED ipLists

CompileIPs ==
  /\ denied' = SubNetsOptimized(FilterIPNets(denyIps, FALSE), {})
  /\ aggregated' = AggregatePrefixes(FilterIPNets(incIps, TRUE))
  /\ routeIps' = SubNetsOptimized(aggregated', FilterIPNets(excIps, FALSE) \cup
                                               FilterIPNets(denyIps, FALSE))
  /\ ipsWritten' = TRUE
  /\ UNCHANGED ipLists

\* The IP lists as they may be; or empty.
IPsLoaded ==
  /\ limit \in Limits
  /\ incIps \in IncludeIPs /\ excIps \in ExcludeIPs /\ denyIps \in DenyIPs
NoIPs == limit = Max(Limits) /\ incIps = {} /\ excIps = {} /\ denyIps = {}

InitIPFiles == aggregated = {} /\ routeIps = {} /\ denied = {} /\ ipsWritten = FALSE

-----------------------------------------------------------------------------
(* Properties *)

Included == Addresses(FilterIPNets(incIps, TRUE))

\* No address that is excluded or denied is routed, although aggregation
\* widens the included prefixes over addresses that no list names, and all
\* that is included and not taken out is.
RoutesAreRight ==
  LET out == Addresses(excIps \cup denyIps)
  IN  /\ Addresses(routeIps) \cap out = {}
      /\ ipsWritten => Included \ out \subseteq Addresses(routeIps)

\* Prefixes are widened as far as needed and no further: aggregatePrefixes
\* ends within the limit, or with no prefix left that it may widen; what is
\* routed in excess agrees with an included address on its first MinPrefix
\* bits; and included addresses that limit prefixes can hold are routed
\* exactly.
WideningIsBounded ==
  /\ Cardinality(aggregated) <= limit \/ \A p \in aggregated : p.bits <= MinPrefix
  /\ \A a \in Addresses(routeIps) :
        \E b \in Included : Masked(a, MinPrefix) = Masked(b, MinPrefix)
  /\ ipsWritten /\ Cardinality(Prefixes(Included)) <= limit =>
        Addresses(routeIps) \subseteq Included

=============================================================================

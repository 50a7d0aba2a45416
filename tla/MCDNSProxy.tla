---------------------------- MODULE MCDNSProxy ----------------------------
(***************************************************************************)
(* Small instances of DNSProxy.                                            *)
(***************************************************************************)
EXTENDS DNSProxy

Addr(family, val) == [family |-> family, val |-> val]

V4 == {Addr("v4", 1), Addr("v4", 2)}
V6 == {Addr("v6", 1), Addr("v6", 2)}

\* The fake of an address has a value of its own.
FakeAddresses == [a \in V4 \cup V6 |-> [a EXCEPT !.val = @ + 10]]

TTLs == {1, 5}

\* A record for each kind of address and each case of the rewriting.
ARecords == {[type |-> "A", ttl |-> t, addr |-> a] : t \in TTLs, a \in V4 \cup {Addr("v4", 0)}}

AAAARecords ==
  {[type |-> "AAAA", ttl |-> t, addr |-> a] :
     t \in TTLs, a \in {Addr("v6", 1), Addr("v6", 0), Addr("mapped", 1)}}

Hint4 == [key |-> "ipv4hint", hint |-> <<Addr("v4", 1), Addr("v4", 0)>>]
Hint4b == [key |-> "ipv4hint", hint |-> <<Addr("v4", 2)>>]
Hint6 == [key |-> "ipv6hint", hint |-> <<Addr("mapped", 1), Addr("v6", 2)>>]
Alpn == [key |-> "alpn", hint |-> <<>>]

SVCBRecords ==
  {[type |-> "SVCB", ttl |-> t, value |-> v] :
     t \in TTLs, v \in {<<Alpn, Hint4>>, <<Hint4b, Hint6>>}}

OtherRecords == {[type |-> "DNSSEC", ttl |-> 5], [type |-> "other", ttl |-> 5]}

AllRecords == ARecords \cup AAAARecords \cup SVCBRecords \cup OtherRecords

\* Up to two answers, and one record that differs in each other section.
Messages ==
  {[Answer |-> a, Ns |-> n, Extra |-> x, AuthenticatedData |-> TRUE] :
     a \in {<<>>} \cup {<<r>> : r \in AllRecords} \cup
           {<<r, s>> : r \in ARecords \cup SVCBRecords, s \in AllRecords},
     n \in {<<>>, <<[type |-> "DNSSEC", ttl |-> 5]>>},
     x \in {<<>>} \cup {<<r>> : r \in AAAARecords \cup SVCBRecords}}

=============================================================================

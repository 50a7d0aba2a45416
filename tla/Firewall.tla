------------------------------ MODULE Firewall ------------------------------
(***************************************************************************)
(* The input chain that InitStructure gives the kernel, for a              *)
(* configuration [publicDNS, doh, enableIPv6].                             *)
(*                                                                         *)
(* A packet is told apart by what the rules look at.  Whether the meters   *)
(* of its source are used up is a property of the packet, any.             *)
(***************************************************************************)
EXTENDS Naturals, Sequences

Config == [publicDNS : BOOLEAN, doh : BOOLEAN, enableIPv6 : BOOLEAN]

Services == {"dns-udp", "dns-tcp", "doh", "sync", "other"}

Packet == [via : {"lo", "established", "new"}, ipv6 : BOOLEAN, denied : BOOLEAN,
           src : {"private", "peer", "public"}, dst : Services, over : BOOLEAN]

-----------------------------------------------------------------------------
(* The rules *)

\* A rule looks at the family ("ip", "ip6" or "any"), at one thing about the
\* source and at the service, and has a verdict.
Rule(family, source, dst, verdict) ==
  [family |-> family, source |-> source, dst |-> dst, verdict |-> verdict]

\* The rule, for IPv4 and, if enabled, for IPv6.
Both(c, source, dst, verdict) ==
  <<Rule("ip", source, dst, verdict)>> \o
  (IF c.enableIPv6 THEN <<Rule("ip6", source, dst, verdict)>> ELSE <<>>)

When(b, rules) == IF b THEN rules ELSE <<>>

\* Mutant of InputChain: the sync port is closed before peers are let in.
InputChainPeersLast(c) ==
  <<Rule("any", "lo", "any", "accept"), Rule("any", "established", "any", "accept")>> \o
  Both(c, "denied", "any", "drop") \o
  When(~c.publicDNS, Both(c, "outside", "dns-udp", "drop") \o
                     Both(c, "outside", "dns-tcp", "drop") \o
                     When(c.doh, Both(c, "outside", "doh", "drop"))) \o
  Both(c, "outside", "sync", "drop") \o
  Both(c, "peer", "sync", "accept") \o
  Both(c, "within rate", "dns-udp", "accept") \o
  Both(c, "within rate", "dns-tcp", "accept") \o
  When(c.doh, Both(c, "within rate", "doh", "accept")) \o
  <<Rule("any", "any", "dns-udp", "drop"), Rule("any", "any", "dns-tcp", "drop")>> \o
  When(c.doh /\ ~c.publicDNS, <<Rule("any", "any", "doh", "drop")>>)

\* DoH has rules when its port is not 443.
InputChain(c) ==
  <<Rule("any", "lo", "any", "accept"), Rule("any", "established", "any", "accept")>> \o
  Both(c, "denied", "any", "drop") \o
  When(~c.publicDNS, Both(c, "outside", "dns-udp", "drop") \o
                     Both(c, "outside", "dns-tcp", "drop") \o
                     When(c.doh, Both(c, "outside", "doh", "drop"))) \o
  Both(c, "peer", "sync", "accept") \o
  Both(c, "outside", "sync", "drop") \o
  Both(c, "within rate", "dns-udp", "accept") \o
  Both(c, "within rate", "dns-tcp", "accept") \o
  When(c.doh, Both(c, "within rate", "doh", "accept")) \o
  <<Rule("any", "any", "dns-udp", "drop"), Rule("any", "any", "dns-tcp", "drop")>> \o
  When(c.doh /\ ~c.publicDNS, <<Rule("any", "any", "doh", "drop")>>)

-----------------------------------------------------------------------------
(* External: the kernel *)

Matches(rule, p) ==
  /\ rule.family = "any" \/ p.ipv6 = (rule.family = "ip6")
  /\ rule.dst \in {"any", p.dst}
  /\ CASE rule.source = "any" -> TRUE
       [] rule.source \in {"lo", "established"} -> p.via = rule.source
       [] rule.source = "denied" -> p.denied
       [] rule.source = "outside" -> p.src # "private"
       [] rule.source = "peer" -> p.src = "peer"
       [] rule.source = "within rate" -> ~p.over

\* The first rule that matches decides; the chain's policy is to accept.
Verdict(rules, p) ==
  LET hits == {i \in DOMAIN rules : Matches(rules[i], p)}
  IN  IF hits = {} THEN "accept"
      ELSE rules[CHOOSE i \in hits : \A j \in hits : i <= j].verdict

-----------------------------------------------------------------------------

\* What the configuration asks for ("Open DNS port 53 to public external
\* network interfaces", README.md).  DNS answers whom it may within the rate;
\* the sync port is for private addresses and peers.  Rules for IPv6 are there
\* only if it is enabled, and then DNS is closed to it.
Open(c, p) ==
  LET known == ~p.ipv6 \/ c.enableIPv6
  IN  \/ p.via # "new"
      \/ /\ p.denied => ~known
         /\ CASE p.dst \in {"dns-udp", "dns-tcp"} ->
                   known /\ ~p.over /\ (c.publicDNS \/ p.src = "private")
              [] p.dst = "doh" /\ c.doh ->
                   c.publicDNS \/ (known /\ ~p.over /\ p.src = "private")
              [] p.dst = "sync" -> p.src \in {"private", "peer"} \/ ~known
              [] OTHER -> TRUE

\* The rules let in exactly what configuration c asks for.
Enforces(rules, c) ==
  \A p \in Packet : Verdict(rules, p) = IF Open(c, p) THEN "accept" ELSE "drop"

=============================================================================

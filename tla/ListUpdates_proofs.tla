------------------------- MODULE ListUpdates_proofs -------------------------
(***************************************************************************)
(* Proofs about ListUpdates, for any number of published archives, edits,  *)
(* failures and restarts: that the input chain enforces the configuration  *)
(* (InputPolicy), and that .etag vouches for the archive's files           *)
(* (EtagIsHonest).                                                         *)
(*                                                                         *)
(* InputPolicy rests on what a chain decides: the first rule that matches  *)
(* a packet, so that a part of the chain matters only for the packets that *)
(* the parts before it leave open.  EtagIsHonest rests on the order in     *)
(* which the updater writes: the files one after the other, and .etag when *)
(* all of them hold the version that was downloaded.                       *)
(***************************************************************************)
EXTENDS ListUpdates, SequenceTheorems, WellFoundedInduction, TLAPS

-----------------------------------------------------------------------------
(* What a chain decides *)

\* Some rule is about the packet.
Hit(rules, p) == \E i \in DOMAIN rules : Matches(rules[i], p)

\* What a rule does with a packet.
Verdicts == {"accept", "drop"}

\* The fields of the rules that InitStructure adds.
Families == {"any", "ip", "ip6"}
Sources == {"any", "lo", "established", "denied", "outside", "peer", "within rate"}
Destinations == Services \cup {"any"}
RuleSet == [family : Families, source : Sources, dst : Destinations, verdict : Verdicts]

\* What the rules say of a packet, and "none" if they say nothing.
Decision(rules, p) == IF Hit(rules, p) THEN Verdict(rules, p) ELSE "none"

\* A set of natural numbers that is not empty has a least element.
LEMMA LeastOf ==
  ASSUME NEW T \in SUBSET Nat, T # {}
  PROVE  \E i \in T : \A j \in T : i <= j
<1> DEFINE R == OpToRel(<, Nat)
<1>1. IsWellFoundedOn(R, Nat)
  BY NatLessThanWellFounded, Zenon
<1>2. \A x, y \in Nat : <<x, y>> \in R <=> x < y
  BY DEF OpToRel
<1> HIDE DEF R
<1>3. PICK i \in T : \A j \in T : ~(<<j, i>> \in R)
  BY <1>1, WFMin, Zenon
<1>4. \A j \in T : ~(j < i)
  BY <1>2, <1>3, Zenon
<1>5. \A j \in T : i <= j
  BY <1>4
<1> QED  BY <1>5

\* The first rule that matches decides.
LEMMA VerdictIs ==
  ASSUME NEW rules, NEW p, DOMAIN rules \subseteq Nat,
         NEW i \in DOMAIN rules, Matches(rules[i], p),
         \A j \in DOMAIN rules : Matches(rules[j], p) => i <= j
  PROVE  Verdict(rules, p) = rules[i].verdict
<1> DEFINE hits == {x \in DOMAIN rules : Matches(rules[x], p)}
<1>1. i \in hits /\ (\A j \in hits : i <= j) /\ hits \subseteq Nat
  OBVIOUS
<1> HIDE DEF hits
<1>2. (CHOOSE x \in hits : \A j \in hits : x <= j) = i
  BY <1>1
<1> QED  BY <1>1, <1>2 DEF Verdict, hits

\* Rules that follow others decide only what those leave open.
LEMMA DecisionConcat ==
  ASSUME NEW a \in Seq(RuleSet), NEW b \in Seq(RuleSet), NEW p
  PROVE  Decision(a \o b, p) = IF Hit(a, p) THEN Decision(a, p) ELSE Decision(b, p)
<1> DEFINE ab == a \o b
           n == Len(a)
<1>1. /\ n \in Nat /\ Len(b) \in Nat /\ DOMAIN a = 1 .. n /\ DOMAIN b = 1 .. Len(b)
      /\ DOMAIN ab = 1 .. n + Len(b)
      /\ \A i \in 1 .. n : ab[i] = a[i]
      /\ \A i \in 1 .. n + Len(b) : ~(i <= n) => ab[i] = b[i - n]
  BY ConcatProperties, LenProperties
<1> HIDE DEF ab, n
<1>2. \A i \in DOMAIN b : i + n \in DOMAIN ab /\ ab[i + n] = b[i]
  BY <1>1
<1>3. /\ DOMAIN a \subseteq DOMAIN ab
      /\ \A i \in DOMAIN ab : i \in DOMAIN a \/ (i - n \in DOMAIN b /\ (i - n) + n = i)
      /\ DOMAIN a \subseteq Nat /\ DOMAIN b \subseteq Nat /\ DOMAIN ab \subseteq Nat
      /\ \A i \in DOMAIN a, j \in DOMAIN b : i <= j + n
      /\ \A i \in DOMAIN b, j \in DOMAIN b : i <= j => i + n <= j + n
  BY <1>1
<1>4. CASE Hit(a, p)
  <2>1. PICK i \in DOMAIN a : /\ Matches(a[i], p)
                              /\ \A j \in DOMAIN a : Matches(a[j], p) => i <= j
    <3> DEFINE T == {j \in DOMAIN a : Matches(a[j], p)}
    <3>1. T \in SUBSET Nat /\ T # {}
      BY <1>3, <1>4 DEF Hit
    <3>2. \E i \in T : \A j \in T : i <= j
      BY <3>1, LeastOf, Zenon
    <3> QED  BY <3>2
  <2>2. Verdict(a, p) = a[i].verdict
    BY <1>3, <2>1, VerdictIs
  <2>3. ab[i] = a[i] /\ i \in DOMAIN ab
    BY <1>1, <1>3
  <2>4. ASSUME NEW j \in DOMAIN ab, Matches(ab[j], p)
        PROVE  i <= j
    <3>1. CASE j \in DOMAIN a
      BY <1>1, <2>1, <2>4, <3>1
    <3>2. CASE j - n \in DOMAIN b /\ (j - n) + n = j
      BY <1>3, <3>2
    <3> QED  BY <1>3, <3>1, <3>2
  <2>5. Verdict(ab, p) = ab[i].verdict
    BY <1>3, <2>1, <2>3, <2>4, VerdictIs
  <2>6. Hit(ab, p)
    BY <2>1, <2>3 DEF Hit
  <2> QED  BY <1>4, <2>2, <2>3, <2>5, <2>6 DEF Decision, ab
<1>5. CASE ~Hit(a, p) /\ Hit(b, p)
  <2>1. PICK i \in DOMAIN b : /\ Matches(b[i], p)
                              /\ \A j \in DOMAIN b : Matches(b[j], p) => i <= j
    <3> DEFINE T == {j \in DOMAIN b : Matches(b[j], p)}
    <3>1. T \in SUBSET Nat /\ T # {}
      BY <1>3, <1>5 DEF Hit
    <3>2. \E i \in T : \A j \in T : i <= j
      BY <3>1, LeastOf, Zenon
    <3> QED  BY <3>2
  <2>2. Verdict(b, p) = b[i].verdict
    BY <1>3, <2>1, VerdictIs
  <2>3. ASSUME NEW j \in DOMAIN ab, Matches(ab[j], p)
        PROVE  i + n <= j
    <3>1. j \notin DOMAIN a
      BY <1>1, <1>5, <2>3 DEF Hit
    <3>2. j - n \in DOMAIN b /\ (j - n) + n = j
      BY <1>3, <3>1
    <3>3. Matches(b[j - n], p)
      BY <1>2, <2>3, <3>2
    <3> QED  BY <1>3, <2>1, <3>2, <3>3
  <2>4. i + n \in DOMAIN ab /\ ab[i + n] = b[i]
    BY <1>2
  <2>5. Verdict(ab, p) = ab[i + n].verdict
    <3> DEFINE k == i + n
    <3> HIDE DEF k
    <3>1. k \in DOMAIN ab /\ Matches(ab[k], p) /\ \A j \in DOMAIN ab : Matches(ab[j], p) => k <= j
      BY <2>1, <2>3, <2>4 DEF k
    <3>2. Verdict(ab, p) = ab[k].verdict
      BY <1>3, <3>1, VerdictIs
    <3> QED  BY <3>2 DEF k
  <2>6. Hit(ab, p)
    BY <2>1, <2>4 DEF Hit
  <2> QED  BY <1>5, <2>2, <2>4, <2>5, <2>6 DEF Decision, ab
<1>6. CASE ~Hit(a, p) /\ ~Hit(b, p)
  <2>1. ~Hit(ab, p)
    <3> SUFFICES ASSUME NEW j \in DOMAIN ab, Matches(ab[j], p) PROVE FALSE
      BY DEF Hit
    <3>1. j \notin DOMAIN a
      BY <1>1, <1>6 DEF Hit
    <3>2. j - n \in DOMAIN b /\ (j - n) + n = j
      BY <1>3, <3>1
    <3>3. Matches(b[j - n], p)
      BY <1>2, <3>2
    <3> QED  BY <1>6, <3>2, <3>3 DEF Hit
  <2> QED  BY <1>6, <2>1 DEF Decision, ab
<1> QED  BY <1>4, <1>5, <1>6

\* Rules that are about a packet accept or drop it.
LEMMA DecisionRange ==
  ASSUME NEW a \in Seq(RuleSet), NEW p
  PROVE  Hit(a, p) => Decision(a, p) \in Verdicts
<1> SUFFICES ASSUME Hit(a, p) PROVE Decision(a, p) \in Verdicts
  OBVIOUS
<1>1. DOMAIN a \subseteq Nat /\ \A i \in DOMAIN a : a[i] \in RuleSet
  BY LenProperties, ElementOfSeq
<1> DEFINE T == {j \in DOMAIN a : Matches(a[j], p)}
<1>2. T \in SUBSET Nat /\ T # {}
  BY <1>1 DEF Hit
<1>3. PICK i \in T : \A j \in T : i <= j
  BY <1>2, LeastOf, Zenon
<1>4. Verdict(a, p) = a[i].verdict
  BY <1>1, <1>3, VerdictIs
<1> QED  BY <1>1, <1>4 DEF Decision, RuleSet

\* The same, said of decisions only.
LEMMA DecisionThen ==
  ASSUME NEW a \in Seq(RuleSet), NEW b \in Seq(RuleSet), NEW p
  PROVE  /\ a \o b \in Seq(RuleSet)
         /\ Decision(a \o b, p) =
              IF Decision(a, p) = "none" THEN Decision(b, p) ELSE Decision(a, p)
<1>1. Hit(a, p) <=> Decision(a, p) # "none"
  BY DecisionRange DEF Decision, Verdicts
<1> QED  BY <1>1, DecisionConcat, ConcatProperties

-----------------------------------------------------------------------------
(* The rules of InitStructure *)

\* These rules say v of packets for which b holds, and nothing of others.
Says(rules, p, b, v) ==
  rules \in Seq(RuleSet) /\ Decision(rules, p) = IF b THEN v ELSE "none"

\* What a rule asks of the source of a packet.
About(source, p) ==
  CASE source = "any" -> TRUE
    [] source \in {"lo", "established"} -> p.via = source
    [] source = "denied" -> p.denied
    [] source = "outside" -> p.src # "private"
    [] source = "peer" -> p.src = "peer"
    [] source = "within rate" -> ~p.over

\* What a rule asks of the destination, and the families that get rules.
To(dst, p) == dst \in {"any", p.dst}
Known(c, p) == ~p.ipv6 \/ c.enableIPv6

\* No rules say nothing.
LEMMA NoRules ==
  ASSUME NEW p, NEW v
  PROVE  Says(<<>>, p, FALSE, v)
  BY DEF Decision, Hit, Says

\* One rule says its verdict of the packets that it is about.
LEMMA OneRule ==
  ASSUME NEW family \in Families, NEW source \in Sources, NEW dst \in Destinations,
         NEW verdict \in Verdicts, NEW p
  PROVE  Says(<<Rule(family, source, dst, verdict)>>, p,
              Matches(Rule(family, source, dst, verdict), p), verdict)
<1> DEFINE rule == Rule(family, source, dst, verdict)
<1>1. rule \in RuleSet /\ rule.verdict = verdict
  BY DEF Rule, RuleSet
<1> HIDE DEF rule
<1>2. <<rule>> \in Seq(RuleSet) /\ DOMAIN <<rule>> = {1} /\ <<rule>>[1] = rule
  BY <1>1
<1>3. Hit(<<rule>>, p) <=> Matches(rule, p)
  BY <1>2 DEF Hit
<1>4. Matches(rule, p) => Verdict(<<rule>>, p) = verdict
  <2>1. \A j \in DOMAIN <<rule>> : 1 <= j
    BY <1>2
  <2> QED  BY <1>1, <1>2, <2>1, VerdictIs
<1> QED  BY <1>2, <1>3, <1>4 DEF Decision, rule, Says

\* Rules with the same verdict that follow each other.
LEMMA SaysThen ==
  ASSUME NEW a, NEW b, NEW p, NEW x \in BOOLEAN, NEW y \in BOOLEAN, NEW v \in Verdicts,
         Says(a, p, x, v), Says(b, p, y, v)
  PROVE  Says(a \o b, p, x \/ y, v)
<1>1. v # "none"
  BY DEF Verdicts
<1> QED  BY <1>1, DecisionThen DEF Says

\* A rule for any family asks only for the source and the destination.
LEMMA AnyRule ==
  ASSUME NEW source \in Sources, NEW dst \in Destinations, NEW verdict \in Verdicts, NEW p
  PROVE  Says(<<Rule("any", source, dst, verdict)>>, p,
              To(dst, p) /\ About(source, p), verdict)
<1>1. Matches(Rule("any", source, dst, verdict), p) <=> To(dst, p) /\ About(source, p)
  BY Zenon DEF Matches, Rule, About, To
<1>2. "any" \in Families
  BY DEF Families
<1>3. Says(<<Rule("any", source, dst, verdict)>>, p,
           Matches(Rule("any", source, dst, verdict), p), verdict)
  BY <1>2, OneRule
<1> QED  BY <1>1, <1>3 DEF Says

\* A rule for both families decides what is known: IPv4, and IPv6 if enabled.
LEMMA BothRules ==
  ASSUME NEW c \in Config, NEW source \in Sources, NEW dst \in Destinations,
         NEW verdict \in Verdicts, NEW p \in Packet
  PROVE  Says(Both(c, source, dst, verdict), p,
              Known(c, p) /\ To(dst, p) /\ About(source, p), verdict)
<1> DEFINE r4 == Rule("ip", source, dst, verdict)
           r6 == Rule("ip6", source, dst, verdict)
           about == To(dst, p) /\ About(source, p)
           rest == IF c.enableIPv6 THEN <<r6>> ELSE <<>>
<1>1. c.enableIPv6 \in BOOLEAN /\ p.ipv6 \in BOOLEAN
  BY DEF Config, Packet
<1>2. (Matches(r4, p) <=> ~p.ipv6 /\ about) /\ (Matches(r6, p) <=> p.ipv6 /\ about)
  BY <1>1, Zenon DEF Matches, Rule, About, To
<1>3. "ip" \in Families /\ "ip6" \in Families
  BY DEF Families
<1>4. Says(<<r4>>, p, Matches(r4, p), verdict) /\ Says(<<r6>>, p, Matches(r6, p), verdict)
  BY <1>3, OneRule
<1> HIDE DEF about, r4, r6
<1>5. Says(<<r4>>, p, ~p.ipv6 /\ about, verdict) /\ Says(<<r6>>, p, p.ipv6 /\ about, verdict)
  BY <1>2, <1>4 DEF Says
<1>6. Says(rest, p, c.enableIPv6 /\ p.ipv6 /\ about, verdict)
  BY <1>1, <1>5, NoRules DEF Says
<1>7. Both(c, source, dst, verdict) = <<r4>> \o rest
  BY DEF Both, r4, r6
<1> HIDE DEF rest
<1>8. Says(<<r4>> \o rest, p, (~p.ipv6 /\ about) \/ (c.enableIPv6 /\ p.ipv6 /\ about), verdict)
  BY <1>5, <1>6, SaysThen, Zenon
<1>9. ((~p.ipv6 /\ about) \/ (c.enableIPv6 /\ p.ipv6 /\ about)) <=>
        Known(c, p) /\ To(dst, p) /\ About(source, p)
  BY <1>1 DEF Known, about
<1> QED  BY <1>7, <1>8, <1>9 DEF Says

\* The parts of the chain of InitStructure, of which each has one verdict.
LEMMA ChainParts ==
  ASSUME NEW c \in Config, NEW p \in Packet
  PROVE  /\ Says(<<Rule("any", "lo", "any", "accept"),
                   Rule("any", "established", "any", "accept")>>, p, p.via # "new", "accept")
         /\ Says(Both(c, "denied", "any", "drop"), p, Known(c, p) /\ p.denied, "drop")
         /\ Says(When(~c.publicDNS, Both(c, "outside", "dns-udp", "drop") \o
                                    Both(c, "outside", "dns-tcp", "drop") \o
                                    When(c.doh, Both(c, "outside", "doh", "drop"))),
                 p, ~c.publicDNS /\ Known(c, p) /\ p.src # "private" /\
                    (p.dst \in {"dns-udp", "dns-tcp"} \/ (c.doh /\ p.dst = "doh")), "drop")
         /\ Says(Both(c, "peer", "sync", "accept"), p,
                 Known(c, p) /\ p.dst = "sync" /\ p.src = "peer", "accept")
         /\ Says(Both(c, "outside", "sync", "drop"), p,
                 Known(c, p) /\ p.dst = "sync" /\ p.src # "private", "drop")
         /\ Says(Both(c, "within rate", "dns-udp", "accept"), p,
                 Known(c, p) /\ p.dst = "dns-udp" /\ ~p.over, "accept")
         /\ Says(Both(c, "within rate", "dns-tcp", "accept"), p,
                 Known(c, p) /\ p.dst = "dns-tcp" /\ ~p.over, "accept")
         /\ Says(When(c.doh, Both(c, "within rate", "doh", "accept")), p,
                 c.doh /\ Known(c, p) /\ p.dst = "doh" /\ ~p.over, "accept")
         /\ Says(<<Rule("any", "any", "dns-udp", "drop"), Rule("any", "any", "dns-tcp", "drop")>>,
                 p, p.dst \in {"dns-udp", "dns-tcp"}, "drop")
         /\ Says(When(c.doh /\ ~c.publicDNS, <<Rule("any", "any", "doh", "drop")>>), p,
                 c.doh /\ ~c.publicDNS /\ p.dst = "doh", "drop")
<1>1. /\ "accept" \in Verdicts /\ "drop" \in Verdicts
      /\ "any" \in Sources /\ "lo" \in Sources /\ "established" \in Sources
      /\ "denied" \in Sources /\ "outside" \in Sources /\ "peer" \in Sources
      /\ "within rate" \in Sources
      /\ "any" \in Destinations /\ "dns-udp" \in Destinations /\ "dns-tcp" \in Destinations
      /\ "doh" \in Destinations /\ "sync" \in Destinations
  BY DEF Verdicts, Sources, Destinations, Services
<1>2. /\ c.publicDNS \in BOOLEAN /\ c.doh \in BOOLEAN /\ c.enableIPv6 \in BOOLEAN
      /\ p.via \in {"lo", "established", "new"} /\ p.denied \in BOOLEAN
      /\ p.over \in BOOLEAN /\ p.ipv6 \in BOOLEAN /\ p.dst \in Services
  BY DEF Config, Packet
<1>3. /\ To("any", p)
      /\ (To("dns-udp", p) <=> p.dst = "dns-udp") /\ (To("dns-tcp", p) <=> p.dst = "dns-tcp")
      /\ (To("doh", p) <=> p.dst = "doh") /\ (To("sync", p) <=> p.dst = "sync")
  BY DEF To
<1>4. /\ About("any", p)
      /\ (About("lo", p) <=> p.via = "lo") /\ (About("established", p) <=> p.via = "established")
      /\ (About("denied", p) <=> p.denied) /\ (About("outside", p) <=> p.src # "private")
      /\ (About("peer", p) <=> p.src = "peer") /\ (About("within rate", p) <=> ~p.over)
  BY <1>2 DEF About
<1>5. Says(Both(c, "denied", "any", "drop"), p, Known(c, p) /\ p.denied, "drop")
  <2>1. Says(Both(c, "denied", "any", "drop"), p,
             Known(c, p) /\ To("any", p) /\ About("denied", p), "drop")
    BY <1>1, BothRules, Zenon
  <2> QED  BY <1>3, <1>4, <2>1, Zenon DEF Says
<1>6. ASSUME NEW dst \in {"dns-udp", "dns-tcp", "doh", "sync"}
      PROVE  /\ Says(Both(c, "outside", dst, "drop"), p,
                     Known(c, p) /\ p.dst = dst /\ p.src # "private", "drop")
             /\ Says(Both(c, "within rate", dst, "accept"), p,
                     Known(c, p) /\ p.dst = dst /\ ~p.over, "accept")
             /\ Says(Both(c, "peer", dst, "accept"), p,
                     Known(c, p) /\ p.dst = dst /\ p.src = "peer", "accept")
             /\ Says(<<Rule("any", "any", dst, "drop")>>, p, p.dst = dst, "drop")
  <2>1. dst \in Destinations /\ (To(dst, p) <=> p.dst = dst)
    BY <1>1, <1>3, Zenon
  <2>2. Says(Both(c, "outside", dst, "drop"), p,
             Known(c, p) /\ To(dst, p) /\ About("outside", p), "drop")
    BY <1>1, <2>1, BothRules, Zenon
  <2>3. Says(Both(c, "within rate", dst, "accept"), p,
             Known(c, p) /\ To(dst, p) /\ About("within rate", p), "accept")
    BY <1>1, <2>1, BothRules, Zenon
  <2>4. Says(Both(c, "peer", dst, "accept"), p,
             Known(c, p) /\ To(dst, p) /\ About("peer", p), "accept")
    BY <1>1, <2>1, BothRules, Zenon
  <2>5. Says(<<Rule("any", "any", dst, "drop")>>, p, To(dst, p) /\ About("any", p), "drop")
    BY <1>1, <2>1, AnyRule, Zenon
  <2> QED  BY <1>4, <2>1, <2>2, <2>3, <2>4, <2>5, Zenon DEF Says
<1>7. ASSUME NEW a, NEW b, <<a>> \in Seq(RuleSet), <<b>> \in Seq(RuleSet)
      PROVE  <<a, b>> = <<a>> \o <<b>>
  <2>1. a \in RuleSet /\ b \in RuleSet
    BY <1>7
  <2>2. /\ <<a, b>> \in Seq(RuleSet) /\ Len(<<a, b>>) = 2
        /\ <<a, b>>[1] = a /\ <<a, b>>[2] = b
    BY <2>1
  <2>3. /\ <<a>> \o <<b>> \in Seq(RuleSet) /\ Len(<<a>> \o <<b>>) = 2
        /\ (<<a>> \o <<b>>)[1] = a /\ (<<a>> \o <<b>>)[2] = b
    BY <1>7, ConcatProperties
  <2>4. \A i \in 1 .. 2 : i = 1 \/ i = 2
    OBVIOUS
  <2> QED  BY <2>2, <2>3, <2>4, SeqEqual, Zenon
<1>8. Says(<<Rule("any", "lo", "any", "accept"),
             Rule("any", "established", "any", "accept")>>, p, p.via # "new", "accept")
  <2> DEFINE a == Rule("any", "lo", "any", "accept")
             b == Rule("any", "established", "any", "accept")
  <2>1. Says(<<a>>, p, To("any", p) /\ About("lo", p), "accept")
    BY <1>1, AnyRule, Zenon
  <2>2. Says(<<b>>, p, To("any", p) /\ About("established", p), "accept")
    BY <1>1, AnyRule, Zenon
  <2> HIDE DEF a, b
  <2>3. Says(<<a>>, p, p.via = "lo", "accept") /\ Says(<<b>>, p, p.via = "established", "accept")
    BY <1>3, <1>4, <2>1, <2>2, Zenon DEF Says
  <2>4. Says(<<a>> \o <<b>>, p, p.via = "lo" \/ p.via = "established", "accept")
    BY <1>1, <2>3, SaysThen, Zenon
  <2>5. Says(<<a, b>>, p, p.via # "new", "accept")
    BY <1>2, <1>7, <2>3, <2>4, Zenon DEF Says
  <2> QED  BY <2>5 DEF a, b
<1>9. Says(<<Rule("any", "any", "dns-udp", "drop"), Rule("any", "any", "dns-tcp", "drop")>>,
           p, p.dst \in {"dns-udp", "dns-tcp"}, "drop")
  <2> DEFINE a == Rule("any", "any", "dns-udp", "drop")
             b == Rule("any", "any", "dns-tcp", "drop")
  <2>1. Says(<<a>>, p, p.dst = "dns-udp", "drop") /\ Says(<<b>>, p, p.dst = "dns-tcp", "drop")
    BY <1>6, Zenon
  <2> HIDE DEF a, b
  <2>2. Says(<<a>> \o <<b>>, p, p.dst = "dns-udp" \/ p.dst = "dns-tcp", "drop")
    BY <1>1, <2>1, SaysThen, Zenon
  <2>3. Says(<<a, b>>, p, p.dst \in {"dns-udp", "dns-tcp"}, "drop")
    BY <1>7, <2>1, <2>2, Zenon DEF Says
  <2> QED  BY <2>3 DEF a, b
<1>10. Says(When(~c.publicDNS, Both(c, "outside", "dns-udp", "drop") \o
                               Both(c, "outside", "dns-tcp", "drop") \o
                               When(c.doh, Both(c, "outside", "doh", "drop"))),
            p, ~c.publicDNS /\ Known(c, p) /\ p.src # "private" /\
               (p.dst \in {"dns-udp", "dns-tcp"} \/ (c.doh /\ p.dst = "doh")), "drop")
  <2> DEFINE S(dst) == Known(c, p) /\ p.dst = dst /\ p.src # "private"
             a == Both(c, "outside", "dns-udp", "drop")
             b == Both(c, "outside", "dns-tcp", "drop")
             d == Both(c, "outside", "doh", "drop")
  <2>1. Says(a, p, S("dns-udp"), "drop") /\ Says(b, p, S("dns-tcp"), "drop")
        /\ Says(d, p, S("doh"), "drop")
    BY <1>6, Zenon
  <2>2. \A dst : S(dst) \in BOOLEAN
    OBVIOUS
  <2> HIDE DEF a, b, d, S
  <2>3. Says(When(c.doh, d), p, c.doh /\ S("doh"), "drop")
    BY <1>2, <2>1, <2>2, NoRules DEF When, Says
  <2>4. Says(a \o b, p, S("dns-udp") \/ S("dns-tcp"), "drop")
    BY <2>1, <2>2, DecisionThen DEF Says
  <2>5. Says((a \o b) \o When(c.doh, d), p,
             (S("dns-udp") \/ S("dns-tcp")) \/ (c.doh /\ S("doh")), "drop")
    BY <1>1, <1>2, <2>2, <2>3, <2>4, SaysThen, Zenon
  <2>6. Says(When(~c.publicDNS, (a \o b) \o When(c.doh, d)), p,
             ~c.publicDNS /\ ((S("dns-udp") \/ S("dns-tcp")) \/ (c.doh /\ S("doh"))), "drop")
    BY <1>2, <2>2, <2>5, NoRules DEF When, Says
  <2> QED  BY <2>6 DEF Says, a, b, d, S
<1>11. Says(When(c.doh, Both(c, "within rate", "doh", "accept")), p,
            c.doh /\ Known(c, p) /\ p.dst = "doh" /\ ~p.over, "accept")
  <2>1. Says(Both(c, "within rate", "doh", "accept"), p,
             Known(c, p) /\ p.dst = "doh" /\ ~p.over, "accept")
    BY <1>6, Zenon
  <2>2. Says(When(c.doh, Both(c, "within rate", "doh", "accept")), p,
             c.doh /\ (Known(c, p) /\ p.dst = "doh" /\ ~p.over), "accept")
    BY <1>2, <2>1, NoRules, Zenon DEF When, Says
  <2> QED  BY <2>2, Zenon DEF Says
<1>12. Says(When(c.doh /\ ~c.publicDNS, <<Rule("any", "any", "doh", "drop")>>), p,
            c.doh /\ ~c.publicDNS /\ p.dst = "doh", "drop")
  <2>1. Says(<<Rule("any", "any", "doh", "drop")>>, p, p.dst = "doh", "drop")
    BY <1>6, Zenon
  <2>2. Says(When(c.doh /\ ~c.publicDNS, <<Rule("any", "any", "doh", "drop")>>), p,
             (c.doh /\ ~c.publicDNS) /\ p.dst = "doh", "drop")
    BY <1>2, <2>1, NoRules DEF When, Says
  <2> QED  BY <2>2 DEF Says
<1> QED  BY <1>5, <1>6, <1>8, <1>9, <1>10, <1>11, <1>12, Zenon

\* The policy of the chain is for the packets of which its rules say nothing.
LEMMA VerdictDecision ==
  ASSUME NEW a \in Seq(RuleSet), NEW p
  PROVE  Verdict(a, p) = IF Decision(a, p) = "none" THEN "accept" ELSE Decision(a, p)
<1>1. CASE Hit(a, p)
  BY <1>1, DecisionRange DEF Decision, Verdicts
<1>2. CASE ~Hit(a, p)
  BY <1>2 DEF Decision, Hit, Verdict
<1> QED  BY <1>1, <1>2

\* The rules that InitStructure gives an empty chain let in what the
\* configuration asks for, and nothing else.
LEMMA FreshChain ==
  ASSUME NEW c \in Config
  PROVE  InputChain(c) \in Seq(RuleSet) /\ Enforces(InputChain(c), c)
<1> DEFINE p1 == <<Rule("any", "lo", "any", "accept"),
                   Rule("any", "established", "any", "accept")>>
           p2 == Both(c, "denied", "any", "drop")
           p3 == When(~c.publicDNS, Both(c, "outside", "dns-udp", "drop") \o
                                    Both(c, "outside", "dns-tcp", "drop") \o
                                    When(c.doh, Both(c, "outside", "doh", "drop")))
           p4 == Both(c, "peer", "sync", "accept")
           p5 == Both(c, "outside", "sync", "drop")
           p6 == Both(c, "within rate", "dns-udp", "accept")
           p7 == Both(c, "within rate", "dns-tcp", "accept")
           p8 == When(c.doh, Both(c, "within rate", "doh", "accept"))
           p9 == <<Rule("any", "any", "dns-udp", "drop"), Rule("any", "any", "dns-tcp", "drop")>>
           p10 == When(c.doh /\ ~c.publicDNS, <<Rule("any", "any", "doh", "drop")>>)
<1>1. InputChain(c) = p1 \o p2 \o p3 \o p4 \o p5 \o p6 \o p7 \o p8 \o p9 \o p10
  BY DEF InputChain
<1>2. ASSUME NEW p \in Packet
      PROVE  /\ InputChain(c) \in Seq(RuleSet)
             /\ Verdict(InputChain(c), p) = IF Open(c, p) THEN "accept" ELSE "drop"
  <2> DEFINE known == Known(c, p)
             outside == p.src # "private"
             dns == p.dst \in {"dns-udp", "dns-tcp"}
             doh == c.doh /\ p.dst = "doh"
             sync == p.dst = "sync"
  <2>1. /\ Says(p1, p, p.via # "new", "accept")
        /\ Says(p2, p, known /\ p.denied, "drop")
        /\ Says(p3, p, ~c.publicDNS /\ known /\ outside /\ (dns \/ doh), "drop")
        /\ Says(p4, p, known /\ sync /\ p.src = "peer", "accept")
        /\ Says(p5, p, known /\ sync /\ outside, "drop")
        /\ Says(p6, p, known /\ p.dst = "dns-udp" /\ ~p.over, "accept")
        /\ Says(p7, p, known /\ p.dst = "dns-tcp" /\ ~p.over, "accept")
        /\ Says(p8, p, c.doh /\ known /\ p.dst = "doh" /\ ~p.over, "accept")
        /\ Says(p9, p, dns, "drop")
        /\ Says(p10, p, c.doh /\ ~c.publicDNS /\ p.dst = "doh", "drop")
    BY ChainParts, Zenon
  <2> HIDE DEF p1, p2, p3, p4, p5, p6, p7, p8, p9, p10
  <2> DEFINE q2 == p1 \o p2
             q3 == q2 \o p3
             q4 == q3 \o p4
             q5 == q4 \o p5
             q6 == q5 \o p6
             q7 == q6 \o p7
             q8 == q7 \o p8
             q9 == q8 \o p9
             q10 == q9 \o p10
  <2>2. InputChain(c) = q10
    BY <1>1
  <2> DEFINE Then(d, b, v) == IF d # "none" THEN d ELSE IF b THEN v ELSE "none"
  <2> HIDE DEF q3, q4, q5, q6, q7, q8, q9, q10, Then
  <2>3. q2 \in Seq(RuleSet) /\ Decision(q2, p) = IF p.via # "new" THEN "accept"
                                                ELSE IF known /\ p.denied THEN "drop" ELSE "none"
    BY <2>1, DecisionThen DEF Says
  <2> HIDE DEF q2
  <2>4. /\ q3 \in Seq(RuleSet)
        /\ Decision(q3, p) =
             Then(Decision(q2, p), ~c.publicDNS /\ known /\ outside /\ (dns \/ doh), "drop")
    BY <2>1, <2>3, DecisionThen DEF Says, q3, Then
  <2>5. /\ q4 \in Seq(RuleSet)
        /\ Decision(q4, p) = Then(Decision(q3, p), known /\ sync /\ p.src = "peer", "accept")
    BY <2>1, <2>4, DecisionThen DEF Says, q4, Then
  <2>6. /\ q5 \in Seq(RuleSet)
        /\ Decision(q5, p) = Then(Decision(q4, p), known /\ sync /\ outside, "drop")
    BY <2>1, <2>5, DecisionThen DEF Says, q5, Then
  <2>7. /\ q6 \in Seq(RuleSet)
        /\ Decision(q6, p) = Then(Decision(q5, p), known /\ p.dst = "dns-udp" /\ ~p.over, "accept")
    BY <2>1, <2>6, DecisionThen DEF Says, q6, Then
  <2>8. /\ q7 \in Seq(RuleSet)
        /\ Decision(q7, p) = Then(Decision(q6, p), known /\ p.dst = "dns-tcp" /\ ~p.over, "accept")
    BY <2>1, <2>7, DecisionThen DEF Says, q7, Then
  <2>9. /\ q8 \in Seq(RuleSet)
        /\ Decision(q8, p) =
             Then(Decision(q7, p), c.doh /\ known /\ p.dst = "doh" /\ ~p.over, "accept")
    BY <2>1, <2>8, DecisionThen DEF Says, q8, Then
  <2>10. q9 \in Seq(RuleSet) /\ Decision(q9, p) = Then(Decision(q8, p), dns, "drop")
    BY <2>1, <2>9, DecisionThen DEF Says, q9, Then
  <2>11. /\ q10 \in Seq(RuleSet)
         /\ Decision(q10, p) =
              Then(Decision(q9, p), c.doh /\ ~c.publicDNS /\ p.dst = "doh", "drop")
    BY <2>1, <2>10, DecisionThen DEF Says, q10, Then
  <2>12. Verdict(q10, p) = IF Decision(q10, p) = "none" THEN "accept" ELSE Decision(q10, p)
    BY <2>11, VerdictDecision
  <2>13. /\ p.src \in {"private", "peer", "public"} /\ p.dst \in Services
         /\ p.denied \in BOOLEAN /\ p.over \in BOOLEAN /\ p.ipv6 \in BOOLEAN
         /\ c.publicDNS \in BOOLEAN /\ c.doh \in BOOLEAN /\ c.enableIPv6 \in BOOLEAN
    BY DEF Packet, Config
  <2>14. Verdict(q10, p) = IF Open(c, p) THEN "accept" ELSE "drop"
    BY <2>3, <2>4, <2>5, <2>6, <2>7, <2>8, <2>9, <2>10, <2>11, <2>12, <2>13, ZenonT(30)
       DEF Then, Open, Known, Services
  <2> QED  BY <2>2, <2>11, <2>14
<1>3. Packet # {}
  <2>1. [via |-> "lo", ipv6 |-> TRUE, denied |-> TRUE, src |-> "peer", dst |-> "doh",
         over |-> TRUE] \in Packet
    BY DEF Packet, Services
  <2> QED  BY <2>1
<1> QED  BY <1>2, <1>3 DEF Enforces

-----------------------------------------------------------------------------
(* The kernel's chain *)

\* Whatever engines wrote the chain, it enforces the configuration: a new
\* engine's rules are reached only by the packets that the old ones let in for
\* want of a rule, and its rules let in the same ones.
ChainInv ==
  /\ config \in Config /\ chain \in Seq(RuleSet)
  /\ chain = <<>> \/ Enforces(chain, config)
  /\ engine = "start" => Enforces(chain, config)

\* InitStructure leaves a chain that enforces the configuration.
LEMMA AppendedChain ==
  ASSUME NEW c \in Config, NEW a \in Seq(RuleSet), a = <<>> \/ Enforces(a, c)
  PROVE  a \o InputChain(c) \in Seq(RuleSet) /\ Enforces(a \o InputChain(c), c)
<1>1. InputChain(c) \in Seq(RuleSet) /\ Enforces(InputChain(c), c)
  BY FreshChain
<1>2. CASE a = <<>>
  BY <1>1, <1>2
<1>3. CASE Enforces(a, c)
  <2> SUFFICES ASSUME NEW p \in Packet
               PROVE  Verdict(a \o InputChain(c), p) = Verdict(a, p)
    BY <1>1, <1>3 DEF Enforces
  <2> DEFINE b == InputChain(c)
  <2>1. /\ b \in Seq(RuleSet) /\ a \o b \in Seq(RuleSet)
        /\ Verdict(b, p) = Verdict(a, p)
    BY <1>1, <1>3 DEF Enforces
  <2> HIDE DEF b
  <2>2. Decision(a \o b, p) = IF Hit(a, p) THEN Decision(a, p) ELSE Decision(b, p)
    BY <2>1, DecisionConcat
  <2>3. /\ Verdict(a, p) = IF Decision(a, p) = "none" THEN "accept" ELSE Decision(a, p)
        /\ Verdict(b, p) = IF Decision(b, p) = "none" THEN "accept" ELSE Decision(b, p)
        /\ Verdict(a \o b, p) =
             IF Decision(a \o b, p) = "none" THEN "accept" ELSE Decision(a \o b, p)
    BY <2>1, VerdictDecision, Zenon
  <2>4. Verdict(a \o b, p) = Verdict(a, p)
    BY <2>1, <2>2, <2>3 DEF Decision
  <2> QED  BY <2>4 DEF b
<1> QED  BY <1>2, <1>3

\* Every step of the processes keeps the chain right.
LEMMA NextChain ==
  ASSUME ChainInv, [Next]_vars
  PROVE  ChainInv'
<1>1. CASE InitStructure
  <2>1. chain' = chain \o InputChain(config) /\ config' = config
    BY <1>1 DEF InitStructure
  <2>2. chain \o InputChain(config) \in Seq(RuleSet) /\ Enforces(chain \o InputChain(config), config)
    BY AppendedChain DEF ChainInv
  <2>3. chain' \in Seq(RuleSet) /\ Enforces(chain', config')
    BY <2>1, <2>2
  <2> QED  BY <2>1, <2>3 DEF ChainInv
<1>2. CASE StopContainer
  <2>1. config' \in Config /\ chain' = <<>> /\ engine' = "wait"
    BY <1>2, ListUpdatesAssumption DEF StopContainer
  <2>2. <<>> \in Seq(RuleSet)
    OBVIOUS
  <2> QED  BY <2>1, <2>2 DEF ChainInv
<1>3. CASE UNCHANGED kernel /\ (engine' = engine \/ engine' # "start")
  BY <1>3 DEF ChainInv, kernel
<1>4. CASE Publish \/ UpdaterStep \/ CrashUpdater \/ CrashEngine \/ UNCHANGED vars
  <2>1. UNCHANGED kernel /\ (engine' = engine \/ engine' # "start")
    BY <1>4 DEF Publish, UpdaterStep, Fetch, Extract, ExtractFails, SaveEtag, CrashUpdater,
                CrashEngine, vars, engineVars
  <2> QED  BY <1>3, <2>1
<1>5. CASE \/ Ready \/ LoadDenySets \/ NewSyncManager \/ StartFileWatcher
           \/ Detect \/ Reload \/ RefreshResultHash
  <2>1. UNCHANGED kernel /\ (engine' = engine \/ engine' # "start")
    BY <1>5 DEF Ready, LoadDenySets, NewSyncManager, StartFileWatcher, Detect, Reload,
                RefreshResultHash
  <2> QED  BY <1>3, <2>1
<1> QED  BY <1>1, <1>2, <1>4, <1>5 DEF Next, EngineStep

\* Once an engine has set up the kernel, the chain lets in what the
\* configuration asks for, after any number of restarts (InitStructure, which
\* appends to a chain that exists).
THEOREM InputPolicyCorrect == Spec => []InputPolicy
<1>1. Init => ChainInv
  <2>1. <<>> \in Seq(RuleSet)
    OBVIOUS
  <2> QED  BY <2>1, ListUpdatesAssumption DEF Init, ChainInv
<1>2. ChainInv /\ [Next]_vars => ChainInv'
  BY NextChain
<1>3. ChainInv => InputPolicy
  BY DEF ChainInv, InputPolicy
<1> QED  BY <1>1, <1>2, <1>3, PTL DEF Spec

-----------------------------------------------------------------------------
(* The archive's files *)

\* The files that are left are the last ones of the archive, and the others are
\* in place with the version that is extracted.
ExtractInv ==
  /\ Len(left) \in 1 .. 3
  /\ \A j \in 1 .. 3 : j <= Len(left) => left[j] = order[(3 - Len(left)) + j]
  /\ \A j \in 1 .. 3 : j <= 3 - Len(left) => files[order[j]] = got

\* What the updater is about: what .etag names is never newer than what is
\* extracted, and at the end of an extraction the directory holds all of it.
UpdaterInv ==
  /\ order \in Orders
  /\ archive \in Nat \ {0} /\ etag \in 0 .. archive /\ got \in 0 .. archive
  /\ files \in [Files -> 0 .. archive] /\ left \in Seq(Files)
  /\ updater \in {"idle", "extract", "etag"}
  /\ updater # "extract" => left = <<>>
  /\ updater # "idle" => got # 0 /\ etag <= got
  /\ updater = "extract" => ExtractInv
  /\ updater = "etag" => \A f \in Files : files[f] = got
  /\ etag = archive => \A f \in Files : files[f] = archive

\* The types of the rest.
EngineInv ==
  /\ archive <= 1 + MaxPublish
  /\ engine \in {"wait", "init", "start", "sync", "settle", "watch", "reload", "refresh"}
  /\ engine # "wait" => files["hash"] # 0 /\ files["zone"] # 0
  /\ seen \in BOOLEAN /\ missed \in BOOLEAN
  /\ denySet \in 0 .. archive /\ resultHash \in 0 .. archive
  /\ crashes \in 0 .. MaxCrashes

\* The archive has three files, and each of them once.
LEMMA OrderFacts ==
  ASSUME NEW o \in Orders
  PROVE  /\ o \in Seq(Files) /\ Len(o) = 3 /\ o # <<>>
         /\ \A j \in 1 .. 3 : o[j] \in Files
         /\ \A f \in Files : \E j \in 1 .. 3 : o[j] = f
<1>1. o \in [1 .. 3 -> Files] /\ {o[i] : i \in 1 .. 3} = Files
  BY ListUpdatesAssumption
<1>2. o \in Seq(Files) /\ Len(o) = 3
  <2>1. o \in Seq(Files)
    BY <1>1, SeqDef
  <2>2. Len(o) \in Nat /\ 1 .. Len(o) = 1 .. 3
    BY <1>1, <2>1, LenProperties, Zenon
  <2>3. \A n \in Nat : 1 .. n = 1 .. 3 => n = 3
    <3> SUFFICES ASSUME NEW n \in Nat, 1 .. n = 1 .. 3 PROVE n = 3
      OBVIOUS
    <3>1. 3 \in 1 .. n
      OBVIOUS
    <3>2. n \in 1 .. n
      BY <3>1
    <3>3. n \in 1 .. 3
      BY <3>2
    <3> QED  BY <3>1, <3>3
  <2> QED  BY <2>1, <2>2, <2>3, Zenon
<1>3. o # <<>>
  BY <1>2, EmptySeq
<1> QED  BY <1>1, <1>2, <1>3

\* An extraction step puts the next file in place.
LEMMA ExtractUpdater ==
  ASSUME UpdaterInv, Extract
  PROVE  UpdaterInv' /\ got # 0 /\ files' \in [Files -> 0 .. archive]
         /\ \A f \in Files : files'[f] = files[f] \/ files'[f] = got
<1> DEFINE n == Len(left)
           k == (3 - n) + 1
<1>1. /\ order \in Orders /\ left \in Seq(Files) /\ ExtractInv /\ updater = "extract"
      /\ got # 0 /\ etag <= got /\ got \in 0 .. archive /\ files \in [Files -> 0 .. archive]
      /\ archive \in Nat \ {0} /\ etag \in 0 .. archive
  BY DEF UpdaterInv, Extract
<1>2. n \in 1 .. 3 /\ k \in 1 .. 3 /\ left # <<>> /\ left[1] = order[k]
  <2>1. n \in 1 .. 3 /\ \A j \in 1 .. 3 : j <= n => left[j] = order[(3 - n) + j]
    BY <1>1 DEF ExtractInv
  <2>2. left # <<>>
    BY <2>1, EmptySeq
  <2>3. \A m \in 1 .. 3 : 1 \in 1 .. 3 /\ 1 <= m /\ (3 - m) + 1 \in 1 .. 3
    OBVIOUS
  <2> QED  BY <2>1, <2>2, <2>3, Zenon
<1>3. /\ Head(left) = left[1] /\ Tail(left) \in Seq(Files) /\ Len(Tail(left)) = n - 1
      /\ \A j \in 1 .. n - 1 : Tail(left)[j] = left[j + 1]
  BY <1>1, <1>2, HeadTailProperties
<1>4. /\ files' = [files EXCEPT ![order[k]] = got] /\ left' = Tail(left)
      /\ updater' = (IF left' = <<>> THEN "etag" ELSE updater)
      /\ UNCHANGED <<order, archive, etag, got>>
  BY <1>2, <1>3, Zenon DEF Extract, server
<1>5. order[k] \in Files
  BY <1>1, <1>2, OrderFacts
<1>6. /\ files' \in [Files -> 0 .. archive]
      /\ files'[order[k]] = got
      /\ \A f \in Files : f # order[k] => files'[f] = files[f]
  BY <1>1, <1>4, <1>5
<1>7. \A j \in 1 .. 3 : j <= k => files'[order[j]] = got
  <2> SUFFICES ASSUME NEW j \in 1 .. 3, j <= k PROVE files'[order[j]] = got
    OBVIOUS
  <2>1. order[j] \in Files
    BY <1>1, OrderFacts
  <2>2. CASE order[j] = order[k]
    BY <1>6, <2>2
  <2>3. CASE order[j] # order[k]
    <3>1. j <= 3 - n
      BY <1>2, <2>3
    <3>2. files[order[j]] = got
      BY <1>1, <3>1 DEF ExtractInv
    <3> QED  BY <1>6, <2>1, <2>3, <3>2
  <2> QED  BY <2>2, <2>3
<1>8. etag = archive => got = archive /\ \A f \in Files : files'[f] = archive
  <2> SUFFICES ASSUME etag = archive PROVE got = archive /\ \A f \in Files : files'[f] = archive
    OBVIOUS
  <2>1. got = archive
    BY <1>1
  <2>2. \A f \in Files : files[f] = archive
    BY DEF UpdaterInv
  <2> QED  BY <1>6, <2>1, <2>2
<1>9. CASE left' = <<>>
  <2>1. n = 1
    BY <1>1, <1>2, <1>3, <1>4, <1>9, EmptySeq
  <2>2. \A j \in 1 .. 3 : files'[order[j]] = got
    BY <1>7, <2>1
  <2>3. \A f \in Files : files'[f] = got
    BY <1>1, <2>2, OrderFacts
  <2>4. updater' = "etag"
    BY <1>4, <1>9
  <2> QED  BY <1>1, <1>3, <1>4, <1>6, <1>8, <1>9, <2>3, <2>4 DEF UpdaterInv
<1>10. CASE left' # <<>>
  <2>1. Len(left') = n - 1 /\ n - 1 \in 1 .. 3 /\ updater' = "extract"
    <3>1. Tail(left) # <<>> => Len(Tail(left)) # 0
      BY <1>3, EmptySeq
    <3>2. Len(left') = n - 1 /\ n - 1 # 0
      BY <1>3, <1>4, <1>10, <3>1
    <3>3. n - 1 \in 1 .. 3
      BY <1>2, <3>2
    <3> QED  BY <1>1, <1>4, <1>10, <3>2, <3>3
  <2>2. \A j \in 1 .. 3 : j <= n - 1 => left'[j] = order[(3 - (n - 1)) + j]
    <3> SUFFICES ASSUME NEW j \in 1 .. 3, j <= n - 1
                 PROVE  left'[j] = order[(3 - (n - 1)) + j]
      OBVIOUS
    <3>1. left'[j] = left[j + 1] /\ j + 1 \in 1 .. 3 /\ j + 1 <= n
      BY <1>2, <1>3, <1>4
    <3>2. left[j + 1] = order[(3 - n) + (j + 1)]
      BY <1>1, <3>1 DEF ExtractInv
    <3>3. (3 - n) + (j + 1) = (3 - (n - 1)) + j
      BY <1>2
    <3> QED  BY <3>1, <3>2, <3>3
  <2>3. \A j \in 1 .. 3 : j <= 3 - (n - 1) => files'[order[j]] = got
    BY <1>2, <1>7
  <2>4. ExtractInv'
    BY <1>4, <2>1, <2>2, <2>3 DEF ExtractInv
  <2> QED  BY <1>1, <1>3, <1>4, <1>6, <1>8, <1>10, <2>1, <2>4, Zenon DEF UpdaterInv
<1> QED  BY <1>1, <1>6, <1>9, <1>10

\* Every step of the processes keeps what is known of the updater.
LEMMA NextUpdater ==
  ASSUME UpdaterInv, [Next]_vars
  PROVE  UpdaterInv'
<1>1. CASE UNCHANGED <<order, archive, etag, files, updater, got, left>>
  BY <1>1 DEF UpdaterInv, ExtractInv
<1>2. CASE Publish
  <2>1. /\ archive' = archive + 1 /\ UNCHANGED <<order, etag, files, updater, got, left>>
    BY <1>2 DEF Publish, updaterVars
  <2>2. /\ archive \in Nat \ {0} /\ etag \in 0 .. archive /\ got \in 0 .. archive
        /\ files \in [Files -> 0 .. archive]
    BY DEF UpdaterInv
  <2>3. /\ archive' \in Nat \ {0} /\ etag \in 0 .. archive' /\ got \in 0 .. archive'
        /\ files \in [Files -> 0 .. archive'] /\ etag # archive'
    BY <2>1, <2>2
  <2>4. ExtractInv => ExtractInv'
    BY <2>1 DEF ExtractInv
  <2> QED  BY <2>1, <2>3, <2>4 DEF UpdaterInv
<1>3. CASE Fetch
  <2>1. /\ updater' = "extract" /\ got' = archive /\ left' = order
        /\ UNCHANGED <<order, archive, etag, files>>
    BY <1>3 DEF Fetch, server
  <2>2. order \in Orders /\ order \in Seq(Files) /\ Len(order) = 3
    BY OrderFacts DEF UpdaterInv
  <2>3. ExtractInv'
    <3>1. Len(left') = 3 /\ \A j \in 1 .. 3 : left'[j] = order'[(3 - 3) + j]
      BY <2>1, <2>2
    <3>2. \A j \in 1 .. 3 : ~(j <= 3 - 3)
      OBVIOUS
    <3> QED  BY <3>1, <3>2 DEF ExtractInv
  <2>4. got' \in 0 .. archive' /\ got' # 0 /\ etag <= got'
    BY <2>1 DEF UpdaterInv
  <2> QED  BY <2>1, <2>2, <2>3, <2>4 DEF UpdaterInv
<1>4. CASE Extract
  BY <1>4, ExtractUpdater
<1>5. CASE updater' = "idle" /\ got' = 0 /\ left' = <<>> /\ UNCHANGED <<order, archive, etag, files>>
  <2>1. <<>> \in Seq(Files)
    OBVIOUS
  <2> QED  BY <1>5, <2>1 DEF UpdaterInv
<1>6. CASE ExtractFails \/ CrashUpdater \/ StopContainer
  BY <1>5, <1>6 DEF ExtractFails, CrashUpdater, StopContainer, server
<1>7. CASE SaveEtag
  <2>1. /\ updater = "etag" /\ etag' = got /\ updater' = "idle" /\ got' = 0
        /\ UNCHANGED <<order, archive, files, left>>
    BY <1>7 DEF SaveEtag, server
  <2>2. \A f \in Files : files[f] = got
    BY <2>1 DEF UpdaterInv
  <2> QED  BY <2>1, <2>2 DEF UpdaterInv
<1>8. CASE EngineStep \/ CrashEngine \/ UNCHANGED vars
  BY <1>1, <1>8 DEF EngineStep, Ready, InitStructure, LoadDenySets, NewSyncManager,
     StartFileWatcher, Detect, Reload, RefreshResultHash, CrashEngine, vars, server, updaterVars
<1> QED  BY <1>2, <1>3, <1>4, <1>6, <1>7, <1>8 DEF Next, UpdaterStep

\* Every step of the processes keeps the types.
LEMMA NextEngine ==
  ASSUME UpdaterInv, EngineInv, [Next]_vars
  PROVE  EngineInv'
<1>1. /\ archive \in Nat /\ files \in [Files -> 0 .. archive]
      /\ files["deny"] \in 0 .. archive /\ files["hash"] \in 0 .. archive
  BY DEF UpdaterInv, Files
<1>2. MaxPublish \in Nat /\ MaxCrashes \in Nat
  BY ListUpdatesAssumption
<1>3. CASE Publish
  BY <1>1, <1>2, <1>3 DEF EngineInv, Publish, updaterVars, engineVars
<1>4. CASE Extract
  <2>1. got # 0 /\ \A f \in Files : files'[f] = files[f] \/ files'[f] = got
    BY <1>4, ExtractUpdater
  <2>2. engine # "wait" => files'["hash"] # 0 /\ files'["zone"] # 0
    BY <2>1 DEF EngineInv, Files
  <2>3. /\ UNCHANGED <<archive, engine, denySet, resultHash, crashes>>
        /\ seen' \in BOOLEAN /\ missed' \in BOOLEAN
    BY <1>4 DEF Extract, server, engineVars
  <2> QED  BY <2>2, <2>3 DEF EngineInv
<1>5. CASE Fetch \/ ExtractFails \/ SaveEtag \/ UNCHANGED vars
  BY <1>5 DEF EngineInv, Fetch, ExtractFails, SaveEtag, vars, server, updaterVars, engineVars
<1>6. CASE CrashUpdater
  BY <1>2, <1>6 DEF EngineInv, CrashUpdater, server, engineVars
<1>7. CASE Ready \/ InitStructure \/ NewSyncManager \/ StartFileWatcher \/ Detect \/ RefreshResultHash
  BY <1>1, <1>7, Zenon DEF EngineInv, Ready, InitStructure, NewSyncManager, StartFileWatcher, Detect,
                    RefreshResultHash, server, updaterVars
<1>8. CASE LoadDenySets \/ Reload
  BY <1>1, <1>8, Zenon DEF EngineInv, LoadDenySets, Reload, ReloadDenySets, server, updaterVars
<1>9. CASE CrashEngine \/ StopContainer
  BY <1>1, <1>2, <1>9 DEF EngineInv, CrashEngine, StopContainer, server, updaterVars
<1> QED  BY <1>3, <1>4, <1>5, <1>6, <1>7, <1>8, <1>9 DEF Next, UpdaterStep, EngineStep

\* At the start the directory is empty and nothing is loaded.
LEMMA InitUpdates ==
  ASSUME Init
  PROVE  UpdaterInv /\ EngineInv
<1>1. <<>> \in Seq(Files)
  OBVIOUS
<1>2. UpdaterInv
  BY <1>1 DEF Init, UpdaterInv
<1>3. 1 <= 1 + MaxPublish /\ 0 \in 0 .. MaxCrashes /\ 0 \in 0 .. 1
  BY ListUpdatesAssumption
<1>4. EngineInv
  BY <1>3, Zenon DEF Init, EngineInv
<1> QED  BY <1>2, <1>4

\* When the server would answer 304 Not Modified, the result directory holds
\* all of the archive, wherever the updater failed or was killed
\* (downloadRemoteFiles writes .etag last).
THEOREM EtagCorrect == Spec => []EtagIsHonest
<1>1. Init => UpdaterInv /\ EngineInv
  BY InitUpdates
<1>2. UpdaterInv /\ EngineInv /\ [Next]_vars => UpdaterInv' /\ EngineInv'
  BY NextUpdater, NextEngine
<1>3. UpdaterInv /\ EngineInv => EtagIsHonest
  <2> SUFFICES ASSUME UpdaterInv, EngineInv PROVE EtagIsHonest
    OBVIOUS
  <2>1. Len(order) = 3
    BY OrderFacts DEF UpdaterInv
  <2>2. Len(left) <= Len(order) /\ (left # <<>> => updater = "extract")
    <3>1. CASE updater = "extract"
      <4>1. Len(left) \in 1 .. 3
        BY <3>1 DEF UpdaterInv, ExtractInv
      <4>2. \A n \in 1 .. 3 : n <= 3
        OBVIOUS
      <4> QED  BY <2>1, <3>1, <4>1, <4>2, Zenon
    <3>2. CASE updater # "extract"
      BY <2>1, <3>2 DEF UpdaterInv
    <3> QED  BY <3>1, <3>2
  <2>3. archive \in Versions
    BY ListUpdatesAssumption DEF UpdaterInv, EngineInv, Versions
  <2>4. TypeOK
    BY <2>2, <2>3 DEF UpdaterInv, EngineInv, TypeOK
  <2> QED  BY <2>4 DEF UpdaterInv, EtagIsHonest
<1> QED  BY <1>1, <1>2, <1>3, PTL DEF Spec

=============================================================================

------------------------------ MODULE DNSProxy ------------------------------
(***************************************************************************)
(* One request of handleDNSRequest: the upstreams are asked in turn, the   *)
(* real addresses of the response are collected, the pool maps them, and   *)
(* the response is rewritten and sent.                                     *)
(*                                                                         *)
(* A record is [type, ttl, addr] for A and AAAA, [type, ttl, value] for    *)
(* SVCB and HTTPS (handled alike, "SVCB"), with `value' a sequence of      *)
(* [key, hint], and [type, ttl] for the others.  An address is             *)
(* [family, val]; the family "mapped" is that of ::ffff:a.b.c.d, for which *)
(* To4 is not nil, and val = 0 is the unspecified address.                 *)
(***************************************************************************)
EXTENDS Naturals, Sequences, SequencesExt, FiniteSets

CONSTANTS
  Upstreams,     \* number of upstream servers
  Responses,     \* the messages an upstream may send: three sections and flags
  MaxTTL,        \* p.maxTTL
  FakeOf         \* what the pool maps an address to

ASSUME DNSProxyAssumption ==
  /\ Upstreams \in Nat \ {0}
  /\ MaxTTL \in Nat

VARIABLES
  enableIPv6,    \* p.enableIPv6
  pc,
  upstream,      \* index of the upstream that is asked
  attempt,       \* 0 or 1
  asked,         \* number of failed exchanges per upstream
  resp,          \* the response of the upstream
  realV4, realV6,
  mapV4, mapV6,
  answer         \* what is sent to the client, if not a failure

vars == <<enableIPv6, pc, upstream, attempt, asked, resp, realV4, realV6, mapV4, mapV6,
          answer>>

NoMessage == [Answer |-> <<>>, Ns |-> <<>>, Extra |-> <<>>, AuthenticatedData |-> FALSE]
NoMap == [a \in {} |-> a]

Sections == {"Answer", "Ns", "Extra"}

-----------------------------------------------------------------------------
(* resolveUpstream *)

\* A request without a question, or for the health check's name, is answered
\* at once.
Healthcheck ==
  /\ pc = "start"
  /\ answer' = NoMessage
  /\ pc' = "answered"
  /\ UNCHANGED <<enableIPv6, upstream, attempt, asked, resp, realV4, realV6, mapV4,
                 mapV6>>

Accept ==
  /\ pc = "start"
  /\ pc' = "resolve"
  /\ UNCHANGED <<enableIPv6, upstream, attempt, asked, resp, realV4, realV6, mapV4,
                 mapV6, answer>>

\* An upstream answers over UDP, or over TCP after a truncated answer, which
\* is used as it is if TCP fails: either way with any message.
Exchanged(m) ==
  /\ pc = "resolve"
  /\ resp' = m
  /\ pc' = "collect"
  /\ UNCHANGED <<enableIPv6, upstream, attempt, asked, realV4, realV6, mapV4,
                 mapV6, answer>>

\* Mutant of ExchangeFails: the first error ends the request.
ExchangeFailsAtOnce ==
  /\ pc = "resolve"
  /\ asked' = [asked EXCEPT ![upstream] = @ + 1]
  /\ pc' = "failed"
  /\ UNCHANGED <<enableIPv6, upstream, attempt, resp, realV4, realV6, mapV4, mapV6,
                 answer>>

\* No answer: each upstream is asked twice, then the next one.
ExchangeFails ==
  /\ pc = "resolve"
  /\ asked' = [asked EXCEPT ![upstream] = @ + 1]
  /\ \/ /\ attempt = 0
        /\ attempt' = 1
        /\ UNCHANGED <<pc, upstream>>
     \/ /\ attempt = 1
        /\ upstream < Upstreams
        /\ upstream' = upstream + 1
        /\ attempt' = 0
        /\ UNCHANGED pc
     \/ /\ attempt = 1
        /\ upstream = Upstreams
        /\ pc' = "failed"
        /\ UNCHANGED <<upstream, attempt>>
  /\ UNCHANGED <<enableIPv6, resp, realV4, realV6, mapV4, mapV6, answer>>

-----------------------------------------------------------------------------
(* collectIPs *)

\* extractSVCBHints for one key.
HintsOf(rr, key) ==
  UNION {ToSet(kv.hint) : kv \in {v \in ToSet(rr.value) : v.key = key}}

Records(m) == UNION {ToSet(m[s]) : s \in Sections}

\* The addresses that records of one type and SVCB hints of one key hold.
AddressesIn(m, type, key) ==
  UNION {IF rr.type = type THEN {rr.addr}
         ELSE IF rr.type = "SVCB" THEN HintsOf(rr, key) ELSE {} : rr \in Records(m)}

\* addV4 and addV6 over all records: duplicates are dropped.
CollectedV4(m) == {a \in AddressesIn(m, "A", "ipv4hint") : a.family = "v4" /\ a.val # 0}

CollectedV6(m) ==
  {a \in AddressesIn(m, "AAAA", "ipv6hint") : enableIPv6 /\ a.family = "v6" /\ a.val # 0}

Collect ==
  /\ pc = "collect"
  /\ realV4' = CollectedV4(resp)
  /\ realV6' = CollectedV6(resp)
  /\ pc' = "map"
  /\ UNCHANGED <<enableIPv6, upstream, attempt, asked, resp, mapV4, mapV6, answer>>

\* GetFakeIPsForReals for each family (module Gateway has the steps).
Mapped ==
  /\ pc = "map"
  /\ mapV4' = [a \in realV4 |-> FakeOf[a]]
  /\ mapV6' = [a \in realV6 |-> FakeOf[a]]
  /\ pc' = "rewrite"
  /\ UNCHANGED <<enableIPv6, upstream, attempt, asked, resp, realV4, realV6, answer>>

PoolExhausted ==
  /\ pc = "map"
  /\ realV4 \cup realV6 # {}
  /\ pc' = "exhausted"
  /\ UNCHANGED <<enableIPv6, upstream, attempt, asked, resp, realV4, realV6, mapV4,
                 mapV6, answer>>

-----------------------------------------------------------------------------
(* filterRRs *)

Least(a, b) == IF a < b THEN a ELSE b

\* Looked up by their text, which is the same for an IPv4 address and its
\* mapped form.
Text(a) == IF a.family = "mapped" THEN [a EXCEPT !.family = "v4"] ELSE a

Known(map, hint) == SelectSeq(hint, LAMBDA a : Text(a) \in DOMAIN map)

\* Mutant of PatchHint: unknown addresses are kept.
PatchHintKeeps(map, kv) ==
  [kv EXCEPT !.hint = [i \in DOMAIN @ |->
     IF Text(@[i]) \in DOMAIN map THEN map[Text(@[i])] ELSE @[i]]]

\* The addresses of one hint that have a fake.
PatchHint(map, kv) ==
  [kv EXCEPT !.hint = [i \in DOMAIN Known(map, @) |-> map[Text(Known(map, @)[i])]]]

PatchedKV(kv) ==
  IF kv.key = "ipv4hint" THEN PatchHint(mapV4, kv)
  ELSE IF kv.key = "ipv6hint" THEN PatchHint(mapV6, kv) ELSE kv

\* patchSVCBValues.
PatchSVCBValues(value) ==
  LET kept == SelectSeq(value, LAMBDA kv : kv.key = "ipv6hint" => enableIPv6)
  IN  [i \in DOMAIN kept |-> PatchedKV(kept[i])]

\* Records that do not reach the client; "DNSSEC" is RRSIG, NSEC and NSEC3.
Dropped(rr) == rr.type = "DNSSEC" \/ (rr.type = "AAAA" /\ ~enableIPv6)

Rewritten(rr) ==
  LET map == IF rr.type = "A" THEN mapV4 ELSE mapV6
  IN  IF rr.type = "SVCB"
      THEN [rr EXCEPT !.value = PatchSVCBValues(@), !.ttl = Least(@, MaxTTL)]
      ELSE IF rr.type \in {"A", "AAAA"} /\ Text(rr.addr) \in DOMAIN map
      THEN [rr EXCEPT !.addr = map[Text(rr.addr)], !.ttl = Least(@, MaxTTL)]
      ELSE rr

FilterRRs(rrs) ==
  LET kept == SelectSeq(rrs, LAMBDA rr : ~Dropped(rr))
  IN  [i \in DOMAIN kept |-> Rewritten(kept[i])]

Respond ==
  /\ pc = "rewrite"
  /\ answer' = [resp EXCEPT !.Answer = FilterRRs(@), !.Ns = FilterRRs(@),
                            !.Extra = FilterRRs(@), !.AuthenticatedData = FALSE]
  /\ pc' = "answered"
  /\ UNCHANGED <<enableIPv6, upstream, attempt, asked, resp, realV4, realV6, mapV4,
                 mapV6>>

-----------------------------------------------------------------------------

Init ==
  /\ enableIPv6 \in BOOLEAN
  /\ pc = "start"
  /\ upstream = 1 /\ attempt = 0 /\ asked = [u \in 1 .. Upstreams |-> 0]
  /\ resp = NoMessage /\ answer = NoMessage
  /\ realV4 = {} /\ realV6 = {}
  /\ mapV4 = NoMap /\ mapV6 = NoMap

Next ==
  \/ Healthcheck \/ Accept
  \/ \E m \in Responses : Exchanged(m)
  \/ ExchangeFails
  \/ Collect \/ Mapped \/ PoolExhausted \/ Respond

Spec == Init /\ [][Next]_vars

-----------------------------------------------------------------------------
(* Properties *)

\* The request is at one of its stages, and each upstream is asked at most
\* twice.
TypeOK ==
  /\ enableIPv6 \in BOOLEAN
  /\ pc \in {"start", "resolve", "collect", "map", "rewrite", "answered",
             "failed", "exhausted"}
  /\ upstream \in 1 .. Upstreams /\ attempt \in {0, 1}
  /\ \A u \in 1 .. Upstreams : asked[u] \in 0 .. 2
  /\ DOMAIN mapV4 \subseteq realV4 /\ DOMAIN mapV6 \subseteq realV6

HintsIn(rr) == UNION {ToSet(kv.hint) : kv \in ToSet(rr.value)}

\* The addresses of a message that a client may connect to, with the type of
\* record that holds each: not the unspecified ones, and not mapped ones,
\* which the proxy leaves alone.
Usable(m) ==
  {<<rr.type, rr.addr>> : rr \in {x \in Records(m) : x.type \in {"A", "AAAA"} /\
                                     x.addr.val # 0 /\ x.addr.family # "mapped"}} \cup
  UNION {{<<"SVCB", a>> : a \in {b \in HintsIn(rr) : b.val # 0 /\ b.family # "mapped"}} :
           rr \in {x \in Records(m) : x.type = "SVCB"}}

Fakes == {FakeOf[r] : r \in DOMAIN FakeOf}

\* The client is led to the same servers, all through Fake-IPs that it forgets
\* in time: the addresses in the answer are the fakes of the addresses in the
\* response, in records of the same type, in all three sections (collectIPs
\* and filterRRs agree on what they visit); a hint holds nothing but fakes
\* (patchSVCBValues); every record with a fake has a TTL of at most MaxTTL, on
\* which module Gateway relies; and with IPv6 disabled no IPv6 address is
\* left, not even an unspecified or mapped one (TestProxy_IPv6Disabled).
AnswerLeadsToFakes ==
  /\ TypeOK
  /\ pc = "answered" =>
        /\ Usable(answer) = {<<p[1], FakeOf[p[2]]>> :
                               p \in {q \in Usable(resp) : q[2].family = "v6" => enableIPv6}}
        /\ \A rr \in Records(answer) :
              /\ rr.type = "SVCB" => HintsIn(rr) \subseteq Fakes /\ rr.ttl <= MaxTTL
              /\ rr.type \in {"A", "AAAA"} /\ rr.addr \in Fakes => rr.ttl <= MaxTTL
              /\ ~enableIPv6 =>
                    /\ rr.type # "AAAA"
                    /\ rr.type = "SVCB" => \A kv \in ToSet(rr.value) : kv.key # "ipv6hint"

\* A request fails for want of an upstream only after each was asked twice
\* (resolveUpstream).
FailsWhenAllFail ==
  pc = "failed" => \A u \in 1 .. Upstreams : asked[u] = 2

=============================================================================

---------------------------- MODULE DomainLists ----------------------------
(***************************************************************************)
(* The compiler's treatment of domain lists: include, exclude and remove   *)
(* lists are merged, collapsed and written as the response policy zones    *)
(* proxy.rpz and adblock.rpz, and the resolver decides by them.            *)
(*                                                                         *)
(* A domain is the sequence of its characters, numbered in the order of    *)
(* their codes, because CollapseDomains works on characters.               *)
(***************************************************************************)
EXTENDS Naturals, Sequences, FiniteSets

LOCAL INSTANCE SequencesExt

CONSTANTS
  Names,         \* the names clients ask for
  Hosts,         \* the domains that host lists may hold
  Removable,     \* the domains that remove-hosts may hold
  AdLines,       \* the lines include-adblock-hosts may hold, [domain, mark]
  WhiteLines,    \* the lines exclude-adblock-hosts may hold
  PrefixLabels,  \* first labels that are stripped: www, m, hd, cdn, digits
  Casino,        \* the domains IsCasino is true of
  FilterCasino   \* FILTER_CASINO

ASSUME DomainListsAssumption ==
  /\ Hosts \cup Removable \subseteq Names
  /\ FilterCasino \in BOOLEAN

Hyphen == 1
Dot == 2

\* No domain holds a hyphen, the one character of a name that sorts below the
\* dot.  Where one does, CollapseDomains may keep redundant domains.
ASSUME NoHyphens == \A d \in Names : \A i \in DOMAIN d : d[i] # Hyphen

VARIABLES
  include, exclude, remove,   \* the host lists, of normalised domains
  adInclude, adExclude,       \* the adblock lists
  routeAll,                   \* ROUTE_ALL
  proxy, adblock,             \* the zones, once they are compiled
  zonesWritten

domainLists == <<include, exclude, remove, adInclude, adExclude, routeAll>>
zones == <<proxy, adblock, zonesWritten>>

\* A zone drops (CNAME .) or passes (CNAME rpz-passthru.) a domain and all
\* its subdomains.
NoZone == [drop |-> {}, pass |-> {}, all |-> FALSE]

-----------------------------------------------------------------------------
(* CollapseDomains *)

\* strings.HasSuffix(d, "." + parent)
IsBelow(d, parent) == IsSuffix(<<Dot>> \o parent, d)

\* domainSorter: by characters from the end, a suffix first.
Less(a, b) ==
  LET n == IF Len(a) < Len(b) THEN Len(a) ELSE Len(b)
      differs == {k \in 1 .. n : a[Len(a) + 1 - k] # b[Len(b) + 1 - k]}
  IN  IF differs = {} THEN Len(a) < Len(b)
      ELSE \E k \in differs : /\ \A j \in differs : k <= j
                              /\ a[Len(a) + 1 - k] < b[Len(b) + 1 - k]

Sorted(S) ==
  [i \in 1 .. Cardinality(S) |->
     CHOOSE d \in S : Cardinality({e \in S : Less(e, d)}) = i - 1]

\* Along the sorted list, a domain is dropped if it is below the last one
\* that was kept.
CollapseDomains(S) ==
  LET s == Sorted(S)
      current[i \in DOMAIN s] ==
        IF i > 1 /\ IsBelow(s[i], current[i - 1]) THEN current[i - 1] ELSE s[i]
  IN  {current[i] : i \in DOMAIN s}

-----------------------------------------------------------------------------
(* CompileLists *)

FirstDot(d) ==
  CHOOSE i \in DOMAIN d : d[i] = Dot /\ \A j \in 1 .. i - 1 : d[j] # Dot

\* stripPrefix: a domain with two dots or more loses such a first label.
StripPrefix(d) ==
  IF Cardinality({i \in DOMAIN d : d[i] = Dot}) >= 2
     /\ SubSeq(d, 1, FirstDot(d) - 1) \in PrefixLabels
  THEN SubSeq(d, FirstDot(d) + 1, Len(d)) ELSE d

\* validateFile: what is read of include-hosts.
ValidHosts(file) == IF FilterCasino THEN file \ Casino ELSE file

\* Mutant of ProxyZone: included domains are collapsed on their own.
ProxyZoneApart ==
  LET pInc == {StripPrefix(d) : d \in ValidHosts(include)}
      pExc == remove \cup exclude
  IN  [drop |-> CollapseDomains(pInc) \ pExc, pass |-> CollapseDomains(pExc),
       all |-> routeAll]

\* proxy.rpz
ProxyZone ==
  LET pInc == {StripPrefix(d) : d \in ValidHosts(include)}
      pExc == remove \cup exclude
  IN  [drop |-> CollapseDomains(pInc \cup pExc) \ pExc, pass |-> CollapseDomains(pExc),
       all |-> routeAll]

\* Mutant of IsEx: the list that a line comes from is ignored.
IsExMarked(line, forceException) == line.mark \in {"@@", "@@||"}

\* parseAdblockLine: whether a line is an exception.
IsEx(line, forceException) ==
  \/ line.mark \in {"@@", "@@||"}
  \/ line.mark = "" /\ forceException

Excepted == {l.domain : l \in {x \in adInclude : IsEx(x, FALSE)}} \cup
            {l.domain : l \in {x \in adExclude : IsEx(x, TRUE)}}
Listed == {l.domain : l \in {x \in adInclude : ~IsEx(x, FALSE)}} \cup
          {l.domain : l \in {x \in adExclude : ~IsEx(x, TRUE)}}

\* adblock.rpz; the exceptions of both lists are treated alike.
AdblockZone ==
  [drop |-> CollapseDomains(Listed \cup Excepted \cup remove) \ (Excepted \cup remove),
   pass |-> CollapseDomains(Excepted), all |-> FALSE]

CompileDomains ==
  /\ proxy' = ProxyZone
  /\ adblock' = AdblockZone
  /\ zonesWritten' = TRUE
  /\ UNCHANGED domainLists

\* The host lists as they may be, with and without ROUTE_ALL; or empty.
HostsLoaded ==
  /\ include \in SUBSET Hosts /\ exclude \in SUBSET Hosts /\ routeAll \in BOOLEAN
NoHosts == include = {} /\ exclude = {} /\ routeAll = FALSE

\* The adblock lists as they may be; or empty.
AdsLoaded == adInclude \in SUBSET AdLines /\ adExclude \in SUBSET WhiteLines
NoAds == adInclude = {} /\ adExclude = {}

InitZones == proxy = NoZone /\ adblock = NoZone /\ zonesWritten = FALSE

-----------------------------------------------------------------------------
(* External: the resolver *)

Covers(d, q) == q = d \/ IsBelow(q, d)

\* A name is dropped if the longest domain in the zone that covers it says so.
Dropped(zone, q) ==
  LET matching == {d \in zone.drop \cup zone.pass : Covers(d, q)}
  IN  IF matching = {} THEN zone.all
      ELSE \E d \in matching : d \notin zone.pass /\ \A e \in matching : Len(e) <= Len(d)

-----------------------------------------------------------------------------
(* Properties *)

\* The proxied names are the ones below an included domain that are not below
\* an excluded or removed one ("domains ... that you do NOT want to route
\* through the proxy", lists/manual/exclude-hosts.txt), however the two are
\* nested in each other.
ProxyPolicy ==
  zonesWritten => \A q \in Names :
     Dropped(proxy, q) <=>
        /\ routeAll \/ \E d \in ValidHosts(include) : Covers(StripPrefix(d), q)
        /\ ~ \E e \in exclude \cup remove : Covers(e, q)

\* A name is blocked if it is below a listed domain that remove-hosts does not
\* take out of the list, itself or with a domain above it, and below no
\* exception of either list; what the whitelist holds is an exception
\* ("domains ... that you do NOT want to block",
\* lists/manual/exclude-adblock-hosts.txt).
AdblockPolicy ==
  zonesWritten =>
     /\ \A q \in Names :
           Dropped(adblock, q) <=>
              /\ \E d \in Listed : Covers(d, q) /\ ~ \E e \in remove : Covers(e, d)
              /\ ~ \E e \in Excepted : Covers(e, q)
     /\ \A l \in adExclude : ~Dropped(adblock, l.domain)

=============================================================================

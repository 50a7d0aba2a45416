---------------------------- MODULE ListContents ----------------------------
(***************************************************************************)
(* What the compiler makes of the contents of the lists: one run of        *)
(* CompileLists over IP lists (IPLists) and domain lists (DomainLists).    *)
(***************************************************************************)
EXTENDS DomainLists, IPLists

vars == <<domainLists, zones, ipLists, ipFiles>>

\* The IP files are written first.
CompileLists ==
  /\ ~ipsWritten
  /\ CompileIPs
  /\ CompileDomains

\* The three groups of files depend on no list of another group but
\* remove-hosts, so one group at a time holds something.
Init ==
  /\ InitZones /\ InitIPFiles
  /\ \/ IPsLoaded /\ NoHosts /\ NoAds /\ remove = {}
     \/ NoIPs /\ HostsLoaded /\ NoAds /\ remove \in SUBSET Removable
     \/ NoIPs /\ NoHosts /\ AdsLoaded /\ remove \in SUBSET Removable

Spec == Init /\ [][CompileLists]_vars

=============================================================================

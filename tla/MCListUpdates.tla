--------------------------- MODULE MCListUpdates ---------------------------
(***************************************************************************)
(* A small instance of ListUpdates.                                        *)
(***************************************************************************)
EXTENDS ListUpdates

\* The order in which CompileLists writes, and one with the hash files first.
BothOrders == {<<"deny", "zone", "hash">>, <<"hash", "deny", "zone">>}

\* Every value of every two switches.
PairConfigs ==
  {c \in Config : c.enableIPv6 = (c.publicDNS = c.doh)}

=============================================================================

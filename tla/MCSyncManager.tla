---------------------------- MODULE MCSyncManager ----------------------------
(***************************************************************************)
(* A small instance of SyncManager.                                        *)
(***************************************************************************)
EXTENDS SyncManager

ThreeNodes == 1 .. 3
FourConns == 1 .. 4

\* Nodes 1 and 2 are configured with each other; failures and a restart.
Faulty ==
  [configured |-> <<{2}, {1}, {}>>, closers |-> {}, peerLimit |-> 50,
   maxConns |-> 2, maxFaults |-> 2, maxCrashes |-> 1]

\* The same two, which are shut down at any time.
Closing ==
  [configured |-> <<{2}, {1}, {}>>, closers |-> {1, 2}, peerLimit |-> 50,
   maxConns |-> 2, maxFaults |-> 1, maxCrashes |-> 0]

\* The same two, with room for a third connection next to two that are given up.
Crowded == [Faulty EXCEPT !.maxConns = 3, !.maxFaults = 1, !.maxCrashes = 0]

\* Nodes 2 and 3 know node 1, and hear of each other from it.
Star ==
  [configured |-> <<{}, {1}, {1}>>, closers |-> {}, peerLimit |-> 2,
   maxConns |-> 4, maxFaults |-> 0, maxCrashes |-> 0]

AllNetworks == {Faulty, Closing, Crowded, Star}

=============================================================================

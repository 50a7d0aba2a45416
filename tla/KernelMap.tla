----------------------------- MODULE KernelMap -----------------------------
(***************************************************************************)
(* External: the v4_map and v6_map of the kernel, as the program uses      *)
(* them.  The two families never share a key, so they are one map from     *)
(* fake addresses to elements.  A transaction adds elements; an element    *)
(* that is there stays as it is, and one that is there with another value  *)
(* makes the whole transaction fail with "file exists".                    *)
(***************************************************************************)
EXTENDS GoMap

\* Elements are records with a fake and a real address, and what else the
\* caller keeps; k maps fakes to elements.
Conflict(k, elements) ==
  \E e \in elements :
     \/ \E old \in Lookup(k, e.fake) : old.real # e.real
     \/ \E d \in elements : d.fake = e.fake /\ d.real # e.real

\* The map after a transaction that was committed.
Committed(k, elements) ==
  [f \in DOMAIN k \cup {e.fake : e \in elements} |->
     IF f \in DOMAIN k THEN k[f]
     ELSE CHOOSE e \in elements : e.fake = f]

=============================================================================

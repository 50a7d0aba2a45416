------------------------------- MODULE GoMap -------------------------------
(***************************************************************************)
(* Go maps as functions whose DOMAIN is the set of keys present.           *)
(***************************************************************************)

\* make(map[K]V)
EmptyMap == [k \in {} |-> {}]

\* m has keys in K and values in V.
IsMap(m, K, V) ==
  /\ m = [k \in DOMAIN m |-> m[k]]
  /\ DOMAIN m \subseteq K
  /\ \A k \in DOMAIN m : m[k] \in V

\* m[k] = v
Put(m, k, v) == [x \in DOMAIN m \cup {k} |-> IF x = k THEN v ELSE m[x]]

\* delete(m, k) for every k in D; deleting an absent key is a no-op.
Delete(m, D) == [x \in DOMAIN m \ D |-> m[x]]

\* v, ok := m[k], as the set of values found: {} or a singleton.
Lookup(m, k) == {m[x] : x \in DOMAIN m \cap {k}}

=============================================================================

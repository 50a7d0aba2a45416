----------------------------- MODULE MCProbing -----------------------------
(***************************************************************************)
(* A small instance of Probing: words of 4 bits, octets of 2.  The         *)
(* built-in start, 198.18.0.0 in the code, is a multiple of 2^17 and of no *)
(* larger power of two; here it is 6, a multiple of 2.                     *)
(***************************************************************************)
EXTENDS Probing

Builtin == 6

GeometriesOf(sizes) ==
  {Geometry(v6, base, size, Builtin) :
     v6 \in BOOLEAN, base \in 0 .. WordSize - 1, size \in sizes}

\* The subnet is as configured, or the built-in one fits its mask.
Aligned == {g \in GeometriesOf({2, 3, 4, 5, 8}) :
              BlockOf(g.start, g.size) = g.start}

=============================================================================

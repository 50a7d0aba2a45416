---------------------------- MODULE MCNFTClient ----------------------------
(***************************************************************************)
(* A small instance of NFTClient: four operations, a queue of two and      *)
(* batches of two, so that the queue fills up and a batch ends early.      *)
(***************************************************************************)
EXTENDS NFTClient, TLC

To(f, r) == [fake |-> f, real |-> r]

\* Two writes of the same mapping and one of another, as Level 1 hashing
\* gives them; the fourth operation is an IPv6 one.
Stateless == 1 :> To("f1", "A") @@ 2 :> To("f1", "A") @@ 3 :> To("f2", "B")
             @@ 4 :> To("f6", "C")

\* The process before has written one of them.
Held == "f2" :> To("f2", "B")

=============================================================================

----------------------------- MODULE MCSafeConn -----------------------------
(***************************************************************************)
(* A small instance of SafeConn: a snapshot of three batches and two       *)
(* broadcasts on a queue for two messages.                                 *)
(***************************************************************************)
EXTENDS SafeConn, TLC

CONSTANTS snapshot, b1, b2

Messages == snapshot :> 3 @@ b1 :> 1 @@ b2 :> 1

=============================================================================

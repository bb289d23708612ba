----------------------------- MODULE MCTxQueue -----------------------------
(* A service that answers in single frames and a less urgent subject       *)
(* with transfers of three.                                                *)
EXTENDS TxQueue, TLC

FramesOfPort == 1 :> 1 @@ 2 :> 3
=============================================================================

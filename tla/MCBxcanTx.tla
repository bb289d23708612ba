----------------------------- MODULE MCBxcanTx -----------------------------
(* An urgent subject of single frames, one with transfers of two frames    *)
(* and one more below, so that the three mailboxes can all be in use.      *)
EXTENDS BxcanTx, TLC

FramesOfPort == 1 :> 1 @@ 2 :> 2 @@ 3 :> 1
=============================================================================

---------------------------- MODULE MCRxSession ----------------------------
(* Instances of RxSession: transfers of one, two and three frames.         *)
EXTENDS RxSession, TLC

FramesOfTransfers == <<2, 1, 3, 1, 2>>
=============================================================================

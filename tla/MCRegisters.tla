---------------------------- MODULE MCRegisters ----------------------------
(* An instance of Registers with one register that nobody configures.      *)
EXTENDS Registers, TLC

CONSTANTS c1, r1, r2

RegisterOfClient == c1 :> r1
=============================================================================

------------------------------- MODULE MCCavl -------------------------------
(* Two nodes of one key among others: frames of a transfer, and subjects.  *)
EXTENDS Cavl

MCNode == 1 .. 12
MCKeyOf == [n \in MCNode |-> IF n > 5 THEN n - 1 ELSE n]
=============================================================================

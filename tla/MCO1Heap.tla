------------------------------ MODULE MCO1Heap ------------------------------
(* A heap whose capacity is no power of two, for requests of every class.  *)
EXTENDS O1Heap

MCAmount == {0, 2, 3, 7, 30}
=============================================================================

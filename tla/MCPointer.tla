------------------------------ MODULE MCPointer ------------------------------
(* Instance of Pointer for TLC.  Addresses and tags are interchangeable, and *)
(* no liveness is checked, so both may be permuted.                          *)
EXTENDS Pointer, TLC

Symmetry == Permutations(Address) \cup Permutations(Tag)
=============================================================================

------------------------------ MODULE MCArena ------------------------------
(* Instance of Arena for TLC.  Addresses are interchangeable.               *)
EXTENDS Arena, TLC

Symmetry == Permutations(Address)
=============================================================================

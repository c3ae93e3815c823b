---------------------------- MODULE MCLifetimes ----------------------------
(* Blocks of a kind are interchangeable.                                    *)
EXTENDS Lifetimes, TLC

Symmetry == Permutations(Lib) \cup Permutations(Proto) \cup Permutations(Fn)
                \cup Permutations(Callback) \cup Permutations(Wrapper)
                \cup Permutations(Slot)
=============================================================================

---------------------------- MODULE MCInterfaces ----------------------------
(* Slots are numbered per interface; blocks of a kind are interchangeable.  *)
EXTENDS Interfaces, TLC

IfcSlots == Ifc \X (1 .. MaxMethods)

Symmetry == Permutations(Lib) \cup Permutations(Proto) \cup Permutations(Fn)
                \cup Permutations(Callback) \cup Permutations(Wrapper)
                \cup Permutations(Ifc) \cup Permutations(IfcName) \cup Permutations(Method)
=============================================================================

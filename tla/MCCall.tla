------------------------------- MODULE MCCall -------------------------------
(* Prototypes for checking calls: the kinds of functions that the           *)
(* documentation and the tests declare.                                     *)
EXTENDS Call

Void_(params) ==
    [params |-> params,
     ret |-> [type |-> "void", byref |-> FALSE, safety |-> "unsafe",
              checked |-> FALSE, discard |-> FALSE, onerror |-> FALSE]]

Number(params, onerror) ==
    [params |-> params,
     ret |-> [type |-> "number", byref |-> FALSE, safety |-> "unsafe",
              checked |-> TRUE, discard |-> FALSE, onerror |-> onerror]]

Pointer(params, safety, checked) ==
    [params |-> params,
     ret |-> [type |-> "pointer", byref |-> FALSE, safety |-> safety,
              checked |-> checked, discard |-> FALSE, onerror |-> FALSE]]

Param(dir, own, safety) ==
    [dir |-> dir, own |-> own, safety |-> safety, store |-> "onsuccess", nullok |-> FALSE]

InSafe   == Param("in", "keep", "safe")
Dispose  == Param("in", "dispose", "safe")

Malloc   == Pointer(<<>>, "safe", TRUE)
Free     == Void_(<<Dispose>>)
Realloc  == Pointer(<<Param("in", "disposeonsuccess", "safe")>>, "safe", TRUE)
Use      == Number(<<InSafe>>, TRUE)
Close    == Number(<<Param("in", "disposeonsuccess", "safe"), InSafe>>, TRUE)
DlOpen   == Pointer(<<>>, "counted", FALSE)
DlClose  == Number(<<Dispose>>, TRUE)
Make     == Number(<<[Param("out", "keep", "safe") EXCEPT !.store = "always"]>>, TRUE)
Split    == Number(<<Param("out", "keep", "safe"), Param("out", "keep", "counted")>>, FALSE)
Replace  == Number(<<[Param("inout", "dispose", "safe") EXCEPT !.nullok = TRUE]>>, TRUE)
Adjust   == Number(<<Param("inout", "keep", "safe")>>, FALSE)
\* Outputs after an argument that is verified, and before one that is disposed of.
Measure  == Number(<<InSafe, Param("out", "keep", "safe")>>, TRUE)
Convert  == Number(<<Param("out", "keep", "counted"), Dispose>>, FALSE)
Fixture  == Pointer(<<Param("in", "dispose", "safe")>>, "pinned", TRUE)

\* A struct returned by value, and a number returned by reference.
ByValue == [params |-> <<Dispose>>,
            ret |-> [type |-> "struct", byref |-> FALSE, safety |-> "unsafe",
                     checked |-> FALSE, discard |-> FALSE, onerror |-> FALSE]]
ByRef   == [ByValue EXCEPT !.ret.type = "number", !.ret.byref = TRUE]
StructRef == [ByRef EXCEPT !.ret.type = "struct", !.ret.checked = TRUE]

OwnershipProtos == {Malloc, Free, Realloc, Use, Close, DlOpen, DlClose, Make, Replace,
                    Adjust, Split, StructRef, Measure, Convert}

\* Registrations and references agree for these, as CallProofs shows.
ASSUME OwnershipAssumption == \A p \in OwnershipProtos : Accountable(p)

ReentrantProtos == {Malloc, Free, Realloc, Use, Fixture, Replace}
UndisposedProtos == {Malloc, ByValue, ByRef}
=============================================================================

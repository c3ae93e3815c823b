------------------------------- MODULE MCArgs -------------------------------
(* Prototypes with counts before and after their arrays, by value and by   *)
(* reference, and outputs that may be NULL.                                *)
EXTENDS Args

Param(name, type, size, annots) ==
    [name |-> name, type |-> type, size |-> size, annots |-> annots, count |-> "n"]

Function(returns, retannots, params) ==
    [returns |-> returns, retannots |-> retannots, params |-> params]

MCVar == {"x", "y"}

CountParam(annots) == Param("n", "int", Scalar, annots)

\* An array of every kind, before its count and after it.
Counted ==
    {Function("void", <<>>, <<Param("a", type, VLA, <<dir, "novaluechecks">>), CountParam(<<"inout">>)>>) :
        type \in {"int", "pointer", "chars", "unichars", "bytes"}, dir \in {"out", "inout"}}
    \cup {Function("int", <<"nonzero">>, <<CountParam(<<"inout", "nullifempty">>),
                                           Param("a", type, VLA, <<"out", store>>)>>) :
        type \in {"int", "unichars"}, store \in {"storealways", "storeonerror", "nullifempty"}}
    \cup {Function("void", <<>>, <<CountParam(<<byref>>), Param("a", "chars", VLA, <<"retval">>)>>) :
        byref \in {"in", "byref"}}

\* Outputs and inputs of fixed size.
Fixed ==
    {Function("int", <<"positive">>, <<Param("b", type, Scalar, <<"retval">>),
                                       Param("c", "int", Scalar, <<"default">>)>>) :
        type \in {"int", "pointer", "struct"}}
    \cup {Function("void", <<>>, <<Param("b", type, Scalar, <<dir, "nullifempty">>)>>) :
        type \in {"int", "pointer", "struct"}, dir \in {"out", "inout"}}
    \cup {Function("void", <<>>, <<Param("b", type, 2, <<dir>>),
                                   Param("c", other, 2, <<"in", "nullifempty">>)>>) :
        type \in {"chars", "unichars", "struct"}, other \in {"bytes", "chars"}, dir \in {"out", "inout"}}

MCPrototypes == Counted \cup Fixed
=============================================================================

------------------------------ MODULE MCStruct ------------------------------
EXTENDS Struct, TLC

Unsigned(size) == [of |-> "num", size |-> size, align |-> size, signed |-> FALSE,
                   varsize |-> FALSE, integer |-> TRUE]
SignedInt(size)   == [Unsigned(size) EXCEPT !.signed = TRUE]
Float          == [Unsigned(4) EXCEPT !.integer = FALSE]
StructS == [of |-> "S", union |-> FALSE]
UnionU  == [of |-> "U", union |-> TRUE]

Field(name, base) == [name |-> name, base |-> base, array |-> Scalar, init |-> "none"]
Array(name, base, n) == [Field(name, base) EXCEPT !.array = n]
Counted(name, base, by) == [count |-> by] @@ Array(name, base, VLA)
Default(name, base, n) == [default |-> Num(n)] @@ [Field(name, base) EXCEPT !.init = "default"]
Size(name, base) == [Field(name, base) EXCEPT !.init = "structsize"]

Def(fields) == [union |-> FALSE, pack |-> 0, clear |-> FALSE, fields |-> fields]
Cleared(d) == [d EXCEPT !.clear = TRUE]
Packed(d, n) == [d EXCEPT !.pack = n]
UnionDef(fields) == [Def(fields) EXCEPT !.union = TRUE]

\* A nested struct is accepted as one that stands alone.  (TLC follows guards into the
\* definitions they use, and stops at one that is declared to be recursive.)
RECURSIVE MCNestedAccepts(_, _)
MCNestedAccepts(L, v) == LET accepts == Accepts(L, v) IN accepts

u1 == Unsigned(1)
u2 == Unsigned(2)
i2 == SignedInt(2)

SourcesOfS == {
    Def(<<Field("a", u1), Field("b", Unsigned(4))>>),
    Packed(Cleared(Def(<<Field("a", u1), Field("b", Unsigned(4))>>)), 2),
    Packed(Cleared(Def(<<Field("n", u1), Counted("v", i2, "n")>>)), 1),
    Def(<<Field("n", i2), Field("a", u1), Counted("v", u2, "n")>>),
    Def(<<Field("a", u1), Size("s", u1), Default("b", i2, -3)>>),
    Cleared(Def(<<Array("v", u1, 2), Size("s", u2), Field("b", i2)>>)),
    \* rejected: the count is missing, or not an integer; a size and a count
    Def(<<Field("a", u1), Counted("v", u2, "n")>>),
    Def(<<Field("n", Float), Counted("v", u2, "n")>>),
    Def(<<Size("n", u1), Counted("v", u2, "n")>>) }

SourcesOfU == {
    UnionDef(<<Field("a", u1), Field("b", i2), Array("v", u1, 3)>>) }

SourcesOfT == {
    Def(<<Field("a", u1), Field("in", StructS)>>),
    Packed(Def(<<Field("a", u1), Field("in", StructS), Array("v", u1, 1)>>), 1),
    Cleared(Def(<<Array("ins", StructS, 2), Field("b", u2), Field("u", UnionU)>>)),
    Def(<<Field("n", u2), Counted("ins", StructS, "n")>>) }

MCStructName == {"S", "T", "U"}
MCFieldName == {"a", "b", "n", "s", "v", "in", "ins", "u"}
MCVLACounts == {-1, 0, 2, 8}
MCSources == [name \in MCStructName |->
    CASE name = "S" -> SourcesOfS [] name = "T" -> SourcesOfT [] name = "U" -> SourcesOfU]

\* A dictionary may have more than a struct's fields.
Flat1 == ("a" :> Num(1)) @@ ("b" :> Num(6)) @@ ("n" :> Num(2))
         @@ ("v" :> List(<<Num(2), Num(3), Num(1)>>))
Flat2 == ("a" :> Num(2)) @@ ("n" :> Num(1)) @@ ("s" :> Num(2)) @@ ("v" :> List(<<>>))
MCDicts == {
    Dict(<<>>),
    Dict(("n" :> Num(4)) @@ Flat1),
    \* eight structs of eight bytes: more than an int can tell
    Dict(("n" :> Num(8)) @@ ("ins" :> List(<<>>))),
    Dict(("in" :> Dict(Flat1)) @@ ("ins" :> List(<<Dict(Flat1)>>))
         @@ ("u" :> Bin(<<1, 2, 3, 0>>)) @@ Flat2),
    Dict(("in" :> Dict(Flat2)) @@ ("ins" :> List(<<Dict(Flat2), Dict(Flat1)>>))
         @@ ("u" :> Bin(<<1, 2>>)) @@ Flat1) }

MCFieldValues == [name \in MCFieldName |->
    CASE name = "a" -> {List(<<>>), Num(-2), Num(2)}
      [] name \in {"b", "n", "s"} -> {Num(-2), Num(2)}
      [] name = "v" -> {List(<<>>), List(<<Num(2), Num(3), Num(1)>>)}
      [] name = "in" -> {Num(2), Dict(<<>>), Dict(Flat1)}
      [] name = "ins" -> {List(<<>>), List(<<Dict(Flat2)>>)}
      [] name = "u" -> {Bin(<<2, 3, 1, 0>>)}]
=============================================================================

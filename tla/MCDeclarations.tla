--------------------------- MODULE MCDeclarations ---------------------------
(* Declarations with up to two annotations, alone and with two aliases.    *)
EXTENDS Declarations

CONSTANTS A, B

Decl(type, size, annots) == [type |-> type, size |-> size, annots |-> annots]

MCAliasDecls ==
    [n \in {A, B} |->
        IF n = A
        THEN {Decl("int", Scalar, <<"errno", "nonzero">>), Decl("int", VLA, <<"out">>),
              Decl("int", 2, <<"in">>), Decl("pointer", Scalar, <<"counted">>),
              Decl("pointer", Scalar, <<"onerror">>), Decl("vstruct", Scalar, <<>>),
              Decl("int", Scalar, <<"default">>), Decl("int", Scalar, <<"structsize">>)}
        ELSE {Decl("pointer", Scalar, <<"nullok">>), Decl(A, Scalar, <<"byref">>),
              Decl(A, 3, <<>>)}]

\* One of each group of annotations that the parser treats alike.
Words == Annotations \ {"zero", "positive", "nonnegative", "bitmask", "multisz", "saveerrors"}

\* The types of wide characters are parsed as the others are.
Types == BaseTypes \ {"unistring", "unichars"}

\* Pairs are made of those that have something to do with one another, in one
\* order: OrderIrrelevant parses them in the other too.
PairWords == <<"in", "out", "retval", "byref", "counted", "unsafe", "dispose", "nonzero",
               "onerror", "default", "storeonerror", "storealways", "structsize",
               "nullifempty">>

Pairs == UNION {{<<PairWords[i], PairWords[j]>> : j \in i..Len(PairWords)} :
                i \in DOMAIN PairWords}

BaseDecls ==
    {Decl(type, Scalar, pair) : type \in {"int", "pointer", "struct"}, pair \in Pairs}
    \cup {Decl(type, Scalar, <<a>>) : type \in Types, a \in Words}
    \cup {Decl(type, VLA, <<a>>) : type \in {"int", "pointer", "struct", "chars"}, a \in Words}

AliasUses ==
    {Decl(n, size, annots) : n \in {A, B}, size \in {Scalar, VLA, 3},
                             annots \in {<<>>} \cup {<<a>> : a \in Words}}

MCDecls == BaseDecls \cup AliasUses
=============================================================================

---------------------------- MODULE Declarations ----------------------------
(***************************************************************************)
(* Aliases and the declarations made with them (generic/tclCffiAlias.c and *)
(* the parser of generic/tclCffiTypes.c).                                  *)
(*                                                                         *)
(* An alias stands for a type and its annotations.  It is parsed for every *)
(* context when it is defined, and again, with the annotations added at    *)
(* its use, for the context it is used in.  Aliases live in one namespace  *)
(* here; their lookup through several is left out.                         *)
(***************************************************************************)
EXTENDS TypeAttrs

CONSTANTS
    AliasName,      \* names that are not those of base types
    AliasDecls,     \* the declarations aliases are defined with, by alias
    Decls           \* the declarations written in prototypes and structs

DeclSyntax == [type : BaseTypes \cup AliasName, size : Int, annots : Seq(Annotations)]

ASSUME DeclarationsAssumption ==
    /\ AliasName \cap BaseTypes = {}
    /\ Decls \subseteq DeclSyntax
    /\ \A n \in AliasName : AliasDecls[n] \subseteq DeclSyntax

VARIABLES
    aliases,    \* the parsed aliases, Rejected when not defined
    written,    \* the declaration an alias amounts to, without other aliases
    latest      \* a declaration parsed since the aliases last changed, its
                \* context and its meaning

declVars == <<aliases, written, latest>>

Contexts == {{"param"}, {"return"}, {"field"}}

NoDecl == [type |-> "void", size |-> Scalar, annots |-> <<>>]

IsAlias(name) == name \in AliasName

Defined(name) == aliases[name].ok

\* The type a declaration starts with: an alias is looked for first.
TypeOf(d) ==
    IF ~IsAlias(d.type) THEN TypeParse(d.type, d.size)
    ELSE IF Defined(d.type) THEN AliasGet(aliases[d.type], d.size)
    ELSE Rejected

Meaning(d, modes) == Declare(TypeOf(d), d.annots, modes)

\* The same declaration with the alias written out.
Inline(d) ==
    IF ~IsAlias(d.type) THEN d
    ELSE LET w == written[d.type]
         IN [type |-> w.type, size |-> IF d.size = Scalar THEN w.size ELSE d.size,
             annots |-> w.annots \o d.annots]

Nothing == [decl |-> NoDecl, modes |-> {"return"}, meaning |-> Rejected]

DeclInit ==
    /\ aliases = [n \in AliasName |-> Rejected]
    /\ written = [n \in AliasName |-> NoDecl]
    /\ latest = Nothing

\* cffi::alias define NAME DECL.  One that exists is never replaced: defining
\* it again succeeds when the definition is the same and fails otherwise.
AliasAdd(n, d) ==
    /\ ~Defined(n)
    /\ Meaning(d, AllModes).ok
    /\ aliases' = [aliases EXCEPT ![n] = Meaning(d, AllModes)]
    /\ written' = [written EXCEPT ![n] = Inline(d)]
    /\ latest' = Nothing

\* cffi::alias delete PATTERN and cffi::alias clear
AliasDelete(names) ==
    /\ \E n \in names : Defined(n)
    /\ aliases' = [n \in AliasName |-> IF n \in names THEN Rejected ELSE aliases[n]]
    /\ written' = [n \in AliasName |-> IF n \in names THEN NoDecl ELSE written[n]]
    /\ latest' = Nothing

\* A prototype, a struct or cffi::type parses a declaration.  Parsing changes
\* nothing, so one between two changes of the aliases shows all there is.
Parse(d, modes) ==
    /\ latest = Nothing
    /\ latest' = [decl |-> d, modes |-> modes, meaning |-> Meaning(d, modes)]
    /\ UNCHANGED <<aliases, written>>

DeclNext ==
    \/ \E n \in AliasName : \E d \in AliasDecls[n] : AliasAdd(n, d)
    \/ \E names \in SUBSET AliasName : AliasDelete(names)
    \/ \E d \in Decls, modes \in Contexts : Parse(d, modes)

DeclSpec == DeclInit /\ [][DeclNext]_declVars

-----------------------------------------------------------------------------
(* Properties.                                                             *)

Reordered(d, p) == [d EXCEPT !.annots = [i \in DOMAIN d.annots |-> d.annots[p[i]]]]

\* The order annotations are written in does not matter: each of them checks
\* only those before it, so every clash has to be checked from both sides.
OrderIrrelevant ==
    \A p \in [DOMAIN latest.decl.annots -> DOMAIN latest.decl.annots] :
        (\A i, j \in DOMAIN p : p[i] = p[j] => i = j) =>
            Meaning(Reordered(latest.decl, p), latest.modes)
                = Meaning(latest.decl, latest.modes)

Directions(ta) == ta.flags \cap Direction

\* What CffiArgPrepare and CffiArgPostProcess assert about a parameter, except for
\* structs of variable size.
Prepared(ta) ==
    /\ \E dir \in Direction : Directions(ta) = {dir}
    /\ IsOutput(ta) \/ IsArray(ta) \/ ta.base \in CharTypes \cup {"uuid"} => "byref" \in ta.flags
    /\ "retval" \in ta.flags => "out" \in ta.flags
    /\ ta.base = "binary" => "in" \in ta.flags
    /\ ta.flags \cap Disposal # {} => ta.flags \cap {"out", "unsafe"} = {}
    /\ ta.base \in StructTypes /\ "nullifempty" \in ta.flags => "byref" \in ta.flags
    /\ \A mask \in {{"unsafe", "counted"}, {"unsafe", "pinned"}, {"counted", "pinned"},
                    Disposal, {"storeonerror", "storealways"}} : ~(mask \subseteq ta.flags)

\* Structs of variable size are not to make up an array.
ArrayOfVariable(ta) == ta.base = "vstruct" /\ IsArray(ta)

\* All that they assert.
ReadyForCall(ta) == Prepared(ta) /\ ~ArrayOfVariable(ta)

\* A parameter that is accepted meets the assertions of CffiArgPrepare, with
\* whatever aliases it is made of, but for one that amounts to an array of structs
\* of variable size: CffiTypeParse refuses those, CffiAliasGet does not, and the
\* assertion fails on them (Alias.c:75-82, Types.c:1427, Function.c:748).  Return
\* types and fields meet the parser's own assertions.
AcceptedIsUsable ==
    latest.meaning.ok =>
        /\ latest.modes = {"param"}  =>
              \/ ReadyForCall(latest.meaning)
              \/ IsAlias(latest.decl.type) /\ ArrayOfVariable(latest.meaning)
        /\ latest.modes = {"return"} => Directions(latest.meaning) = {}
        /\ latest.modes = {"field"}  => latest.meaning.flags \cap ParamMask = {}

SameButErrors(ta, tb, modes) ==
    LET ignored == IF modes = {"return"} THEN {} ELSE ErrorMask
    IN /\ tb.ok /\ ta.base = tb.base /\ ta.size = tb.size
       /\ ta.flags \ ignored = tb.flags \ ignored

\* Where the parser is laxer with an alias than with its definition written out:
\* a size given to an alias is not held against its type and annotations
\* (CffiAliasGet), and a default that comes with one is not refused in a return
\* type.
AliasLaxer(d, modes) ==
    LET given == {d.annots[i] : i \in DOMAIN d.annots}
    IN \/ IsArray(d) /\ (d.type \in {"void", "binary", "vstruct"} \/ "structsize" \in given)
       \/ modes = {"return"} /\ "default" \in given

\* An alias that is accepted somewhere, with a size or without, means there what
\* its definition means when it is written in its place, unless the parser is laxer
\* with the alias; only the error annotations, which the context ignores, stay
\* behind.
AliasTransparent ==
    LET d == latest.decl IN
    IsAlias(d.type) =>
        \A modes \in Contexts :
            Meaning(d, modes).ok /\ ~AliasLaxer(Inline(d), modes) =>
                SameButErrors(Meaning(d, modes), Meaning(Inline(d), modes), modes)
=============================================================================

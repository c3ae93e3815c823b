------------------------------ MODULE TypeAttrs ------------------------------
(***************************************************************************)
(* Type declarations: a type, an array size, and annotations in the order  *)
(* they were written (generic/tclCffiTypes.c, generic/tclCffiAlias.c).     *)
(*                                                                         *)
(* A declaration is parsed for the contexts it may be used in, its modes:  *)
(* a parameter, a return type, a struct field, or, for an alias, all of    *)
(* them.  "int" stands for the ten integer types, "float" for the two      *)
(* floating point ones, "struct" and "vstruct" for structs of fixed and of *)
(* variable size that may be passed by value.  The annotations and types   *)
(* that exist on Windows only are left out, and so are tags, encodings and *)
(* the values of enum, default and onerror.                                *)
(***************************************************************************)
EXTENDS Integers, Sequences

Scalar == -1    \* the array size of a type that is not an array
VLA == 0        \* the array size of one whose count is a parameter or field

StringTypes == {"string", "unistring"}
CharTypes == {"chars", "unichars", "bytes"}
StructTypes == {"struct", "vstruct"}
BaseTypes == {"void", "int", "float", "pointer", "binary", "uuid"}
             \cup StructTypes \cup StringTypes \cup CharTypes

AllModes == {"param", "return", "field"}

Direction   == {"in", "out", "inout"}
ParamMask   == Direction \cup {"byref", "storeonerror", "storealways", "retval"}
Disposal    == {"dispose", "disposeonsuccess"}
SafetyMask  == {"unsafe", "counted", "pinned"} \cup Disposal
Requirement == {"zero", "nonzero", "nonnegative", "positive"}
ErrorMask   == {"errno", "onerror"}

\* "nullok" is the older word for "novaluechecks"; "default" sets no flag.
Annotations == ParamMask \cup SafetyMask \cup Requirement \cup ErrorMask \cup
    {"enum", "bitmask", "structsize", "novaluechecks", "nullok", "nullifempty",
     "multisz", "discard", "saveerrors", "default"}

\* What cffiBaseTypes allows on a type.
ValidAttrs(base) ==
    LET common == ParamMask \cup {"novaluechecks", "discard"} IN
    CASE base = "void"    -> {"saveerrors"}
      [] base = "int"     -> common \cup Requirement \cup ErrorMask \cup
                             {"saveerrors", "enum", "bitmask", "structsize"}
      [] base = "float"   -> common \cup {"saveerrors"}
      [] base \in StructTypes -> common \cup {"saveerrors", "nullifempty"}
      [] base = "pointer" -> common \cup SafetyMask \cup ErrorMask \cup {"saveerrors"}
      [] base \in StringTypes ->
            {"in", "out", "retval", "byref", "saveerrors", "nullifempty",
             "novaluechecks", "discard"} \cup ErrorMask
      [] base = "binary"  -> {"in", "byref", "nullifempty", "discard"}
      [] base \in CharTypes \cup {"uuid"} -> common \cup {"nullifempty"}

\* The contexts cffiAttrs allows a flag in.
AttrModes(flag) ==
    CASE flag \in (ParamMask \ {"byref"}) \cup Disposal      -> {"param"}
      [] flag = "byref"                                      -> {"param", "return"}
      [] flag \in Requirement \cup {"discard", "saveerrors"} -> {"return"}
      [] flag = "nullifempty"                                -> {"param", "field"}
      [] flag = "structsize"                                 -> {"field"}
      [] OTHER                                               -> AllModes

-----------------------------------------------------------------------------
(* The type itself.                                                        *)

\* slot: what parseModeSpecificObj holds, the default or the onerror handler.
Parsed(base, size, varsize, flags, slot) ==
    [ok |-> TRUE, base |-> base, size |-> size, varsize |-> varsize,
     flags |-> flags, slot |-> slot]

Rejected == [ok |-> FALSE]

IsArray(ta) == ta.size # Scalar

\* CffiTypeParse
TypeParse(base, size) ==
    IF \/ base \in {"void", "binary", "vstruct"} /\ size # Scalar
       \/ base \in CharTypes /\ size = Scalar
    THEN Rejected
    ELSE Parsed(base, size, base = "vstruct" \/ size = VLA, {}, "none")

\* Mutant: the annotations of the alias are lost.
AliasGet_Bare(ta, size) ==
    [ta EXCEPT !.flags = {}, !.size = IF size = Scalar THEN ta.size ELSE size]

\* CffiAliasGet: the size given at the use replaces that of the alias.
AliasGet(ta, size) ==
    IF size = Scalar THEN ta
    ELSE [ta EXCEPT !.size = size, !.varsize = ta.varsize \/ size = VLA]

-----------------------------------------------------------------------------
(* The annotations, one after the other.                                   *)

\* Outside return types errno and onerror are accepted and forgotten.
Adds(annot, modes) ==
    CASE annot = "retval"  -> {"out", "retval"}
      [] annot = "nullok"  -> {"novaluechecks"}
      [] annot = "default" -> {}
      [] annot \in ErrorMask /\ "return" \notin modes -> {}
      [] OTHER             -> {annot}

TakesSlot(annot, modes) ==
    annot = "default" \/ (annot = "onerror" /\ "return" \in modes)

\* Mutant: unsafe does not look for the disposal annotations before it.
SafetyClashes_Dispose(annot) ==
    CASE annot \in {"counted", "pinned"} -> {"unsafe", "counted", "pinned"} \ {annot}
      [] annot = "unsafe"                -> {"counted", "pinned"}
      [] annot \in Disposal              -> {"unsafe"} \cup (Disposal \ {annot})

SafetyClashes(annot) ==
    CASE annot \in {"counted", "pinned"} -> {"unsafe", "counted", "pinned"} \ {annot}
      [] annot = "unsafe"                -> {"counted", "pinned"} \cup Disposal
      [] annot \in Disposal              -> {"unsafe"} \cup (Disposal \ {annot})

\* The flags that an annotation does not tolerate before it.
Clashes(annot, modes) ==
    CASE annot \in Direction    -> Direction \ {annot}
      [] annot = "retval"       -> {"in", "inout"}
      [] annot \in SafetyMask   -> SafetyClashes(annot)
      [] annot \in Requirement  -> Requirement
      [] annot = "storeonerror" -> {"storealways"}
      [] annot = "storealways"  -> {"storeonerror"}
      [] annot \in ErrorMask /\ "return" \in modes -> ErrorMask
      [] annot = "enum"         -> {"enum"}
      [] annot = "default"      -> {"structsize"}
      [] OTHER                  -> {}

\* The checks that do not depend on what came before.
Suitable(ta, annot, modes) ==
    /\ annot \in ValidAttrs(ta.base) \cup {"nullifempty", "default", "nullok"}
    /\ annot = "default" => modes \cap {"param", "field"} # {}
    /\ annot \in {"nullok", "novaluechecks"} =>
          IsArray(ta) \/ ta.base \in {"pointer", "binary", "uuid"}
                                     \cup StringTypes \cup StructTypes
    /\ annot = "structsize" => ~IsArray(ta)

\* The loop over the annotations.
Annotated(ta, annots, modes) ==
    LET before(i) == 1 .. (i - 1)
        flags(i)  == ta.flags \cup UNION {Adds(annots[j], modes) : j \in before(i)}
        taken(i)  == ta.slot # "none" \/ (\E j \in before(i) : TakesSlot(annots[j], modes))
        last      == Len(annots) + 1
    IN IF \A i \in DOMAIN annots :
             /\ Suitable(ta, annots[i], modes)
             /\ Clashes(annots[i], modes) \cap flags(i) = {}
             /\ (TakesSlot(annots[i], modes) \/ annots[i] = "structsize") => ~taken(i)
       THEN [ta EXCEPT !.flags = flags(last),
                       !.slot = IF ta.slot # "none" \/ ~taken(last) THEN ta.slot
                                ELSE IF "onerror" \in flags(last) THEN "handler"
                                ELSE "default"]
       ELSE Rejected

-----------------------------------------------------------------------------
(* The checks made when all annotations are known.                         *)

NullIfEmptyAllowed(ta) ==
    "nullifempty" \in ta.flags =>
        \/ "nullifempty" \in ValidAttrs(ta.base)
        \/ ta.flags \cap {"inout", "out"} # {} /\ "retval" \notin ta.flags

AllowedIn(ta, modes) ==
    /\ \A flag \in ta.flags : AttrModes(flag) \cap modes # {}
    /\ ~("structsize" \in ta.flags /\ ta.slot # "none")

IsOutput(ta) == ta.flags \cap {"out", "inout"} # {}

\* Mutant: arrays are not made references.
InFlags_ByValue(ta) ==
    ta.flags \cup {"in"}
             \cup (IF ta.base \in CharTypes THEN {"byref"} ELSE {})
             \cup (IF ta.base = "binary" THEN {"nullifempty"} ELSE {})

\* A parameter that is not an output: what goes by reference in any case.
InFlags(ta) ==
    ta.flags \cup {"in"}
             \cup (IF IsArray(ta) THEN {"byref"} ELSE {})
             \cup (IF (ta.base = "binary" /\ ~IsArray(ta)) THEN {"nullifempty"} ELSE {})

ParamParse(ta) ==
    CASE ta.base = "void" -> Rejected
      [] ta.base # "void" /\ IsOutput(ta) ->
            IF \/ ta.slot # "none" /\ "onerror" \notin ta.flags
               \/ "out" \in ta.flags /\ ta.flags \cap Disposal # {}
               \/ "out" \in ta.flags /\ ta.varsize /\ ta.size # VLA
            THEN Rejected
            ELSE [ta EXCEPT !.flags = @ \cup {"byref"}]
      [] ta.base # "void" /\ ~IsOutput(ta) ->
            IF \/ ta.flags \cap {"storeonerror", "storealways"} # {}
               \/ /\ "byref" \notin InFlags(ta)
                  /\ \/ ta.base = "uuid"
                     \/ ta.base \in StructTypes /\ "nullifempty" \in ta.flags
                     \/ ta.varsize
            THEN Rejected
            ELSE [ta EXCEPT !.flags = InFlags(ta)]

ReturnParse(ta) ==
    IF \/ ta.varsize \/ IsArray(ta)
       \/ ta.base \in CharTypes \cup {"binary", "uuid"}
       \/ /\ "onerror" \in ta.flags
          /\ ta.flags \cap Requirement = {}
          /\ ta.base \notin {"pointer"} \cup StringTypes
    THEN Rejected ELSE ta

\* The pointers in a struct are always unsafe.
FieldParse(ta) ==
    IF \/ ta.base \in {"void", "binary"}
       \/ ta.base \in CharTypes /\ (ta.size \in {Scalar, VLA} \/ "nullifempty" \in ta.flags)
    THEN Rejected
    ELSE IF ta.base = "pointer"
    THEN [ta EXCEPT !.flags = (@ \ SafetyMask) \cup {"unsafe"}]
    ELSE ta

InContext(ta, modes) ==
    CASE modes = {"param"}  -> ParamParse(ta)
      [] modes = {"return"} -> ReturnParse(ta)
      [] modes = {"field"}  -> FieldParse(ta)
      [] OTHER              -> ta

ReferenceChecked(ta) ==
    "novaluechecks" \in ta.flags =>
        \/ ta.base \in {"pointer", "binary"} \cup StringTypes
        \/ "byref" \in ta.flags

\* CffiTypeAndAttrsParse, of a type that is known.
Declare(ta, annots, modes) ==
    LET annotated == IF ta.ok THEN Annotated(ta, annots, modes) ELSE Rejected
        placed    == IF annotated.ok /\ NullIfEmptyAllowed(annotated)
                                     /\ AllowedIn(annotated, modes)
                     THEN InContext(annotated, modes) ELSE Rejected
    IN IF placed.ok /\ ReferenceChecked(placed) THEN placed ELSE Rejected
=============================================================================

---------------------------- MODULE StructTable ----------------------------
(***************************************************************************)
(* The struct and union commands of an interpreter: definition by way of   *)
(* StructLayout, redefinition and destruction (generic/tclCffiStruct.c).   *)
(*                                                                         *)
(* A definition may nest structs.  It refers to them by name when it is    *)
(* parsed and holds on to their layouts from then on, whatever becomes of  *)
(* the commands.                                                           *)
(***************************************************************************)
EXTENDS StructLayout, FiniteSetsExt

CONSTANTS
    StructName,     \* names of struct and union commands
    Sources,        \* for each name the definitions a script may give it
    None            \* no layout, and no name

\* What a script writes: the base of a field is a number of fixed size, or the name of a
\* struct or union.
SourceFieldShape(field) ==
    /\ {"name", "base", "array", "init"} \subseteq DOMAIN field
    /\ field.name \in FieldName
    /\ field.base.of \notin StructName => BaseShape(field.base) /\ ~field.base.varsize
    /\ field.array \in Int /\ field.array >= Scalar
    /\ field.init \in {"none", "default", "structsize"}

SourceShape(source) ==
    /\ {"union", "pack", "clear", "fields"} \subseteq DOMAIN source
    /\ source.union \in BOOLEAN /\ source.clear \in BOOLEAN
    /\ source.pack \in Alignments \cup {0}
    /\ source.fields \in Seq({source.fields[i] : i \in DOMAIN source.fields})
    /\ source.fields # <<>>
    /\ \A i \in DOMAIN source.fields : SourceFieldShape(source.fields[i])

ASSUME TableAssumption ==
    /\ None \notin StructName
    /\ \A name \in StructName : \A source \in Sources[name] : SourceShape(source)

VARIABLES
    structs,    \* the layout that each struct command holds
    target      \* the name being defined

tableVars == <<def, places, end, align, stage, structs, target>>

Names(L) == {L.fields[i].name : i \in DOMAIN L.fields}

FindField(L, name) == CHOOSE i \in DOMAIN L.fields : L.fields[i].name = name

LastField(L) == L.fields[Len(L.fields)]

-----------------------------------------------------------------------------
(* References to structs.                                                  *)

\* A struct of variable size has no arrays.
Resolvable(source) ==
    \A i \in DOMAIN source.fields :
        LET base == source.fields[i].base IN
        base.of \in StructName =>
            /\ structs[base.of] # None
            /\ structs[base.of].union = base.union
            /\ structs[base.of].varsize => source.fields[i].array = Scalar

\* Mutant: a nested struct has the alignment of its first byte.
Resolved_Unaligned(base) ==
    IF base.of \notin StructName THEN base
    ELSE LET L == structs[base.of] IN
         [of |-> base.of, size |-> L.size, align |-> 1,
          varsize |-> L.varsize, integer |-> FALSE, layout |-> L]

\* The type that a base refers to: a struct of its size and alignment.
Resolved(base) ==
    IF base.of \notin StructName THEN base
    ELSE LET L == structs[base.of] IN
         [of |-> base.of, size |-> L.size, align |-> L.align,
          varsize |-> L.varsize, integer |-> FALSE, layout |-> L]

\* The field types of a definition refer to the structs that exist now.
Resolve(source) ==
    [source EXCEPT !.fields =
        [i \in DOMAIN source.fields |->
            [source.fields[i] EXCEPT !.base = Resolved(source.fields[i].base)]]]

-----------------------------------------------------------------------------
(* Commands.                                                               *)

\* dynamicCountFieldIndex; 0 stands for none.
CountIndex(d) == IF IsVLA(LastField(d)) THEN Max(CountFields(d) \cup {0}) ELSE 0

Layout ==
    [union   |-> def.union, pack |-> def.pack, clear |-> def.clear,
     fields  |-> def.fields,
     offsets |-> [i \in DOMAIN places |-> places[i].offset],
     size    |-> StructSize, align |-> align,
     count   |-> CountIndex(def),
     varsize |-> VariableSize(LastField(def))]

\* The size of a struct of variable size: the elements of a trailing array follow
\* the fixed part, and so does what a nested struct has beyond its own fixed part.
Extended(L, tail) == RoundUp(L.size + tail, L.align)

StructCreate(name, source) ==
    /\ Resolvable(source)
    /\ StructParse(Resolve(source))
    /\ target' = name
    /\ UNCHANGED structs

PlaceNext == PlaceField /\ UNCHANGED <<structs, target>>

\* Mutant: a missing count field goes unnoticed.
StructEnd_NoCount ==
    /\ ParseEnd
    /\ structs' = [structs EXCEPT ![target] = Layout]
    /\ target' = None

\* The command is created, in place of one that has the name.
StructEnd ==
    /\ ParseEnd
    /\ structs' = IF TrailerAccepted(def)
                  THEN [structs EXCEPT ![target] = Layout] ELSE structs
    /\ target' = None

\* A struct nested in others lives on in them.
StructDestroy(name) ==
    /\ stage = "idle"
    /\ structs[name] # None
    /\ structs' = [structs EXCEPT ![name] = None]
    /\ UNCHANGED <<layoutVars, target>>

TableInit ==
    /\ LayoutInit
    /\ structs = [name \in StructName |-> None]
    /\ target = None

TableNext ==
    \/ \E name \in StructName : \E source \in Sources[name] : StructCreate(name, source)
    \/ PlaceNext
    \/ StructEnd
    \/ \E name \in StructName : StructDestroy(name)

TableSpec == TableInit /\ [][TableNext]_tableVars

-----------------------------------------------------------------------------
(* Properties.                                                             *)

\* Layouts are well formed, so that others may nest them: none is empty, and one that
\* has an array of variable length has, before it, the integer field that counts it
\* (CffiFindDynamicCountField, Struct.c:73).
TypeOK ==
    /\ stage = "placing" => DefinitionShape(def)
    /\ stage \in {"idle", "placing"} /\ (stage = "placing") = (target # None)
    /\ \A name \in StructName : structs[name] # None =>
          LET L == structs[name] IN
          /\ L.size \in Nat \ {0} /\ L.align \in Alignments /\ L.varsize \in BOOLEAN
          /\ L.union => ~L.varsize
          /\ L.count \in 0 .. Len(L.fields) - 1
          /\ IsVLA(LastField(L)) = (L.count # 0)
          /\ L.count # 0 => L.fields[L.count].base.integer

\* A struct may be repeated: its size covers its fields and is a multiple of their
\* alignments.  It may be nested: in every element of an array of structs within another
\* struct, the fields are inside that one and as well aligned as in a struct alone, up
\* to the packing of both, also when the nested struct was redefined since
\* (Struct.c:808-836, 879).
StructsCompose ==
    \A name \in StructName : structs[name] # None =>
        LET L == structs[name] IN
        \A i \in DOMAIN L.fields :
            /\ L.offsets[i] + FieldSize(L.fields[i]) <= L.size
            /\ L.size % FieldAlign(L.fields[i], L.pack) = 0
            /\ L.fields[i].base.of \in StructName =>
                  LET inner == L.fields[i].base.layout
                      count == IF L.fields[i].array = Scalar THEN 1 ELSE L.fields[i].array
                  IN
                  \A e \in 0 .. count - 1 : \A k \in DOMAIN inner.fields :
                      LET field == inner.fields[k]
                          at    == L.offsets[i] + e * inner.size + inner.offsets[k]
                      IN  /\ at + FieldSize(field) <= L.size
                          /\ at % Limited(FieldAlign(field, inner.pack), L.pack) = 0
=============================================================================

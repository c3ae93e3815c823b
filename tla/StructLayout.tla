---------------------------- MODULE StructLayout ----------------------------
(***************************************************************************)
(* The layout of structs and unions: CffiStructParse in                    *)
(* generic/tclCffiStruct.c.                                                *)
(*                                                                         *)
(* A definition is looked at twice.  The first pass rejects what cannot be *)
(* a struct; the second places one field after another, and is one step    *)
(* per field here, so that what it maintains is an invariant.  No script   *)
(* runs in between.                                                        *)
(*                                                                         *)
(* A field has a base (its element type, a number or a struct defined      *)
(* before), of which only size and alignment matter here, and is a scalar, *)
(* an array, or an array of variable length whose count is another field.  *)
(***************************************************************************)
EXTENDS Integers, Sequences, FiniteSets

CONSTANTS
    FieldName,      \* names of fields
    NoDefinition    \* not a definition

Alignments == {1, 2, 4, 8, 16}

Scalar == -1
VLA    == 0

\* varsize: the base is a struct whose last field has variable size.
BaseShape(base) ==
    /\ base.size \in Nat \ {0}
    /\ base.align \in Alignments
    /\ base.varsize \in BOOLEAN
    /\ base.integer \in BOOLEAN

FieldShape(field) ==
    /\ field.name \in FieldName
    /\ BaseShape(field.base)
    /\ field.array \in Int /\ field.array >= Scalar
    /\ field.init \in {"none", "default", "structsize"}

DefinitionShape(d) ==
    /\ d.union \in BOOLEAN
    /\ d.pack \in Alignments \cup {0}
    /\ d.fields \in Seq({d.fields[i] : i \in DOMAIN d.fields}) /\ d.fields # <<>>
    /\ \A i \in DOMAIN d.fields : FieldShape(d.fields[i])

VARIABLES
    def,        \* the definition that is laid out
    places,     \* offset and size of the fields placed so far
    end,        \* the first offset after them
    align,      \* the alignment of the struct so far
    stage       \* "idle" or "placing"

layoutVars == <<def, places, end, align, stage>>

\* The least multiple of a that is not below n.
RoundUp(n, a) == ((n + a - 1) \div a) * a

IsVLA(field) == field.array = VLA

VariableSize(field) == IsVLA(field) \/ field.base.varsize

\* CffiTypeLayoutInfo with no elements in an array of variable length.
FieldSize(field) ==
    IF field.array = Scalar THEN field.base.size ELSE field.array * field.base.size

\* Packing limits the natural alignment.
Limited(alignment, pack) == IF pack # 0 /\ pack < alignment THEN pack ELSE alignment

FieldAlign(field, pack) == Limited(field.base.align, pack)

-----------------------------------------------------------------------------
(* The first pass.                                                         *)

SizeFields(d) == {i \in DOMAIN d.fields : d.fields[i].init = "structsize"}

FieldsAccepted(d) ==
    /\ \A i, j \in DOMAIN d.fields : i # j => d.fields[i].name # d.fields[j].name
    /\ Cardinality(SizeFields(d)) <= 1
    /\ \A i \in DOMAIN d.fields :
          VariableSize(d.fields[i]) => ~d.union /\ i = Len(d.fields) /\ i # 1

StructParse(d) ==
    /\ stage = "idle"
    /\ FieldsAccepted(d)
    /\ def' = d
    /\ stage' = "placing"
    /\ UNCHANGED <<places, end, align>>

-----------------------------------------------------------------------------
(* The second pass.                                                        *)

NextField == def.fields[Len(places) + 1]

\* Mutant: a field follows the one before it without padding.
PlaceField_NoPadding ==
    /\ stage = "placing"
    /\ Len(places) < Len(def.fields)
    /\ places' = Append(places, [offset |-> IF def.union THEN 0 ELSE end,
                                 size   |-> FieldSize(NextField)])
    /\ end' = IF def.union
              THEN IF FieldSize(NextField) > end THEN FieldSize(NextField) ELSE end
              ELSE end + FieldSize(NextField)
    /\ align' = IF FieldAlign(NextField, def.pack) > align
                THEN FieldAlign(NextField, def.pack) ELSE align
    /\ UNCHANGED <<def, stage>>

\* The fields of a union overlay each other.  One of variable size is placed and
\* adds nothing.
PlaceField ==
    /\ stage = "placing"
    /\ Len(places) < Len(def.fields)
    /\ LET a    == FieldAlign(NextField, def.pack)
           size == FieldSize(NextField)
           here == IF def.union THEN 0 ELSE RoundUp(end, a)
       IN
       /\ places' = Append(places, [offset |-> here, size |-> size])
       /\ end' = IF def.union /\ size <= end THEN end ELSE here + size
       /\ align' = IF a > align THEN a ELSE align
    /\ UNCHANGED <<def, stage>>

\* The field that holds the count of a trailing array: an integer before it.
CountFields(d) ==
    {i \in 1 .. Len(d.fields) - 1 :
        /\ d.fields[i].array = Scalar
        /\ d.fields[i].base.integer
        /\ d.fields[i].name = d.fields[Len(d.fields)].count}

\* What is checked when all fields have been placed.
TrailerAccepted(d) ==
    LET last == d.fields[Len(d.fields)] IN
    VariableSize(last) => /\ SizeFields(d) = {}
                          /\ IsVLA(last) => CountFields(d) # {}

AllPlaced == stage = "placing" /\ Len(places) = Len(def.fields)

StructSize == RoundUp(end, align)

\* The layout goes to the caller.
ParseEnd ==
    /\ AllPlaced
    /\ stage' = "idle"
    /\ def' = NoDefinition
    /\ places' = <<>> /\ end' = 0 /\ align' = 1

LayoutInit ==
    /\ def = NoDefinition
    /\ places = <<>> /\ end = 0 /\ align = 1
    /\ stage = "idle"

-----------------------------------------------------------------------------
(* Properties.                                                             *)

\* The fields placed so far have aligned offsets and lie before the end; those of
\* a struct do not overlap and leave no more room than alignment asks for, those of
\* a union all start at its address (CffiStructParse, Struct.c:798-836).
FieldsInPlace == stage = "placing" =>
    /\ \A i \in DOMAIN places :
          /\ places[i].offset % FieldAlign(def.fields[i], def.pack) = 0
          /\ places[i].offset + places[i].size <= end
          /\ def.union => places[i].offset = 0
    /\ ~def.union =>
          \A i, j \in DOMAIN places :
              i < j => places[i].offset + places[i].size <= places[j].offset
    /\ ~def.union =>
          \A j \in DOMAIN places :
              LET before == IF j = 1 THEN 0 ELSE places[j - 1].offset + places[j - 1].size
              IN  places[j].offset < before + FieldAlign(def.fields[j], def.pack)
=============================================================================

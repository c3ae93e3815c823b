------------------------- MODULE DeclarationsProofs -------------------------
(***************************************************************************)
(* Proofs about declarations, for any aliases, and for annotations in any  *)
(* number and order.                                                       *)
(*                                                                         *)
(* The parser accepts annotations one by one.  Each refuses whatever       *)
(* excludes the flags it sets, so accepted types never hold two flags that *)
(* exclude each other; refusal is mutual, so the order does not matter;    *)
(* and an alias holds the flags of what was written for it, so it can be   *)
(* written out.                                                            *)
(***************************************************************************)
EXTENDS Declarations, FiniteSetTheorems, SequenceTheorems, TLAPS

\* Flags of which a type has one at most.
ExclusiveGroups ==
    {Direction, {"unsafe", "counted", "pinned"}, Disposal, {"unsafe", "dispose"},
     {"unsafe", "disposeonsuccess"}, {"storeonerror", "storealways"}}

Exclusive(x, y) == x # y /\ \E group \in ExclusiveGroups : {x, y} \subseteq group

\* The shape of a parsed type.
Typed(ta) ==
    ta \in [ok : {TRUE}, base : BaseTypes, size : Int, varsize : BOOLEAN,
            flags : SUBSET Annotations, slot : {"none", "default", "handler"}]

\* A type that parsing for every context, as for an alias, may have returned.
Clean(ta) ==
    /\ Typed(ta)
    /\ ta.base \in CharTypes => IsArray(ta)
    /\ "retval" \in ta.flags => "out" \in ta.flags
    /\ ta.base = "binary" => ~IsOutput(ta)
    /\ \A x, y \in ta.flags : ~Exclusive(x, y)

\* The flags that annots[1], ..., annots[n] set.
AddedBy(annots, n, modes) == UNION {Adds(annots[j], modes) : j \in 1 .. n}

\* The flags an annotation sets are named like annotations.
LEMMA AddsAnnotations ==
    ASSUME NEW a \in Annotations, NEW modes
    PROVE  Adds(a, modes) \subseteq Annotations
BY DEF Adds, Annotations, ParamMask, SafetyMask, Requirement, ErrorMask, Direction, Disposal

\* Clashes, with its arms kept apart by the kind of annotation.
LEMMA ClashesByGroup ==
    ASSUME NEW a \in Annotations, NEW modes
    PROVE  /\ a \in Direction => Clashes(a, modes) = Direction \ {a}
           /\ a = "retval" => Clashes(a, modes) = {"in", "inout"}
           /\ a \in SafetyMask => Clashes(a, modes) = SafetyClashes(a)
           /\ a \in Requirement => Clashes(a, modes) = Requirement
           /\ a = "storeonerror" => Clashes(a, modes) = {"storealways"}
           /\ a = "storealways" => Clashes(a, modes) = {"storeonerror"}
BY DEF Clashes, Direction, SafetyMask, Disposal, Requirement, ErrorMask

\* SafetyClashes, annotation by annotation.
LEMMA SafetyPartners ==
    /\ SafetyClashes("unsafe") = {"counted", "pinned", "dispose", "disposeonsuccess"}
    /\ SafetyClashes("counted") = {"unsafe", "pinned"}
    /\ SafetyClashes("pinned") = {"unsafe", "counted"}
    /\ SafetyClashes("dispose") = {"unsafe", "disposeonsuccess"}
    /\ SafetyClashes("disposeonsuccess") = {"unsafe", "dispose"}
BY DEF SafetyClashes, Disposal

\* Flags exclude each other as directions, safety or storing flags.
LEMMA ExclusivePartners ==
    ASSUME NEW x, NEW y, Exclusive(x, y)
    PROVE  \/ x \in Direction /\ y \in Direction \ {x}
           \/ x \in SafetyMask /\ y \in SafetyClashes(x)
           \/ x = "storeonerror" /\ y = "storealways"
           \/ x = "storealways" /\ y = "storeonerror"
<1>1. PICK group \in ExclusiveGroups : x \in group /\ y \in group /\ x # y
      BY DEF Exclusive
<1>2. CASE group = Direction
      BY <1>1, <1>2
<1>3. CASE group \in {{"unsafe", "counted", "pinned"}, Disposal, {"unsafe", "dispose"},
                      {"unsafe", "disposeonsuccess"}}
      BY <1>1, <1>3, SafetyPartners DEF SafetyMask, Disposal
<1>4. CASE group = {"storeonerror", "storealways"}
      BY <1>1, <1>4
<1> QED BY <1>1, <1>2, <1>3, <1>4 DEF ExclusiveGroups

\* An annotation refuses what excludes the flags it sets.
LEMMA RefusesExclusive ==
    ASSUME NEW a \in Annotations, NEW modes, NEW x \in Adds(a, modes), NEW y,
           Exclusive(x, y)
    PROVE  y \in Clashes(a, modes) /\ y \notin Adds(a, modes)
<1>1. \/ a = x /\ a \notin {"retval", "nullok", "default"}
      \/ a = "retval" /\ x \in {"out", "retval"} /\ Adds(a, modes) = {"out", "retval"}
      \/ x = "novaluechecks"
      BY DEF Adds, ErrorMask
<1>2. x # "novaluechecks" /\ x # "retval"
      BY ExclusivePartners DEF Direction, SafetyMask, Disposal
<1>3. CASE a = "retval"
  <2>1. y \in {"in", "inout"}
        BY <1>1, <1>2, <1>3, ExclusivePartners DEF Direction, SafetyMask, Disposal
  <2> QED BY <2>1, <1>1, <1>2, <1>3, ClashesByGroup
<1>4. CASE a # "retval"
  <2>1. a = x /\ Adds(a, modes) = {a} /\ x # y
        BY <1>1, <1>2, <1>4 DEF Adds, Exclusive
  <2> QED BY <2>1, ExclusivePartners, ClashesByGroup
<1> QED BY <1>3, <1>4

\* A binary goes in only.
LEMMA BinaryAttrs == ValidAttrs("binary") = {"in", "byref", "nullifempty", "discard"}
BY DEF ValidAttrs, StructTypes, StringTypes, CharTypes

\* Accepted annotations keep a type clean and add the flags they set, whichever
\* annotations there are and in any number (the loop in CffiTypeAndAttrsParse).
LEMMA AnnotatedShape ==
    ASSUME NEW ta, NEW annots \in Seq(Annotations), NEW modes, Clean(ta),
           Annotated(ta, annots, modes).ok
    PROVE  /\ Clean(Annotated(ta, annots, modes))
           /\ \A field \in {"base", "size", "varsize"} :
                 Annotated(ta, annots, modes)[field] = ta[field]
           /\ Annotated(ta, annots, modes).flags
                 = ta.flags \cup AddedBy(annots, Len(annots), modes)
<1> DEFINE tb == Annotated(ta, annots, modes)
           Before(i) == ta.flags \cup UNION {Adds(annots[j], modes) : j \in 1 .. (i - 1)}
<1>1. /\ \A i \in DOMAIN annots : Clashes(annots[i], modes) \cap Before(i) = {}
      /\ \E slot \in {"none", "default", "handler"} :
            tb = [ta EXCEPT !.flags = Before(Len(annots) + 1), !.slot = slot]
      BY Zenon DEF Annotated, Rejected, Clean, Typed
<1>2. PICK slot \in {"none", "default", "handler"} :
         tb = [ta EXCEPT !.flags = Before(Len(annots) + 1), !.slot = slot]
      BY <1>1
<1>3. \A i \in DOMAIN annots : annots[i] \in Annotations
      BY ElementOfSeq, LenProperties
<1>4. Len(annots) \in Nat /\ DOMAIN annots = 1 .. Len(annots) /\ Len(annots) + 1 - 1 = Len(annots)
      BY LenProperties
<1>5. Before(Len(annots) + 1) = ta.flags \cup AddedBy(annots, Len(annots), modes)
      BY <1>4 DEF AddedBy
<1>6. Before(Len(annots) + 1) \subseteq Annotations
      BY <1>3, <1>4, AddsAnnotations DEF Clean, Typed
<1>7. /\ Typed(tb) /\ tb.flags = Before(Len(annots) + 1)
      /\ tb.base = ta.base /\ tb.size = ta.size /\ tb.varsize = ta.varsize
      BY <1>2, <1>6 DEF Clean, Typed
<1>8. \A x, y \in tb.flags : ~Exclusive(x, y)
  <2> SUFFICES ASSUME NEW x \in tb.flags, NEW y \in tb.flags, Exclusive(x, y) PROVE FALSE
      OBVIOUS
  <2>1. Exclusive(y, x)
        BY DEF Exclusive
  <2>2. \A i \in 1 .. Len(annots) : \A u, v :
           u \in Adds(annots[i], modes) /\ Exclusive(u, v) =>
              v \notin Before(i) /\ v \notin Adds(annots[i], modes)
        BY <1>1, <1>3, <1>4, RefusesExclusive
  <2>3. ASSUME NEW i \in 1 .. Len(annots), NEW u, NEW v, u \in Adds(annots[i], modes),
               Exclusive(u, v), Exclusive(v, u), v \in tb.flags
        PROVE  FALSE
    <3>1. v \notin ta.flags /\ v \notin Adds(annots[i], modes)
          BY <2>2, <2>3
    <3>2. PICK j \in 1 .. Len(annots) : v \in Adds(annots[j], modes)
          BY <3>1, <2>3, <1>5, <1>7 DEF AddedBy
    <3>3. i # j
          BY <3>1, <3>2
    <3>4. CASE j < i
      <4>1. j \in 1 .. (i - 1)
            BY <3>4, <1>4
      <4> QED BY <4>1, <3>2, <2>2, <2>3
    <3>5. CASE i < j
      <4>1. i \in 1 .. (j - 1)
            BY <3>5, <1>4
      <4> QED BY <4>1, <3>2, <2>2, <2>3
    <3> QED BY <3>3, <3>4, <3>5, <1>4
  <2>4. x \in ta.flags /\ y \in ta.flags
        BY <2>1, <2>3, <1>5, <1>7 DEF AddedBy
  <2> QED BY <2>4 DEF Clean
<1>9. "retval" \in tb.flags => "out" \in tb.flags
  <2>1. ASSUME NEW j \in 1 .. Len(annots), "retval" \in Adds(annots[j], modes)
        PROVE  "out" \in Adds(annots[j], modes)
        BY <2>1, <1>3, <1>4 DEF Adds
  <2> QED BY <2>1, <1>5, <1>7 DEF AddedBy, Clean
<1>10. ta.base = "binary" => ~IsOutput(tb)
  <2> SUFFICES ASSUME ta.base = "binary" PROVE ~IsOutput(tb)
      OBVIOUS
  <2>1. \A i \in DOMAIN annots : Suitable(ta, annots[i], modes)
        BY Zenon DEF Annotated, Rejected
  <2>2. \A i \in DOMAIN annots :
           annots[i] \in {"in", "byref", "nullifempty", "discard", "default", "nullok"}
        BY <2>1, BinaryAttrs DEF Suitable
  <2>3. \A i \in 1 .. Len(annots) : Adds(annots[i], modes) \cap {"out", "inout"} = {}
        BY <2>2, <1>4 DEF Adds, ErrorMask
  <2>4. ta.flags \cap {"out", "inout"} = {}
        BY DEF Clean, IsOutput
  <2>5. tb.flags = ta.flags \cup UNION {Adds(annots[i], modes) : i \in 1 .. Len(annots)}
        BY <1>5, <1>7 DEF AddedBy
  <2> HIDE DEF tb
  <2>6. tb.flags \cap {"out", "inout"} = {}
        BY <2>3, <2>4, <2>5
  <2> QED BY <2>6 DEF IsOutput
<1>11. Clean(tb)
      BY <1>7, <1>8, <1>9, <1>10 DEF Clean, IsArray
<1> QED BY <1>5, <1>7, <1>11

\* Sets of contexts are told apart by their members.
LEMMA ContextsDiffer ==
    /\ {"param"} # {"return"} /\ {"param"} # {"field"} /\ {"return"} # {"field"}
    /\ AllModes \notin Contexts
BY DEF AllModes, Contexts

LEMMA InEachContext ==
    ASSUME NEW ta
    PROVE  /\ InContext(ta, {"param"}) = ParamParse(ta)
           /\ InContext(ta, {"return"}) = ReturnParse(ta)
           /\ InContext(ta, {"field"}) = FieldParse(ta)
           /\ InContext(ta, AllModes) = ta
BY ContextsDiffer DEF InContext, Contexts

\* What it means for parameters that no two flags exclude each other.
LEMMA NotTogether ==
    ASSUME NEW flags, \A x, y \in flags : ~Exclusive(x, y)
    PROVE  /\ \A x, y \in flags \cap Direction : x = y
           /\ flags \cap Disposal # {} => "unsafe" \notin flags
           /\ \A mask \in {{"unsafe", "counted"}, {"unsafe", "pinned"}, {"counted", "pinned"},
                           Disposal, {"storeonerror", "storealways"}} : ~(mask \subseteq flags)
<1>1. \A group \in ExclusiveGroups : \A x, y \in flags \cap group : x = y
      BY DEF Exclusive
<1>2. \A x, y \in flags \cap Direction : x = y
      BY <1>1 DEF ExclusiveGroups
<1>3. ASSUME NEW x, NEW y, x # y, NEW group \in ExclusiveGroups, {x, y} \subseteq group
      PROVE  ~({x, y} \subseteq flags)
      BY <1>1, <1>3
<1>4. /\ ~({"unsafe", "counted"} \subseteq flags) /\ ~({"unsafe", "pinned"} \subseteq flags)
      /\ ~({"counted", "pinned"} \subseteq flags) 
  <2>1. {"unsafe", "counted", "pinned"} \in ExclusiveGroups
        BY DEF ExclusiveGroups
  <2> QED BY <1>3, <2>1
<1>5. ~(Disposal \subseteq flags)
  <2>1. Disposal \in ExclusiveGroups /\ Disposal = {"dispose", "disposeonsuccess"}
        BY DEF ExclusiveGroups, Disposal
  <2> QED BY <1>3, <2>1
<1>6. ~({"storeonerror", "storealways"} \subseteq flags)
  <2>1. {"storeonerror", "storealways"} \in ExclusiveGroups
        BY DEF ExclusiveGroups
  <2> QED BY <1>3, <2>1
<1>7. flags \cap Disposal # {} => "unsafe" \notin flags
  <2>1. {"unsafe", "dispose"} \in ExclusiveGroups /\ {"unsafe", "disposeonsuccess"} \in ExclusiveGroups
        BY DEF ExclusiveGroups
  <2>2. ~({"unsafe", "dispose"} \subseteq flags) /\ ~({"unsafe", "disposeonsuccess"} \subseteq flags)
        BY <1>3, <2>1
  <2> QED BY <2>2 DEF Disposal
<1> QED BY <1>2, <1>4, <1>5, <1>6, <1>7

\* A clean type that is accepted for a parameter meets the assertions made there.
LEMMA ParamUsable ==
    ASSUME NEW ta, Clean(ta), ParamParse(ta).ok
    PROVE  /\ Prepared(ParamParse(ta))
           /\ ParamParse(ta).base = ta.base /\ ParamParse(ta).size = ta.size
<1> DEFINE tb == ParamParse(ta)
<1>1. ta.flags \subseteq Annotations /\ ta.ok = TRUE
      BY DEF Clean, Typed
<1>2. /\ \A x, y \in ta.flags \cap Direction : x = y
      /\ ta.flags \cap Disposal # {} => "unsafe" \notin ta.flags
      /\ \A mask \in {{"unsafe", "counted"}, {"unsafe", "pinned"}, {"counted", "pinned"},
                      Disposal, {"storeonerror", "storealways"}} : ~(mask \subseteq ta.flags)
      BY NotTogether DEF Clean
<1>3. /\ ta.base \in CharTypes => IsArray(ta)
      /\ "retval" \in ta.flags => "out" \in ta.flags
      /\ ta.base = "binary" => ~IsOutput(ta)
      BY DEF Clean
<1>4. ASSUME NEW more, tb.flags = ta.flags \cup more, more \subseteq {"byref", "nullifempty", "in"},
             tb.base = ta.base, tb.size = ta.size,
             "in" \in more <=> ~IsOutput(ta),
             IsOutput(ta) => "byref" \in more /\ ~("out" \in ta.flags /\ ta.flags \cap Disposal # {}),
             IsArray(ta) => "byref" \in more,
             ta.base = "uuid" => "byref" \in tb.flags,
             ta.base \in StructTypes /\ "nullifempty" \in tb.flags => "byref" \in tb.flags
      PROVE  Prepared(tb) /\ tb.base = ta.base /\ tb.size = ta.size
  <2>1. \A mask \in {{"unsafe", "counted"}, {"unsafe", "pinned"}, {"counted", "pinned"},
                     Disposal, {"storeonerror", "storealways"}} : ~(mask \subseteq tb.flags)
    <3>1. \A mask : mask \cap {"byref", "nullifempty", "in"} = {} /\ mask \subseteq tb.flags
                       => mask \subseteq ta.flags
          BY <1>4
    <3> QED BY <3>1, <1>2 DEF Disposal
  <2>2. \E dir \in Direction : Directions(tb) = {dir}
    <3>1. CASE IsOutput(ta)
      <4>1. Directions(tb) = ta.flags \cap Direction
            BY <1>4, <3>1 DEF Directions, Direction
      <4>2. PICK dir \in {"out", "inout"} : dir \in ta.flags
            BY <3>1 DEF IsOutput
      <4> QED BY <4>1, <4>2, <1>2 DEF Direction
    <3>2. CASE ~IsOutput(ta)
          BY <1>4, <3>2 DEF Directions, Direction, IsOutput
    <3> QED BY <3>1, <3>2
  <2>3. IsOutput(tb) <=> IsOutput(ta)
        BY <1>4 DEF IsOutput
  <2>4. IsArray(tb) <=> IsArray(ta)
        BY <1>4 DEF IsArray
  <2>5. IsOutput(tb) \/ IsArray(tb) \/ tb.base \in CharTypes \cup {"uuid"} => "byref" \in tb.flags
        BY <2>3, <2>4, <1>3, <1>4
  <2>6. "retval" \in tb.flags => "out" \in tb.flags
        BY <1>3, <1>4
  <2>7. tb.flags \cap Disposal # {} => tb.flags \cap {"out", "unsafe"} = {}
        BY <1>2, <1>4 DEF Disposal, IsOutput
  <2>8. tb.base \in StructTypes /\ "nullifempty" \in tb.flags => "byref" \in tb.flags
        BY <1>4
  <2>9. tb.base = "binary" => "in" \in tb.flags
        BY <1>3, <1>4
  <2> QED BY <1>4, <2>1, <2>2, <2>5, <2>6, <2>7, <2>8, <2>9 DEF Prepared
<1>5. CASE IsOutput(ta)
  <2>1. /\ tb = [ta EXCEPT !.flags = @ \cup {"byref"}]
        /\ ~("out" \in ta.flags /\ ta.flags \cap Disposal # {})
        BY <1>5 DEF ParamParse, Rejected
  <2>2. tb.flags = ta.flags \cup {"byref"} /\ tb.base = ta.base /\ tb.size = ta.size
        BY <2>1 DEF Clean, Typed
  <2>3. "byref" \in tb.flags
        BY <2>2
  <2> QED BY <1>4, <1>5, <2>1, <2>2, <2>3
<1>6. CASE ~IsOutput(ta)
  <2>1. /\ tb = [ta EXCEPT !.flags = InFlags(ta)]
        /\ ~("byref" \notin InFlags(ta) /\ ta.base = "uuid")
        /\ ~("byref" \notin InFlags(ta) /\ ta.base \in StructTypes /\ "nullifempty" \in ta.flags)
        BY <1>6 DEF ParamParse, Rejected
  <2>2. tb.flags = InFlags(ta) /\ tb.base = ta.base /\ tb.size = ta.size
        BY <2>1 DEF Clean, Typed
  <2> DEFINE more == {"in"} \cup (IF IsArray(ta) THEN {"byref"} ELSE {})
                       \cup (IF ta.base = "binary" /\ ~IsArray(ta) THEN {"nullifempty"} ELSE {})
  <2>3. InFlags(ta) = ta.flags \cup more
        BY DEF InFlags
  <2>4. more \subseteq {"byref", "nullifempty", "in"} /\ "in" \in more /\ (IsArray(ta) => "byref" \in more)
        OBVIOUS
  <2>5. "nullifempty" \in more => ta.base \notin StructTypes
        BY DEF StructTypes
  <2> HIDE DEF more
  <2> QED BY <1>4, <1>6, <2>1, <2>2, <2>3, <2>4, <2>5
<1> QED BY <1>5, <1>6

\* One that is accepted for a return type has no direction.
LEMMA ReturnUsable ==
    ASSUME NEW ta, Clean(ta), AllowedIn(ta, {"return"}), ReturnParse(ta).ok
    PROVE  Directions(ReturnParse(ta)) = {}
<1>1. \A flag \in Direction : AttrModes(flag) = {"param"}
      BY DEF AttrModes, Direction, ParamMask, Disposal, Requirement
<1>2. ReturnParse(ta) = ta
      BY DEF ReturnParse, Rejected
<1> QED BY <1>1, <1>2 DEF AllowedIn, Directions

\* One that is accepted for a field has no parameter annotations.
LEMMA FieldUsable ==
    ASSUME NEW ta, Clean(ta), AllowedIn(ta, {"field"}), FieldParse(ta).ok
    PROVE  FieldParse(ta).flags \cap ParamMask = {}
<1>1. \A flag \in ParamMask : AttrModes(flag) \subseteq {"param", "return"}
      BY DEF AttrModes, Direction, ParamMask, Disposal, Requirement
<1>2. ta.flags \cap ParamMask = {}
      BY <1>1 DEF AllowedIn
<1>3. \/ FieldParse(ta) = ta
      \/ FieldParse(ta) = [ta EXCEPT !.flags = (@ \ SafetyMask) \cup {"unsafe"}]
      BY DEF FieldParse, Rejected
<1>4. FieldParse(ta).flags \subseteq ta.flags \cup {"unsafe"}
      BY <1>3 DEF Clean, Typed
<1>5. "unsafe" \notin ParamMask
      BY DEF ParamMask, Direction
<1> QED BY <1>2, <1>4, <1>5

\* How a declaration is accepted.
LEMMA DeclareSteps ==
    ASSUME NEW ta, NEW annots, NEW modes, Declare(ta, annots, modes).ok
    PROVE  LET tb == Annotated(ta, annots, modes)
           IN /\ ta.ok /\ tb.ok
              /\ NullIfEmptyAllowed(tb) /\ AllowedIn(tb, modes)
              /\ Declare(ta, annots, modes) = InContext(tb, modes)
              /\ InContext(tb, modes).ok /\ ReferenceChecked(InContext(tb, modes))
BY DEF Declare, Rejected

\* A declaration is accepted or it is Rejected.
LEMMA DeclareRejects ==
    ASSUME NEW ta, NEW annots, NEW modes
    PROVE  Declare(ta, annots, modes) = Rejected
           \/ Declare(ta, annots, modes).ok
BY DEF Declare, Rejected

\* So any declaration of a clean type is usable in its context.
LEMMA DeclareUsable ==
    ASSUME NEW ta, Clean(ta), NEW annots \in Seq(Annotations), NEW modes,
           Declare(ta, annots, modes).ok
    PROVE  /\ modes = {"param"}  =>
                 /\ Prepared(Declare(ta, annots, modes))
                 /\ ArrayOfVariable(Declare(ta, annots, modes)) => ArrayOfVariable(ta)
           /\ modes = {"return"} => Directions(Declare(ta, annots, modes)) = {}
           /\ modes = {"field"}  => Declare(ta, annots, modes).flags \cap ParamMask = {}
           /\ modes = AllModes   => Clean(Declare(ta, annots, modes))
<1> DEFINE tb == Annotated(ta, annots, modes)
<1>1. /\ tb.ok /\ AllowedIn(tb, modes)
      /\ Declare(ta, annots, modes) = InContext(tb, modes) /\ InContext(tb, modes).ok
      BY DeclareSteps
<1>2. Clean(tb) /\ tb.base = ta.base /\ tb.size = ta.size
  <2>1. Clean(tb) /\ \A field \in {"base", "size", "varsize"} : tb[field] = ta[field]
        BY <1>1, AnnotatedShape
  <2>2. tb["base"] = ta["base"] /\ tb["size"] = ta["size"]
        BY <2>1
  <2> QED BY <2>1, <2>2
<1> HIDE DEF tb
<1>3. CASE modes = {"param"}
  <2>1. Declare(ta, annots, modes) = ParamParse(tb) /\ ParamParse(tb).ok /\ AllowedIn(tb, {"param"})
        BY <1>1, <1>3, InEachContext
  <2>2. /\ Prepared(ParamParse(tb))
        /\ ParamParse(tb).base = ta.base /\ ParamParse(tb).size = ta.size
        BY <1>2, <2>1, ParamUsable
  <2>3. ArrayOfVariable(ParamParse(tb)) => ArrayOfVariable(ta)
        BY <2>2 DEF ArrayOfVariable, IsArray
  <2> QED BY <1>3, <2>1, <2>2, <2>3, ContextsDiffer DEF Contexts
<1>4. CASE modes = {"return"}
  <2>1. Declare(ta, annots, modes) = ReturnParse(tb) /\ ReturnParse(tb).ok /\ AllowedIn(tb, {"return"})
        BY <1>1, <1>4, InEachContext
  <2> QED BY <1>2, <1>4, <2>1, ReturnUsable, ContextsDiffer DEF Contexts
<1>5. CASE modes = {"field"}
  <2>1. Declare(ta, annots, modes) = FieldParse(tb) /\ FieldParse(tb).ok /\ AllowedIn(tb, {"field"})
        BY <1>1, <1>5, InEachContext
  <2> QED BY <1>2, <1>5, <2>1, FieldUsable, ContextsDiffer DEF Contexts
<1>6. CASE modes = AllModes
      BY <1>1, <1>2, <1>6, InEachContext, ContextsDiffer DEF Contexts
<1> QED BY <1>3, <1>4, <1>5, <1>6

\* Aliases are clean types.
AliasesClean ==
    /\ aliases = [n \in AliasName |-> aliases[n]]
    /\ \A n \in AliasName : aliases[n] = Rejected \/ Clean(aliases[n])

\* What CffiTypeParse accepts is clean.
LEMMA CleanBase ==
    ASSUME NEW base \in BaseTypes, NEW size \in Int, TypeParse(base, size).ok
    PROVE  Clean(TypeParse(base, size)) /\ ~ArrayOfVariable(TypeParse(base, size))
<1>1. /\ TypeParse(base, size) = Parsed(base, size, base = "vstruct" \/ size = VLA, {}, "none")
      /\ ~(base \in CharTypes /\ size = Scalar)
      /\ ~(base = "vstruct" /\ size # Scalar)
      BY DEF TypeParse, Rejected
<1>2. Typed(TypeParse(base, size))
      BY <1>1 DEF Parsed, Typed
<1> QED BY <1>1, <1>2 DEF Clean, IsArray, IsOutput, ArrayOfVariable, Parsed

\* A clean alias stays clean with a size (CffiAliasGet).
LEMMA CleanAlias ==
    ASSUME NEW ta, Clean(ta), NEW size \in Int
    PROVE  Clean(AliasGet(ta, size))
<1>1. CASE size = Scalar
      BY <1>1 DEF AliasGet
<1>2. CASE size # Scalar
  <2> DEFINE tb == AliasGet(ta, size)
  <2>1. tb = [ta EXCEPT !.size = size, !.varsize = ta.varsize \/ size = VLA]
        BY <1>2 DEF AliasGet
  <2>2. Typed(tb) /\ tb.size = size /\ tb.flags = ta.flags
        BY <2>1 DEF Clean, Typed
  <2>3. tb.base = ta.base
        BY <2>1 DEF Clean, Typed
  <2> QED BY <2>2, <2>3, <1>2 DEF Clean, IsArray, IsOutput
<1> QED BY <1>1, <1>2

\* Hence the type a declaration starts with is clean.
LEMMA CleanType ==
    ASSUME NEW d \in DeclSyntax, AliasesClean, TypeOf(d).ok
    PROVE  Clean(TypeOf(d)) /\ (ArrayOfVariable(TypeOf(d)) => IsAlias(d.type))
BY CleanBase, CleanAlias DEF DeclSyntax, TypeOf, IsAlias, AliasesClean, Defined, Rejected

\* Hence what a declaration means is usable, with aliases or without.
LEMMA MeaningUsable ==
    ASSUME NEW d \in DeclSyntax, NEW modes, AliasesClean, Meaning(d, modes).ok
    PROVE  /\ modes = {"param"}  =>
                 /\ Prepared(Meaning(d, modes))
                 /\ ArrayOfVariable(Meaning(d, modes)) => IsAlias(d.type)
           /\ modes = {"return"} => Directions(Meaning(d, modes)) = {}
           /\ modes = {"field"}  => Meaning(d, modes).flags \cap ParamMask = {}
           /\ modes = AllModes   => Clean(Meaning(d, modes))
<1>1. TypeOf(d).ok
      BY DeclareSteps DEF Meaning
<1>2. d.annots \in Seq(Annotations)
      BY DEF DeclSyntax
<1> QED BY <1>1, <1>2, CleanType, DeclareUsable DEF Meaning

\* The latest declaration was parsed with the aliases there are.
LatestParsed ==
    /\ latest.decl \in DeclSyntax
    /\ latest.modes \in Contexts
    /\ latest = Nothing \/ latest.meaning = Meaning(latest.decl, latest.modes)

DeclInv == AliasesClean /\ LatestParsed

\* Where there is no latest declaration it has the shape of one.
LEMMA NothingSyntax == Nothing.decl \in DeclSyntax /\ Nothing.modes \in Contexts
<1>1. NoDecl \in DeclSyntax
      BY DEF NoDecl, DeclSyntax, BaseTypes, Scalar
<1> QED BY <1>1 DEF Nothing, Contexts

\* Whatever aliases are defined and deleted, they are clean types: CffiAliasAdd
\* parses them for every context.
THEOREM DeclarationsInvariant == DeclSpec => []DeclInv
<1>1. DeclInit => DeclInv
      BY NothingSyntax DEF DeclInit, DeclInv, AliasesClean, LatestParsed
<1>2. DeclInv /\ [DeclNext]_declVars => DeclInv'
  <2> SUFFICES ASSUME DeclInv, [DeclNext]_declVars PROVE DeclInv'
      OBVIOUS
  <2>1. ASSUME NEW n \in AliasName, NEW d \in AliasDecls[n], AliasAdd(n, d)
        PROVE  DeclInv'
    <3>1. d \in DeclSyntax
          BY DeclarationsAssumption
    <3>2. Clean(Meaning(d, AllModes))
          BY <2>1, <3>1, MeaningUsable DEF AliasAdd, DeclInv
    <3>3. aliases' = [aliases EXCEPT ![n] = Meaning(d, AllModes)] /\ latest' = Nothing
          BY <2>1 DEF AliasAdd
    <3>4. AliasesClean'
          BY <3>2, <3>3 DEF DeclInv, AliasesClean
    <3>5. LatestParsed'
          BY <3>3, NothingSyntax DEF LatestParsed
    <3> QED BY <3>4, <3>5 DEF DeclInv
  <2>2. ASSUME NEW names \in SUBSET AliasName, AliasDelete(names)
        PROVE  DeclInv'
    <3>1. /\ aliases' = [n \in AliasName |-> IF n \in names THEN Rejected ELSE aliases[n]]
          /\ latest' = Nothing
          BY <2>2 DEF AliasDelete
    <3>2. AliasesClean'
          BY <3>1 DEF DeclInv, AliasesClean
    <3>3. LatestParsed'
          BY <3>1, NothingSyntax DEF LatestParsed
    <3> QED BY <3>2, <3>3 DEF DeclInv
  <2>3. ASSUME NEW d \in Decls, NEW modes \in Contexts, Parse(d, modes)
        PROVE  DeclInv'
    <3>1. /\ latest' = [decl |-> d, modes |-> modes, meaning |-> Meaning(d, modes)]
          /\ aliases' = aliases
          BY <2>3 DEF Parse
    <3>2. d \in DeclSyntax
          BY DeclarationsAssumption
    <3>3. Meaning(d, modes)' = Meaning(d, modes)
          BY <3>1 DEF Meaning, TypeOf, Defined
    <3>4. LatestParsed'
          BY <3>1, <3>2, <3>3 DEF LatestParsed
    <3> QED BY <3>1, <3>4 DEF DeclInv, AliasesClean
  <2>4. CASE UNCHANGED declVars
    <3>1. Meaning(latest.decl, latest.modes)' = Meaning(latest.decl, latest.modes)
          BY <2>4 DEF declVars, Meaning, TypeOf, Defined
    <3> QED BY <2>4, <3>1 DEF declVars, DeclInv, AliasesClean, LatestParsed
  <2> QED BY <2>1, <2>2, <2>3, <2>4 DEF DeclNext
<1> QED BY <1>1, <1>2, PTL DEF DeclSpec

\* Every accepted declaration meets the assertions of the code that uses it
\* (CffiArgPrepare, and the parser itself), for any annotations and aliases, but
\* for arrays of structs of variable size, which only an alias can amount to.
THEOREM AcceptedUsable == DeclSpec => []AcceptedIsUsable
<1>1. DeclInv => AcceptedIsUsable
  <2> SUFFICES ASSUME DeclInv, latest.meaning.ok PROVE AcceptedIsUsable
      BY DEF AcceptedIsUsable
  <2>1. latest # Nothing
        BY DEF Nothing, Rejected
  <2> QED BY <2>1, MeaningUsable DEF DeclInv, LatestParsed, AcceptedIsUsable, ReadyForCall
<1> QED BY <1>1, DeclarationsInvariant, PTL

-----------------------------------------------------------------------------

\* The annotations in a sequence.
GivenIn(annots) == {annots[i] : i \in DOMAIN annots}

\* An annotation that checks that there is no default or onerror yet.
NeedsSlot(annot, modes) == TakesSlot(annot, modes) \/ annot = "structsize"

\* Annotation a refuses annotation b when b comes before it.
Refuses(a, b, modes) ==
    \/ Clashes(a, modes) \cap Adds(b, modes) # {}
    \/ NeedsSlot(a, modes) /\ TakesSlot(b, modes)

\* What an annotation asks of the type alone.
SuitsType(ta, a, modes) ==
    /\ Suitable(ta, a, modes)
    /\ Clashes(a, modes) \cap ta.flags = {}
    /\ NeedsSlot(a, modes) => ta.slot = "none"

\* Each annotation suits the type and refuses none before it.
Accepts(ta, annots, modes) ==
    \A i \in DOMAIN annots :
        /\ SuitsType(ta, annots[i], modes)
        /\ \A j \in 1 .. (i - 1) : ~Refuses(annots[i], annots[j], modes)

\* The flags that a set of annotations sets.
AddedByAll(given, modes) == UNION {Adds(a, modes) : a \in given}

\* A type with a set of annotations.
With(ta, given, modes) ==
    [ta EXCEPT !.flags = ta.flags \cup AddedByAll(given, modes),
               !.slot = IF ta.slot # "none" \/ ~(\E a \in given : TakesSlot(a, modes))
                        THEN ta.slot
                        ELSE IF "onerror" \in ta.flags \cup AddedByAll(given, modes)
                             THEN "handler" ELSE "default"]

\* The loop over the annotations, without its order.
LEMMA AnnotatedAs ==
    ASSUME NEW ta, NEW modes, NEW annots \in Seq(Annotations)
    PROVE  Annotated(ta, annots, modes)
              = IF Accepts(ta, annots, modes) THEN With(ta, GivenIn(annots), modes) ELSE Rejected
<1> DEFINE Before(i) == 1 .. (i - 1)
           Flags(i)  == ta.flags \cup UNION {Adds(annots[j], modes) : j \in Before(i)}
           Taken(i)  == ta.slot # "none" \/ (\E j \in Before(i) : TakesSlot(annots[j], modes))
           Last      == Len(annots) + 1
           Fits      == \A i \in DOMAIN annots :
                           /\ Suitable(ta, annots[i], modes)
                           /\ Clashes(annots[i], modes) \cap Flags(i) = {}
                           /\ TakesSlot(annots[i], modes) \/ annots[i] = "structsize" => ~Taken(i)
           Result    == [ta EXCEPT !.flags = Flags(Last),
                                   !.slot = IF ta.slot # "none" \/ ~Taken(Last) THEN ta.slot
                                            ELSE IF "onerror" \in Flags(Last) THEN "handler"
                                            ELSE "default"]
<1>1. Annotated(ta, annots, modes) = IF Fits THEN Result ELSE Rejected
      BY DEF Annotated
<1>2. Fits <=> Accepts(ta, annots, modes)
  <2> SUFFICES ASSUME NEW i \in DOMAIN annots
               PROVE  /\ Suitable(ta, annots[i], modes)
                      /\ Clashes(annots[i], modes) \cap Flags(i) = {}
                      /\ TakesSlot(annots[i], modes) \/ annots[i] = "structsize" => ~Taken(i)
                      <=> /\ SuitsType(ta, annots[i], modes)
                          /\ \A j \in 1 .. (i - 1) : ~Refuses(annots[i], annots[j], modes)
      BY DEF Accepts
  <2>1. Clashes(annots[i], modes) \cap Flags(i) = {}
           <=> /\ Clashes(annots[i], modes) \cap ta.flags = {}
               /\ \A j \in 1 .. (i - 1) :
                     Clashes(annots[i], modes) \cap Adds(annots[j], modes) = {}
      OBVIOUS
  <2> QED BY <2>1, Zenon DEF SuitsType, Refuses, NeedsSlot
<1>3. Before(Last) = DOMAIN annots
      BY LenProperties
<1>4. Flags(Last) = ta.flags \cup AddedByAll(GivenIn(annots), modes)
      BY <1>3 DEF AddedByAll, GivenIn
<1>5. Taken(Last) <=> ta.slot # "none" \/ \E a \in GivenIn(annots) : TakesSlot(a, modes)
      BY <1>3 DEF GivenIn
<1> HIDE DEF Flags, Taken, Last, Fits
<1>6. Result = With(ta, GivenIn(annots), modes)
      BY <1>4, <1>5 DEF With
<1> QED BY <1>1, <1>2, <1>6

\* What an annotation refuses refuses it: the clashes are checked from both sides.
LEMMA ClashMutual ==
    ASSUME NEW a \in Annotations, NEW b \in Annotations, NEW modes,
           Clashes(a, modes) \cap Adds(b, modes) # {}
    PROVE  Clashes(b, modes) \cap Adds(a, modes) # {} \/ (a = "default" /\ b = "structsize")
<1>1. PICK x : x \in Clashes(a, modes) /\ x \in Adds(b, modes)
      OBVIOUS
<1>2. \/ b = x /\ b \notin {"retval", "nullok", "default"}
      \/ b = "retval" /\ x \in {"out", "retval"}
      \/ x = "novaluechecks"
      BY <1>1 DEF Adds, ErrorMask
<1>3. CASE a \in Direction
  <2>1. Adds(a, modes) = {a}
        BY <1>3 DEF Adds, Direction, ErrorMask
  <2>2. b \in Direction \ {a} \/ (b = "retval" /\ a \in {"in", "inout"})
        BY <1>1, <1>2, <1>3, ClashesByGroup DEF Direction
  <2> QED BY <2>1, <2>2, <1>3, ClashesByGroup
<1>4. CASE a = "retval"
  <2>1. Adds(a, modes) = {"out", "retval"}
        BY <1>4 DEF Adds, ErrorMask
  <2>3. b \in {"in", "inout"}
        BY <1>1, <1>2, <1>4, ClashesByGroup
  <2>2. "out" \in Clashes(b, modes)
        BY <2>3, ClashesByGroup DEF Direction
  <2> QED BY <2>1, <2>2
<1>5. CASE a \in SafetyMask
  <2>1. Adds(a, modes) = {a}
        BY <1>5 DEF Adds, SafetyMask, Disposal, ErrorMask
  <2>2. b \in SafetyClashes(a) /\ b \in SafetyMask
        BY <1>1, <1>2, <1>5, ClashesByGroup, SafetyPartners DEF SafetyMask, Disposal
  <2>3. a \in SafetyClashes(b)
        BY <1>5, <2>2, SafetyPartners DEF SafetyMask, Disposal
  <2> QED BY <2>1, <2>2, <2>3, ClashesByGroup
<1>6. CASE a \in Requirement
  <2>1. Adds(a, modes) = {a}
        BY <1>6 DEF Adds, Requirement, ErrorMask
  <2>2. b \in Requirement
        BY <1>1, <1>2, <1>6, ClashesByGroup DEF Requirement
  <2> QED BY <2>1, <2>2, <1>6, ClashesByGroup
<1>7. CASE a \in {"storeonerror", "storealways"}
  <2>1. Adds(a, modes) = {a}
        BY <1>7 DEF Adds, ErrorMask
  <2>2. b \in {"storeonerror", "storealways"} /\ b # a
        BY <1>1, <1>2, <1>7, ClashesByGroup
  <2> QED BY <2>1, <2>2, <1>7, ClashesByGroup
<1>8. CASE /\ a \notin Direction \cup SafetyMask \cup Requirement
           /\ a \notin {"retval", "storeonerror", "storealways"}
  <2>1. \/ a \in ErrorMask /\ "return" \in modes /\ Clashes(a, modes) = ErrorMask
        \/ a = "enum" /\ Clashes(a, modes) = {"enum"}
        \/ a = "default" /\ Clashes(a, modes) = {"structsize"}
        BY <1>1, <1>8 DEF Clashes, ErrorMask
  <2>2. CASE a \in ErrorMask /\ "return" \in modes /\ Clashes(a, modes) = ErrorMask
    <3>1. b \in ErrorMask /\ Adds(a, modes) = {a}
          BY <1>1, <1>2, <2>2 DEF ErrorMask, Adds
    <3>2. Clashes(b, modes) = ErrorMask
          BY <3>1, <2>2 DEF Clashes, ErrorMask, Direction, SafetyMask, Disposal, Requirement
    <3> QED BY <3>1, <3>2, <2>2
  <2>3. CASE a = "enum" /\ Clashes(a, modes) = {"enum"}
        BY <1>1, <1>2, <2>3
  <2>4. CASE a = "default" /\ Clashes(a, modes) = {"structsize"}
        BY <1>1, <1>2, <2>4
  <2> QED BY <2>1, <2>2, <2>3, <2>4
<1> QED BY <1>3, <1>4, <1>5, <1>6, <1>7, <1>8

\* Annotations that suit a type refuse each other or not at all; in a return type
\* the one exception is structsize, which is refused there in any case.
LEMMA RefusalMutual ==
    ASSUME NEW a \in Annotations, NEW b \in Annotations, NEW modes \in Contexts, NEW ta,
           Suitable(ta, a, modes), Suitable(ta, b, modes), Refuses(a, b, modes),
           ~(modes = {"return"} /\ "structsize" \in {a, b})
    PROVE  Refuses(b, a, modes)
<1>1. CASE Clashes(a, modes) \cap Adds(b, modes) # {}
  <2>1. CASE a = "default" /\ b = "structsize"
        BY <2>1 DEF Refuses, NeedsSlot, TakesSlot
  <2> QED BY <1>1, <2>1, ClashMutual DEF Refuses
<1>2. CASE NeedsSlot(a, modes) /\ TakesSlot(b, modes)
  <2>1. CASE TakesSlot(a, modes)
        BY <1>2, <2>1 DEF Refuses, NeedsSlot
  <2>2. CASE a = "structsize" /\ b = "default"
    <3>1. Clashes(b, modes) = {"structsize"} /\ Adds(a, modes) = {"structsize"}
          BY <2>2 DEF Clashes, Adds, ErrorMask, Direction, SafetyMask, Disposal, Requirement
    <3> QED BY <3>1 DEF Refuses
  <2>3. CASE a = "structsize" /\ b # "default"
    <3>1. "return" \in modes
          BY <1>2, <2>3 DEF TakesSlot
    <3>2. modes = {"return"}
          BY <3>1 DEF Contexts
    <3> QED BY <3>2, <2>3
  <2> QED BY <1>2, <2>1, <2>2, <2>3 DEF NeedsSlot
<1> QED BY <1>1, <1>2 DEF Refuses

\* Acceptance that does not look at the order.
AcceptsAny(ta, annots, modes) ==
    /\ \A i \in DOMAIN annots : SuitsType(ta, annots[i], modes)
    /\ \A i, j \in DOMAIN annots : i # j => ~Refuses(annots[i], annots[j], modes)

\* Because refusal is mutual, that is how annotations are accepted.
LEMMA AcceptsInAnyOrder ==
    ASSUME NEW ta, NEW modes \in Contexts, NEW annots \in Seq(Annotations),
           ~(modes = {"return"} /\ "structsize" \in GivenIn(annots))
    PROVE  Accepts(ta, annots, modes) <=> AcceptsAny(ta, annots, modes)
<1>1. /\ DOMAIN annots = 1 .. Len(annots) /\ Len(annots) \in Nat
      /\ \A i \in DOMAIN annots : annots[i] \in Annotations /\ annots[i] \in GivenIn(annots)
      BY LenProperties, ElementOfSeq DEF GivenIn
<1>2. ASSUME AcceptsAny(ta, annots, modes) PROVE Accepts(ta, annots, modes)
      BY <1>1, <1>2 DEF Accepts, AcceptsAny
<1>3. ASSUME Accepts(ta, annots, modes) PROVE AcceptsAny(ta, annots, modes)
  <2>1. \A i \in DOMAIN annots : SuitsType(ta, annots[i], modes)
        BY <1>3 DEF Accepts
  <2>2. ASSUME NEW i \in DOMAIN annots, NEW j \in DOMAIN annots, i # j,
               Refuses(annots[i], annots[j], modes)
        PROVE  FALSE
    <3>1. Refuses(annots[j], annots[i], modes)
          BY <1>1, <2>1, <2>2, RefusalMutual DEF SuitsType
    <3>2. CASE j < i
      <4>1. j \in 1 .. (i - 1)
            BY <3>2, <1>1
      <4> QED BY <4>1, <2>2, <1>3 DEF Accepts
    <3>3. CASE i < j
      <4>1. i \in 1 .. (j - 1)
            BY <3>3, <1>1
      <4> QED BY <4>1, <3>1, <1>3 DEF Accepts
    <3> QED BY <3>2, <3>3, <2>2, <1>1
  <2> QED BY <2>1, <2>2 DEF AcceptsAny
<1> QED BY <1>2, <1>3

\* No return type has the annotation structsize (its modes in cffiAttrs).
LEMMA StructSizeNotReturned ==
    ASSUME NEW ta, Clean(ta), NEW annots \in Seq(Annotations), "structsize" \in GivenIn(annots)
    PROVE  Declare(ta, annots, {"return"}) = Rejected
<1> SUFFICES ASSUME Declare(ta, annots, {"return"}).ok PROVE FALSE
    BY DeclareRejects
<1> DEFINE tb == Annotated(ta, annots, {"return"})
<1>1. tb.ok /\ AllowedIn(tb, {"return"})
      BY DeclareSteps
<1>2. tb.flags = ta.flags \cup AddedBy(annots, Len(annots), {"return"})
      BY <1>1, AnnotatedShape
<1>3. PICK i \in 1 .. Len(annots) : annots[i] = "structsize"
      BY LenProperties DEF GivenIn
<1>4. "structsize" \in Adds(annots[i], {"return"})
      BY <1>3 DEF Adds, ErrorMask
<1>5. "structsize" \in tb.flags
      BY <1>2, <1>3, <1>4 DEF AddedBy
<1>6. AttrModes("structsize") = {"field"}
      BY DEF AttrModes, Direction, ParamMask, Disposal, Requirement
<1> QED BY <1>1, <1>5, <1>6 DEF AllowedIn

\* Orders of n annotations.
Permutes(p, n) == p \in [1 .. n -> 1 .. n] /\ \A i, j \in 1 .. n : p[i] = p[j] => i = j

Shuffled(annots, p) == [i \in DOMAIN annots |-> annots[p[i]]]

\* An order leaves no annotation out.
LEMMA PermutationReaches ==
    ASSUME NEW n \in Nat, NEW p, Permutes(p, n), NEW k \in 1 .. n
    PROVE  \E i \in 1 .. n : p[i] = k
<1>1. p \in Injection(1 .. n, 1 .. n)
      BY DEF Permutes, Injection, IsInjective
<1>2. IsFiniteSet(1 .. n)
      BY FS_Interval
<1>3. p \in Surjection(1 .. n, 1 .. n)
      BY <1>1, <1>2, FS_Injection
<1> QED BY <1>3 DEF Surjection

\* A declaration means the same with its annotations in another order, or is
\* rejected in both.
LEMMA DeclareAnyOrder ==
    ASSUME NEW ta, ta = Rejected \/ Clean(ta), NEW modes \in Contexts,
           NEW annots \in Seq(Annotations), NEW p, Permutes(p, Len(annots))
    PROVE  Declare(ta, Shuffled(annots, p), modes) = Declare(ta, annots, modes)
<1>0. PICK other : other = Shuffled(annots, p)
      OBVIOUS
<1> SUFFICES Declare(ta, other, modes) = Declare(ta, annots, modes)
    BY <1>0
<1>1. /\ Len(annots) \in Nat /\ DOMAIN annots = 1 .. Len(annots)
      /\ \A i \in DOMAIN annots : annots[i] \in Annotations
      BY LenProperties, ElementOfSeq
<1>2. \A i \in 1 .. Len(annots) : p[i] \in 1 .. Len(annots) /\ other[i] = annots[p[i]]
      BY <1>0, <1>1 DEF Permutes, Shuffled
<1>3. other \in Seq(Annotations) /\ DOMAIN other = DOMAIN annots /\ Len(other) = Len(annots)
      BY <1>0, <1>1, <1>2, IsASeq DEF Shuffled
<1>4. \A k \in 1 .. Len(annots) : \E i \in 1 .. Len(annots) : p[i] = k
      BY <1>1, PermutationReaches
<1>5. GivenIn(other) = GivenIn(annots)
  <2>1. ASSUME NEW i \in 1 .. Len(annots) PROVE other[i] \in GivenIn(annots)
        BY <1>1, <1>2 DEF GivenIn
  <2>2. ASSUME NEW k \in 1 .. Len(annots) PROVE annots[k] \in GivenIn(other)
    <3>1. PICK i \in 1 .. Len(annots) : p[i] = k
          BY <1>4
    <3> QED BY <3>1, <1>1, <1>2, <1>3 DEF GivenIn
  <2> QED BY <2>1, <2>2, <1>1, <1>3 DEF GivenIn
<1>6. AcceptsAny(ta, other, modes) <=> AcceptsAny(ta, annots, modes)
  <2>1. ASSUME AcceptsAny(ta, annots, modes) PROVE AcceptsAny(ta, other, modes)
        BY <2>1, <1>1, <1>2, <1>3 DEF AcceptsAny, Permutes
  <2>2. ASSUME AcceptsAny(ta, other, modes) PROVE AcceptsAny(ta, annots, modes)
    <3>1. \A i \in DOMAIN annots : SuitsType(ta, annots[i], modes)
          BY <2>2, <1>1, <1>2, <1>3, <1>4 DEF AcceptsAny
    <3>2. ASSUME NEW k \in DOMAIN annots, NEW l \in DOMAIN annots, k # l
          PROVE  ~Refuses(annots[k], annots[l], modes)
      <4>1. PICK i \in 1 .. Len(annots) : p[i] = k
            BY <1>1, <1>4
      <4>2. PICK j \in 1 .. Len(annots) : p[j] = l
            BY <1>1, <1>4
      <4>3. i # j /\ other[i] = annots[k] /\ other[j] = annots[l]
            BY <4>1, <4>2, <3>2, <1>2
      <4> QED BY <4>3, <2>2, <1>1, <1>3 DEF AcceptsAny
    <3> QED BY <3>1, <3>2 DEF AcceptsAny
  <2> QED BY <2>1, <2>2
<1>7. CASE modes = {"return"} /\ "structsize" \in GivenIn(annots)
  <2>1. CASE ta = Rejected
        BY <2>1 DEF Declare, Rejected
  <2>2. CASE Clean(ta)
    <3>1. Declare(ta, annots, {"return"}) = Rejected
          BY <1>7, <2>2, StructSizeNotReturned
    <3>2. Declare(ta, other, {"return"}) = Rejected
          BY <1>3, <1>5, <1>7, <2>2, StructSizeNotReturned
    <3> QED BY <3>1, <3>2, <1>7
  <2> QED BY <2>1, <2>2
<1>8. CASE ~(modes = {"return"} /\ "structsize" \in GivenIn(annots))
  <2>1. Accepts(ta, other, modes) <=> Accepts(ta, annots, modes)
        BY <1>3, <1>5, <1>6, <1>8, AcceptsInAnyOrder
  <2>2. Annotated(ta, other, modes) = Annotated(ta, annots, modes)
        BY <2>1, <1>3, <1>5, AnnotatedAs
  <2> QED BY <2>2 DEF Declare
<1> QED BY <1>7, <1>8

\* The order annotations are written in never matters, for any number of them and
\* any aliases: the parser checks each against those before it only.
THEOREM OrderNeverMatters == DeclSpec => []OrderIrrelevant
<1>1. DeclInv => OrderIrrelevant
  <2> SUFFICES ASSUME DeclInv,
                      NEW p \in [DOMAIN latest.decl.annots -> DOMAIN latest.decl.annots],
                      \A i, j \in DOMAIN p : p[i] = p[j] => i = j
               PROVE  Meaning(Reordered(latest.decl, p), latest.modes)
                         = Meaning(latest.decl, latest.modes)
      BY DEF OrderIrrelevant
  <2> DEFINE d == latest.decl
             e == Reordered(d, p)
  <2>1. d \in DeclSyntax /\ latest.modes \in Contexts /\ AliasesClean
        BY DEF DeclInv, LatestParsed
  <2>2. d.annots \in Seq(Annotations)
        BY <2>1 DEF DeclSyntax
  <2>3. /\ e.type = d.type /\ e.size = d.size
        /\ e.annots = Shuffled(d.annots, p)
        BY <2>1 DEF Reordered, DeclSyntax, Shuffled
  <2>4. TypeOf(e) = TypeOf(d)
        BY <2>3 DEF TypeOf
  <2>5. TypeOf(d) = Rejected \/ Clean(TypeOf(d))
    <3>1. TypeOf(d) = Rejected \/ TypeOf(d).ok
          BY <2>1 DEF TypeOf, TypeParse, Parsed, Rejected, AliasGet, AliasesClean, Defined,
                      IsAlias, Clean, Typed, DeclSyntax
    <3> QED BY <2>1, <3>1, CleanType
  <2>6. Permutes(p, Len(d.annots))
        BY <2>2, LenProperties DEF Permutes
  <2> HIDE DEF d, e
  <2>7. Declare(TypeOf(d), Shuffled(d.annots, p), latest.modes)
           = Declare(TypeOf(d), d.annots, latest.modes)
        BY <2>1, <2>2, <2>5, <2>6, DeclareAnyOrder
  <2>8. Meaning(e, latest.modes) = Meaning(d, latest.modes)
        BY <2>3, <2>4, <2>7 DEF Meaning
  <2> QED BY <2>8 DEF d, e
<1> QED BY <1>1, DeclarationsInvariant, PTL

-----------------------------------------------------------------------------

\* A declaration without aliases.
WrittenSyntax == [type : BaseTypes, size : Int, annots : Seq(Annotations)]

\* What Suitable asks of a type whatever the context and the size.
Lasting(ta, a) ==
    /\ a \in ValidAttrs(ta.base) \cup {"nullifempty", "default", "nullok"}
    /\ a \in {"nullok", "novaluechecks"} =>
          IsArray(ta) \/ ta.base \in {"pointer", "binary", "uuid"}
                                     \cup StringTypes \cup StructTypes

\* No annotation refuses one before it.
NoRefusal(annots, modes) ==
    \A i \in DOMAIN annots : \A j \in 1 .. (i - 1) : ~Refuses(annots[i], annots[j], modes)

\* The alias with the type ta amounts to the declaration w.
Spells(w, ta) ==
    /\ w \in WrittenSyntax
    /\ Clean(ta) /\ ta.base = w.type /\ ta.size = w.size
    /\ w.type = "vstruct" \/ w.size = VLA => ta.varsize
    /\ ta.flags = AddedByAll(GivenIn(w.annots), AllModes)
    /\ ta.slot # "none" <=> \E a \in GivenIn(w.annots) : TakesSlot(a, AllModes)
    /\ \A a \in GivenIn(w.annots) : Lasting(ta, a)
    /\ NoRefusal(w.annots, AllModes)

\* A parser for one context refuses, and sets, no more than one for all of them,
\* and what it does not set are the error annotations.
LEMMA FewerModesRefuseLess ==
    ASSUME NEW a, NEW b, NEW modes \in Contexts \cup {AllModes}
    PROVE  /\ Adds(a, modes) \subseteq Adds(a, AllModes)
           /\ Clashes(a, modes) \subseteq Clashes(a, AllModes)
           /\ TakesSlot(a, modes) => TakesSlot(a, AllModes)
           /\ Refuses(a, b, modes) => Refuses(a, b, AllModes)
           /\ Adds(a, AllModes) \ ErrorMask \subseteq Adds(a, modes)
           /\ "return" \in modes => Adds(a, modes) = Adds(a, AllModes)
<1>1. /\ Adds(a, modes) \subseteq Adds(a, AllModes)
      /\ Adds(a, AllModes) \ ErrorMask \subseteq Adds(a, modes)
      /\ "return" \in modes => Adds(a, modes) = Adds(a, AllModes)
      BY DEF Adds, AllModes, ErrorMask
<1>2. Clashes(a, modes) \subseteq Clashes(a, AllModes)
  <2>1. CASE a \in ErrorMask
        BY <2>1 DEF Clashes, AllModes, ErrorMask, Direction, SafetyMask, Disposal, Requirement
  <2>2. CASE a \notin ErrorMask
    <3>1. Clashes(a, modes) = Clashes(a, AllModes)
          BY <2>2 DEF Clashes, AllModes
    <3> QED BY <3>1
  <2> QED BY <2>1, <2>2
<1>3. TakesSlot(a, modes) => TakesSlot(a, AllModes)
      BY DEF TakesSlot, AllModes
<1>4. Adds(b, modes) \subseteq Adds(b, AllModes) /\ (TakesSlot(b, modes) => TakesSlot(b, AllModes))
      BY DEF Adds, AllModes, ErrorMask, TakesSlot
<1> QED BY <1>1, <1>2, <1>3, <1>4 DEF Refuses, NeedsSlot

\* The annotations of an alias and of its use.
LEMMA GivenJoined ==
    ASSUME NEW s \in Seq(Annotations), NEW t \in Seq(Annotations)
    PROVE  /\ s \o t \in Seq(Annotations)
           /\ GivenIn(s \o t) = GivenIn(s) \cup GivenIn(t)
<1>1. /\ s \o t \in Seq(Annotations) /\ Len(s \o t) = Len(s) + Len(t)
      /\ \A i \in 1 .. Len(s) + Len(t) :
            (s \o t)[i] = IF i <= Len(s) THEN s[i] ELSE t[i - Len(s)]
      BY ConcatProperties
<1>2. /\ Len(s) \in Nat /\ Len(t) \in Nat /\ DOMAIN s = 1 .. Len(s) /\ DOMAIN t = 1 .. Len(t)
      /\ DOMAIN (s \o t) = 1 .. Len(s) + Len(t)
      BY <1>1, LenProperties
<1>3. GivenIn(s \o t) \subseteq GivenIn(s) \cup GivenIn(t)
  <2> SUFFICES ASSUME NEW i \in 1 .. Len(s) + Len(t)
               PROVE  (s \o t)[i] \in GivenIn(s) \cup GivenIn(t)
      BY <1>2 DEF GivenIn
  <2>1. CASE i <= Len(s)
        BY <2>1, <1>1, <1>2 DEF GivenIn
  <2>2. CASE ~(i <= Len(s))
    <3>1. i - Len(s) \in 1 .. Len(t)
          BY <2>2, <1>2
    <3> QED BY <2>2, <3>1, <1>1, <1>2 DEF GivenIn
  <2> QED BY <2>1, <2>2
<1>4. GivenIn(s) \subseteq GivenIn(s \o t)
  <2> SUFFICES ASSUME NEW i \in 1 .. Len(s) PROVE s[i] \in GivenIn(s \o t)
      BY <1>2 DEF GivenIn
  <2>1. i \in 1 .. Len(s) + Len(t) /\ i <= Len(s)
        BY <1>2
  <2> QED BY <2>1, <1>1, <1>2 DEF GivenIn
<1>5. GivenIn(t) \subseteq GivenIn(s \o t)
  <2> SUFFICES ASSUME NEW i \in 1 .. Len(t) PROVE t[i] \in GivenIn(s \o t)
      BY <1>2 DEF GivenIn
  <2>1. i + Len(s) \in 1 .. Len(s) + Len(t) /\ ~(i + Len(s) <= Len(s)) /\ i + Len(s) - Len(s) = i
        BY <1>2
  <2> QED BY <2>1, <1>1, <1>2 DEF GivenIn
<1> QED BY <1>1, <1>3, <1>4, <1>5

\* They refuse none when those of the use do not refuse those of the alias.
LEMMA NoRefusalJoined ==
    ASSUME NEW s \in Seq(Annotations), NEW t \in Seq(Annotations), NEW modes,
           NoRefusal(s, modes), NoRefusal(t, modes),
           \A a \in GivenIn(t), b \in GivenIn(s) : ~Refuses(a, b, modes)
    PROVE  NoRefusal(s \o t, modes)
<1> SUFFICES ASSUME NEW i \in DOMAIN (s \o t), NEW j \in 1 .. (i - 1)
             PROVE  ~Refuses((s \o t)[i], (s \o t)[j], modes)
    BY DEF NoRefusal
<1>1. /\ s \o t \in Seq(Annotations) /\ Len(s \o t) = Len(s) + Len(t)
      /\ \A k \in 1 .. Len(s) + Len(t) :
            (s \o t)[k] = IF k <= Len(s) THEN s[k] ELSE t[k - Len(s)]
      BY ConcatProperties
<1>2. /\ Len(s) \in Nat /\ Len(t) \in Nat /\ DOMAIN s = 1 .. Len(s) /\ DOMAIN t = 1 .. Len(t)
      /\ i \in 1 .. Len(s) + Len(t) /\ j \in 1 .. Len(s) + Len(t) /\ j < i
  <2>1. Len(s) \in Nat /\ Len(t) \in Nat /\ DOMAIN s = 1 .. Len(s) /\ DOMAIN t = 1 .. Len(t)
        BY LenProperties
  <2>2. i \in 1 .. Len(s) + Len(t)
        BY <1>1, LenProperties
  <2> QED BY <2>1, <2>2
<1>3. CASE i <= Len(s)
  <2>1. i \in DOMAIN s /\ j <= Len(s) /\ j \in 1 .. (i - 1)
        BY <1>2, <1>3
  <2> QED BY <2>1, <1>1, <1>2, <1>3 DEF NoRefusal
<1>4. CASE ~(i <= Len(s)) /\ j <= Len(s)
  <2>1. i - Len(s) \in DOMAIN t /\ j \in DOMAIN s
        BY <1>2, <1>4
  <2>2. (s \o t)[i] \in GivenIn(t) /\ (s \o t)[j] \in GivenIn(s)
        BY <2>1, <1>1, <1>2, <1>4 DEF GivenIn
  <2> QED BY <2>2
<1>5. CASE ~(i <= Len(s)) /\ ~(j <= Len(s))
  <2>1. i - Len(s) \in DOMAIN t /\ j - Len(s) \in 1 .. (i - Len(s) - 1)
        BY <1>2, <1>5
  <2>2. (s \o t)[i] = t[i - Len(s)] /\ (s \o t)[j] = t[j - Len(s)]
        BY <1>1, <1>2, <1>5
  <2> QED BY <2>1, <2>2 DEF NoRefusal
<1> QED BY <1>3, <1>4, <1>5

\* What annotations change in a type.
LEMMA WithFields ==
    ASSUME NEW ta, Clean(ta), NEW given, NEW modes
    PROVE  LET tb == With(ta, given, modes)
           IN /\ tb.ok /\ tb.base = ta.base /\ tb.size = ta.size /\ tb.varsize = ta.varsize
              /\ tb.flags = ta.flags \cup AddedByAll(given, modes)
              /\ tb.slot # "none" <=> ta.slot # "none" \/ \E a \in given : TakesSlot(a, modes)
BY DEF With, Clean, Typed

\* Annotations accepted at the use of an alias are accepted where they follow
\* those of the alias.
LEMMA MoreAnnotations ==
    ASSUME NEW w, NEW ta, Spells(w, ta), NEW annots \in Seq(Annotations),
           NEW modes \in Contexts \cup {AllModes}, Annotated(ta, annots, modes).ok
    PROVE  /\ Annotated(ta, annots, modes) = With(ta, GivenIn(annots), modes)
           /\ \A a \in GivenIn(annots) : SuitsType(ta, a, modes) /\ Lasting(ta, a)
           /\ NoRefusal(w.annots \o annots, modes)
<1>1. Accepts(ta, annots, modes) /\ Annotated(ta, annots, modes) = With(ta, GivenIn(annots), modes)
      BY AnnotatedAs DEF Rejected
<1>2. \A a \in GivenIn(annots) : SuitsType(ta, a, modes) /\ Lasting(ta, a)
      BY <1>1 DEF Accepts, SuitsType, Suitable, Lasting, GivenIn
<1>3. NoRefusal(annots, modes)
      BY <1>1 DEF Accepts, NoRefusal
<1>4. w.annots \in Seq(Annotations)
      BY DEF Spells, WrittenSyntax
<1>5. NoRefusal(w.annots, modes)
      BY FewerModesRefuseLess DEF Spells, NoRefusal
<1>6. ASSUME NEW a \in GivenIn(annots), NEW b \in GivenIn(w.annots), Refuses(a, b, modes)
      PROVE  FALSE
  <2>1. Adds(b, modes) \subseteq ta.flags
        BY FewerModesRefuseLess DEF Spells, AddedByAll
  <2>2. TakesSlot(b, modes) => ta.slot # "none"
        BY FewerModesRefuseLess DEF Spells
  <2> QED BY <1>2, <1>6, <2>1, <2>2 DEF Refuses, SuitsType
<1> QED BY <1>1, <1>2, <1>3, <1>4, <1>5, <1>6, NoRefusalJoined

\* A type without aliases spells itself.
LEMMA SpellsBase ==
    ASSUME NEW base \in BaseTypes, NEW size \in Int, TypeParse(base, size).ok
    PROVE  Spells([type |-> base, size |-> size, annots |-> <<>>], TypeParse(base, size))
<1> DEFINE w == [type |-> base, size |-> size, annots |-> <<>>]
<1>1. TypeParse(base, size) = Parsed(base, size, base = "vstruct" \/ size = VLA, {}, "none")
      BY DEF TypeParse, Rejected
<1>2. w \in WrittenSyntax /\ GivenIn(w.annots) = {} /\ NoRefusal(w.annots, AllModes)
      BY DEF WrittenSyntax, GivenIn, NoRefusal
<1>3. AddedByAll({}, AllModes) = {}
      BY DEF AddedByAll
<1> DEFINE ta == TypeParse(base, size)
<1>4. /\ ta.base = base /\ ta.size = size /\ ta.flags = {} /\ ta.slot = "none"
      /\ base = "vstruct" \/ size = VLA => ta.varsize
  <2>1. ta.base = base /\ ta.size = size /\ ta.flags = {} /\ ta.slot = "none"
        BY <1>1 DEF Parsed
  <2>2. PICK varsize \in BOOLEAN : varsize <=> base = "vstruct" \/ size = VLA
        OBVIOUS
  <2>3. ta = Parsed(base, size, varsize, {}, "none")
        BY <1>1, <2>2
  <2>4. ta.varsize = varsize
        BY <2>3 DEF Parsed
  <2> QED BY <2>1, <2>2, <2>4
<1>5. Clean(ta)
      BY CleanBase
<1>6. w.type = base /\ w.size = size
      OBVIOUS
<1> HIDE DEF ta, w
<1>7. Spells(w, ta)
      BY <1>2, <1>3, <1>4, <1>5, <1>6 DEF Spells
<1> QED BY <1>7 DEF ta, w

\* A size given to an alias replaces the size of what is written (CffiAliasGet).
LEMMA SpellsSized ==
    ASSUME NEW w, NEW ta, Spells(w, ta), NEW size \in Int
    PROVE  Spells([w EXCEPT !.size = IF size = Scalar THEN w.size ELSE size], AliasGet(ta, size))
<1> DEFINE v == [w EXCEPT !.size = IF size = Scalar THEN w.size ELSE size]
           tb == AliasGet(ta, size)
<1>1. w \in WrittenSyntax /\ Clean(ta)
      BY DEF Spells
<1>2. /\ v \in WrittenSyntax /\ v.type = w.type /\ v.annots = w.annots
      /\ v.size = IF size = Scalar THEN w.size ELSE size
      BY <1>1 DEF WrittenSyntax
<1>3. /\ tb.base = ta.base /\ tb.flags = ta.flags /\ tb.slot = ta.slot
      /\ tb.size = IF size = Scalar THEN ta.size ELSE size
      /\ ta.varsize \/ (size # Scalar /\ size = VLA) => tb.varsize
      BY <1>1 DEF AliasGet, Clean, Typed
<1>4. Clean(tb)
      BY <1>1, CleanAlias
<1>5. v.type = "vstruct" \/ v.size = VLA => tb.varsize
      BY <1>2, <1>3 DEF Spells
<1>6. \A a : Lasting(ta, a) => Lasting(tb, a)
      BY <1>3 DEF Lasting, IsArray
<1> QED BY <1>2, <1>3, <1>4, <1>5, <1>6 DEF Spells

\* An alias of an alias spells the annotations of both.
LEMMA SpellsMore ==
    ASSUME NEW w, NEW ta, Spells(w, ta), NEW annots \in Seq(Annotations),
           Annotated(ta, annots, AllModes).ok
    PROVE  Spells([w EXCEPT !.annots = w.annots \o annots], Annotated(ta, annots, AllModes))
<1> DEFINE v == [w EXCEPT !.annots = w.annots \o annots]
           tb == Annotated(ta, annots, AllModes)
<1>1. w \in WrittenSyntax /\ Clean(ta) /\ w.annots \in Seq(Annotations)
      BY DEF Spells, WrittenSyntax
<1>2. /\ w.annots \o annots \in Seq(Annotations)
      /\ GivenIn(w.annots \o annots) = GivenIn(w.annots) \cup GivenIn(annots)
      BY <1>1, GivenJoined
<1>3. v \in WrittenSyntax /\ v.type = w.type /\ v.size = w.size /\ v.annots = w.annots \o annots
      BY <1>1, <1>2 DEF WrittenSyntax
<1>4. /\ tb = With(ta, GivenIn(annots), AllModes)
      /\ \A a \in GivenIn(annots) : Lasting(ta, a)
      /\ NoRefusal(w.annots \o annots, AllModes)
      BY MoreAnnotations
<1>5. /\ tb.base = ta.base /\ tb.size = ta.size /\ tb.varsize = ta.varsize
      /\ tb.flags = ta.flags \cup AddedByAll(GivenIn(annots), AllModes)
      /\ tb.slot # "none" <=> ta.slot # "none" \/ \E a \in GivenIn(annots) : TakesSlot(a, AllModes)
      BY <1>1, <1>4, WithFields
<1>6. Clean(tb)
      BY <1>1, AnnotatedShape
<1>7. tb.flags = AddedByAll(GivenIn(v.annots), AllModes)
      BY <1>2, <1>3, <1>5 DEF Spells, AddedByAll
<1>8. tb.slot # "none" <=> \E a \in GivenIn(v.annots) : TakesSlot(a, AllModes)
      BY <1>2, <1>3, <1>5 DEF Spells
<1>9. \A a \in GivenIn(v.annots) : Lasting(tb, a)
      BY <1>2, <1>3, <1>4, <1>5 DEF Spells, Lasting, IsArray
<1> QED BY <1>3, <1>4, <1>5, <1>6, <1>7, <1>8, <1>9 DEF Spells

\* tb is ta without some error annotations, and perhaps of a fixed size.
Plainer(tb, ta, modes) ==
    /\ Typed(ta) /\ Typed(tb)
    /\ tb.base = ta.base /\ tb.size = ta.size
    /\ tb.varsize => ta.varsize
    /\ tb.flags \subseteq ta.flags /\ ta.flags \ ErrorMask \subseteq tb.flags
    /\ modes = {"return"} => tb.flags = ta.flags
    /\ tb.slot # "none" => ta.slot # "none" /\ (modes = {"param"} => "onerror" \notin ta.flags)

\* Such a type is accepted wherever ta is, with the same meaning: in parameters,
LEMMA PlainerParam ==
    ASSUME NEW ta, NEW tb, Plainer(tb, ta, {"param"}), ParamParse(ta).ok
    PROVE  SameButErrors(ParamParse(ta), ParamParse(tb), {"param"})
<1>1. /\ IsOutput(tb) <=> IsOutput(ta)
      /\ IsArray(tb) <=> IsArray(ta)
      /\ \A flag : flag \notin ErrorMask => (flag \in tb.flags <=> flag \in ta.flags)
      BY DEF Plainer, IsOutput, IsArray, ErrorMask
<1>2. Annotations \cap {"in", "byref", "nullifempty"} = {"in", "byref", "nullifempty"}
      BY DEF Annotations, ParamMask, Direction
<1>3. CASE IsOutput(ta)
  <2>1. /\ ParamParse(ta) = [ta EXCEPT !.flags = @ \cup {"byref"}]
        /\ ta.base # "void"
        /\ ~(ta.slot # "none" /\ "onerror" \notin ta.flags)
        /\ ~("out" \in ta.flags /\ ta.flags \cap Disposal # {})
        /\ ~("out" \in ta.flags /\ ta.varsize /\ ta.size # VLA)
        BY <1>3 DEF ParamParse, Rejected
  <2>2. /\ tb.slot = "none"
        /\ ~("out" \in tb.flags /\ tb.flags \cap Disposal # {})
        /\ ~("out" \in tb.flags /\ tb.varsize /\ tb.size # VLA)
        BY <2>1 DEF Plainer
  <2>3. ParamParse(tb) = [tb EXCEPT !.flags = @ \cup {"byref"}]
        BY <1>1, <1>3, <2>1, <2>2 DEF ParamParse, Plainer
  <2>4. /\ ParamParse(ta).flags = ta.flags \cup {"byref"}
        /\ ParamParse(ta).base = ta.base /\ ParamParse(ta).size = ta.size
        BY <2>1 DEF Plainer, Typed
  <2>5. /\ ParamParse(tb).flags = tb.flags \cup {"byref"} /\ ParamParse(tb).ok
        /\ ParamParse(tb).base = tb.base /\ ParamParse(tb).size = tb.size
        BY <2>3 DEF Plainer, Typed
  <2> QED BY <2>4, <2>5 DEF Plainer, SameButErrors
<1>4. CASE ~IsOutput(ta)
  <2> DEFINE more == {"in"} \cup (IF IsArray(ta) THEN {"byref"} ELSE {})
                       \cup (IF ta.base = "binary" /\ ~IsArray(ta) THEN {"nullifempty"} ELSE {})
  <2>1. InFlags(ta) = ta.flags \cup more /\ InFlags(tb) = tb.flags \cup more
        BY <1>1 DEF InFlags, Plainer
  <2>2. more \subseteq {"in", "byref", "nullifempty"}
        OBVIOUS
  <2> HIDE DEF more
  <2>3. /\ ParamParse(ta) = [ta EXCEPT !.flags = InFlags(ta)]
        /\ ta.base # "void"
        /\ ta.flags \cap {"storeonerror", "storealways"} = {}
        /\ "byref" \notin InFlags(ta) =>
              /\ ta.base # "uuid" /\ ~ta.varsize
              /\ ~(ta.base \in StructTypes /\ "nullifempty" \in ta.flags)
        BY <1>4 DEF ParamParse, Rejected
  <2>4. /\ tb.flags \cap {"storeonerror", "storealways"} = {}
        /\ "byref" \notin InFlags(tb) =>
              /\ tb.base # "uuid" /\ ~tb.varsize
              /\ ~(tb.base \in StructTypes /\ "nullifempty" \in tb.flags)
    <3>1. "byref" \in InFlags(tb) <=> "byref" \in InFlags(ta)
          BY <2>1, <1>1 DEF ErrorMask
    <3> QED BY <2>3, <3>1 DEF Plainer
  <2>5. ParamParse(tb) = [tb EXCEPT !.flags = InFlags(tb)]
        BY <1>1, <1>4, <2>3, <2>4 DEF ParamParse, Plainer
  <2>6. /\ ParamParse(ta).flags = InFlags(ta)
        /\ ParamParse(ta).base = ta.base /\ ParamParse(ta).size = ta.size
        BY <2>3 DEF Plainer, Typed
  <2>7. /\ ParamParse(tb).flags = InFlags(tb) /\ ParamParse(tb).ok
        /\ ParamParse(tb).base = tb.base /\ ParamParse(tb).size = tb.size
        BY <2>5 DEF Plainer, Typed
  <2> QED BY <2>1, <2>6, <2>7 DEF Plainer, SameButErrors
<1> QED BY <1>3, <1>4

\* in return types,
LEMMA PlainerReturn ==
    ASSUME NEW ta, NEW tb, Plainer(tb, ta, {"return"}), ReturnParse(ta).ok
    PROVE  SameButErrors(ReturnParse(ta), ReturnParse(tb), {"return"})
<1>1. ReturnParse(ta) = ta
      BY DEF ReturnParse, Rejected
<1>2. ReturnParse(tb) = tb
      BY DEF ReturnParse, Rejected, Plainer, IsArray
<1> QED BY <1>1, <1>2 DEF Plainer, Typed, SameButErrors

\* in fields,
LEMMA PlainerField ==
    ASSUME NEW ta, NEW tb, Plainer(tb, ta, {"field"}), FieldParse(ta).ok
    PROVE  SameButErrors(FieldParse(ta), FieldParse(tb), {"field"})
<1>1. "nullifempty" \in tb.flags <=> "nullifempty" \in ta.flags
      BY DEF Plainer, ErrorMask
<1>2. CASE ta.base = "pointer"
  <2>1. /\ FieldParse(ta) = [ta EXCEPT !.flags = (@ \ SafetyMask) \cup {"unsafe"}]
        /\ FieldParse(tb) = [tb EXCEPT !.flags = (@ \ SafetyMask) \cup {"unsafe"}]
        BY <1>2 DEF FieldParse, Plainer, CharTypes, Rejected
  <2>2. /\ FieldParse(ta).flags = (ta.flags \ SafetyMask) \cup {"unsafe"}
        /\ FieldParse(ta).base = ta.base /\ FieldParse(ta).size = ta.size
        /\ FieldParse(tb).flags = (tb.flags \ SafetyMask) \cup {"unsafe"}
        /\ FieldParse(tb).base = tb.base /\ FieldParse(tb).size = tb.size
        /\ FieldParse(tb).ok
        BY <2>1 DEF Plainer, Typed
  <2> QED BY <2>2 DEF Plainer, SameButErrors
<1>3. CASE ta.base # "pointer"
  <2>1. FieldParse(ta) = ta /\ FieldParse(tb) = tb
        BY <1>1, <1>3 DEF FieldParse, Plainer, Rejected
  <2> QED BY <2>1 DEF Plainer, Typed, SameButErrors
<1> QED BY <1>2, <1>3

\* hence in each context.
LEMMA PlainerInContext ==
    ASSUME NEW modes \in Contexts, NEW ta, NEW tb, Plainer(tb, ta, modes),
           InContext(ta, modes).ok, ReferenceChecked(InContext(ta, modes))
    PROVE  /\ SameButErrors(InContext(ta, modes), InContext(tb, modes), modes)
           /\ ReferenceChecked(InContext(tb, modes))
<1>1. SameButErrors(InContext(ta, modes), InContext(tb, modes), modes)
  <2>1. CASE modes = {"param"}
        BY <2>1, InEachContext, PlainerParam
  <2>2. CASE modes = {"return"}
        BY <2>2, InEachContext, PlainerReturn
  <2>3. CASE modes = {"field"}
        BY <2>3, InEachContext, PlainerField
  <2> QED BY <2>1, <2>2, <2>3 DEF Contexts
<1>2. \A flag \in {"novaluechecks", "byref"} :
         flag \in InContext(ta, modes).flags <=> flag \in InContext(tb, modes).flags
      BY <1>1 DEF SameButErrors, ErrorMask
<1> QED BY <1>1, <1>2 DEF ReferenceChecked, SameButErrors

\* A declaration that is accepted with an alias is accepted with the alias
\* written out, and means the same there but for error annotations.
LEMMA InlinedAccepted ==
    ASSUME NEW w, NEW ta, Spells(w, ta), NEW annots \in Seq(Annotations), NEW modes \in Contexts,
           Declare(ta, annots, modes).ok,
           ~AliasLaxer([w EXCEPT !.annots = w.annots \o annots], modes)
    PROVE  SameButErrors(Declare(ta, annots, modes),
                         Declare(TypeParse(w.type, w.size), w.annots \o annots, modes), modes)
<1> DEFINE all == w.annots \o annots
           t0  == TypeParse(w.type, w.size)
           tA  == Annotated(ta, annots, modes)
           tI  == Annotated(t0, all, modes)
<1>1. /\ tA.ok /\ NullIfEmptyAllowed(tA) /\ AllowedIn(tA, modes)
      /\ Declare(ta, annots, modes) = InContext(tA, modes)
      /\ InContext(tA, modes).ok /\ ReferenceChecked(InContext(tA, modes))
      BY DeclareSteps
<1>2. /\ w \in WrittenSyntax /\ w.type \in BaseTypes /\ w.size \in Int /\ w.annots \in Seq(Annotations)
      /\ Clean(ta) /\ ta.base = w.type /\ ta.size = w.size
      BY DEF Spells, WrittenSyntax
<1>3. all \in Seq(Annotations) /\ GivenIn(all) = GivenIn(w.annots) \cup GivenIn(annots)
      BY <1>2, GivenJoined
<1>4. LET v == [w EXCEPT !.annots = all]
      IN v.type = w.type /\ v.size = w.size /\ v.annots = all
      BY <1>2 DEF WrittenSyntax
<1>5. /\ w.size # Scalar =>
            w.type \notin {"void", "binary", "vstruct"} /\ "structsize" \notin GivenIn(all)
      /\ modes = {"return"} => "default" \notin GivenIn(all)
      BY <1>4 DEF AliasLaxer, IsArray, GivenIn
<1>6. t0.ok /\ t0.base = w.type /\ t0.size = w.size /\ t0.flags = {} /\ t0.slot = "none"
      BY <1>2, <1>5 DEF TypeParse, Parsed, Clean, IsArray
<1>7. Clean(t0)
      BY <1>2, <1>6, CleanBase
<1> HIDE DEF t0, all
<1>8. /\ tA = With(ta, GivenIn(annots), modes)
      /\ \A a \in GivenIn(annots) : SuitsType(ta, a, modes) /\ Lasting(ta, a)
      /\ NoRefusal(all, modes)
      BY <1>1, MoreAnnotations DEF all
<1>9. \A a \in GivenIn(all) : SuitsType(t0, a, modes)
  <2> SUFFICES ASSUME NEW a \in GivenIn(all) PROVE SuitsType(t0, a, modes)
      OBVIOUS
  <2>1. Lasting(ta, a)
        BY <1>3, <1>8 DEF Spells
  <2>2. IsArray(t0) <=> IsArray(ta)
        BY <1>2, <1>6 DEF IsArray
  <2>3. modes # {"return"} => modes \cap {"param", "field"} # {}
        BY DEF Contexts
  <2>4. a = "structsize" => ~IsArray(t0)
        BY <1>5, <1>6 DEF IsArray
  <2>5. a = "default" => modes \cap {"param", "field"} # {}
        BY <1>5, <2>3
  <2>6. Suitable(t0, a, modes)
        BY <1>2, <1>6, <2>1, <2>2, <2>4, <2>5 DEF Suitable, Lasting
  <2> QED BY <2>6, <1>6 DEF SuitsType
<1>10. Accepts(t0, all, modes)
      BY <1>8, <1>9 DEF Accepts, NoRefusal, GivenIn
<1>11. tI = With(t0, GivenIn(all), modes)
      BY <1>3, <1>10, AnnotatedAs
<1>12. /\ tA.base = ta.base /\ tA.size = ta.size /\ tA.varsize = ta.varsize
       /\ tA.flags = ta.flags \cup AddedByAll(GivenIn(annots), modes)
       /\ tA.slot # "none" <=> ta.slot # "none" \/ \E a \in GivenIn(annots) : TakesSlot(a, modes)
       BY <1>2, <1>8, WithFields
<1>13. /\ tI.ok /\ tI.base = w.type /\ tI.size = w.size /\ tI.varsize = t0.varsize
       /\ tI.flags = AddedByAll(GivenIn(all), modes)
       /\ tI.slot # "none" <=> \E a \in GivenIn(all) : TakesSlot(a, modes)
  <2>1. /\ tI.ok /\ tI.base = t0.base /\ tI.size = t0.size /\ tI.varsize = t0.varsize
        /\ tI.flags = t0.flags \cup AddedByAll(GivenIn(all), modes)
        /\ tI.slot # "none" <=> t0.slot # "none" \/ \E a \in GivenIn(all) : TakesSlot(a, modes)
        BY <1>7, <1>11, WithFields
  <2> QED BY <1>6, <2>1
<1>14. Typed(tA) /\ Typed(tI)
       BY <1>1, <1>2, <1>3, <1>7, <1>13, AnnotatedShape DEF Clean
<1> HIDE DEF tA, tI
<1>15. \A a : /\ Adds(a, modes) \subseteq Adds(a, AllModes)
              /\ Adds(a, AllModes) \ ErrorMask \subseteq Adds(a, modes)
              /\ "return" \in modes => Adds(a, modes) = Adds(a, AllModes)
              /\ TakesSlot(a, modes) => TakesSlot(a, AllModes)
       BY FewerModesRefuseLess
<1>16. /\ tI.flags \subseteq tA.flags /\ tA.flags \ ErrorMask \subseteq tI.flags
       /\ modes = {"return"} => tI.flags = tA.flags
  <2>1. ta.flags = AddedByAll(GivenIn(w.annots), AllModes)
        BY DEF Spells
  <2>2. tI.flags = AddedByAll(GivenIn(w.annots), modes) \cup AddedByAll(GivenIn(annots), modes)
        BY <1>3, <1>13 DEF AddedByAll
  <2>3. /\ AddedByAll(GivenIn(w.annots), modes) \subseteq AddedByAll(GivenIn(w.annots), AllModes)
        /\ AddedByAll(GivenIn(w.annots), AllModes) \ ErrorMask
              \subseteq AddedByAll(GivenIn(w.annots), modes)
        /\ modes = {"return"} =>
              AddedByAll(GivenIn(w.annots), modes) = AddedByAll(GivenIn(w.annots), AllModes)
        BY <1>15 DEF AddedByAll
  <2> QED BY <1>12, <2>1, <2>2, <2>3
<1>17. tI.slot # "none" => tA.slot # "none"
       BY <1>3, <1>12, <1>13, <1>15 DEF Spells
<1>18. ASSUME modes = {"param"}, tI.slot # "none", "onerror" \in tA.flags
       PROVE  FALSE
  <2>1. "default" \in GivenIn(all)
        BY <1>13, <1>18 DEF TakesSlot
  <2>2. \A a : "onerror" \in Adds(a, AllModes) => a = "onerror"
        BY DEF Adds, ErrorMask
  <2>3. \A a : "onerror" \notin Adds(a, {"param"})
        BY DEF Adds, ErrorMask
  <2>4. "onerror" \in GivenIn(w.annots)
        BY <1>12, <1>18, <2>2, <2>3 DEF Spells, AddedByAll
  <2>5. /\ TakesSlot("onerror", AllModes) /\ TakesSlot("default", AllModes)
        /\ NeedsSlot("default", modes)
        BY DEF TakesSlot, NeedsSlot, AllModes
  <2>6. CASE "default" \in GivenIn(annots)
        BY <1>8, <2>4, <2>5, <2>6 DEF SuitsType, Spells
  <2>7. CASE "default" \in GivenIn(w.annots)
    <3>1. PICK i \in DOMAIN w.annots : w.annots[i] = "default"
          BY <2>7 DEF GivenIn
    <3>2. PICK j \in DOMAIN w.annots : w.annots[j] = "onerror"
          BY <2>4 DEF GivenIn
    <3>3. DOMAIN w.annots = 1 .. Len(w.annots) /\ Len(w.annots) \in Nat /\ i # j
          BY <1>2, <3>1, <3>2, LenProperties
    <3>4. /\ Refuses("default", "onerror", AllModes)
          /\ Refuses("onerror", "default", AllModes)
          BY <2>5 DEF Refuses, NeedsSlot
    <3>5. NoRefusal(w.annots, AllModes)
          BY DEF Spells
    <3>6. CASE j < i
      <4>1. j \in 1 .. (i - 1)
            BY <3>3, <3>6
      <4> QED BY <3>1, <3>2, <3>4, <3>5, <4>1 DEF NoRefusal
    <3>7. CASE i < j
      <4>1. i \in 1 .. (j - 1)
            BY <3>3, <3>7
      <4> QED BY <3>1, <3>2, <3>4, <3>5, <4>1 DEF NoRefusal
    <3> QED BY <3>3, <3>6, <3>7
  <2> QED BY <1>3, <2>1, <2>6, <2>7
<1>19. tI.varsize => tA.varsize
  <2>1. t0.varsize => w.type = "vstruct" \/ w.size = VLA
        BY <1>6 DEF t0, TypeParse, Parsed, Rejected
  <2> QED BY <2>1, <1>12, <1>13 DEF Spells
<1>20. Plainer(tI, tA, modes)
       BY <1>2, <1>12, <1>13, <1>14, <1>16, <1>17, <1>18, <1>19 DEF Plainer
<1>21. /\ SameButErrors(InContext(tA, modes), InContext(tI, modes), modes)
       /\ ReferenceChecked(InContext(tI, modes))
       BY <1>1, <1>20, PlainerInContext
<1>22. NullIfEmptyAllowed(tI)
  <2>1. \A flag \in {"nullifempty", "inout", "out", "retval"} :
           flag \in tI.flags <=> flag \in tA.flags
        BY <1>16 DEF ErrorMask
  <2> QED BY <1>1, <1>2, <1>12, <1>13, <2>1 DEF NullIfEmptyAllowed
<1>23. AllowedIn(tI, modes)
       BY <1>1, <1>16, <1>17 DEF AllowedIn
<1>24. Declare(t0, all, modes) = InContext(tI, modes)
       BY <1>6, <1>13, <1>21, <1>22, <1>23 DEF Declare, SameButErrors, tI
<1> QED BY <1>1, <1>21, <1>24 DEF t0, all

\* Each alias is spelled by the declaration it was made of.
AliasesSpelled ==
    /\ aliases = [n \in AliasName |-> aliases[n]]
    /\ written = [n \in AliasName |-> written[n]]
    /\ \A n \in AliasName : aliases[n] = Rejected \/ Spells(written[n], aliases[n])

\* The type a declaration starts with, as it is written out
InlineType(d) == [Inline(d) EXCEPT !.annots = IF IsAlias(d.type) THEN written[d.type].annots ELSE <<>>]

\* The type a declaration starts with is spelled by what stands there.
LEMMA InlineSpells ==
    ASSUME AliasesSpelled, NEW d \in DeclSyntax, TypeOf(d).ok
    PROVE  /\ Spells(InlineType(d), TypeOf(d))
           /\ Inline(d) = [InlineType(d) EXCEPT !.annots = InlineType(d).annots \o d.annots]
<1>1. /\ d.size \in Int /\ d.annots \in Seq(Annotations)
      /\ d.type \in BaseTypes \cup AliasName
      /\ d = [type |-> d.type, size |-> d.size, annots |-> d.annots]
      BY DEF DeclSyntax
<1>2. CASE ~IsAlias(d.type)
  <2>1. TypeOf(d) = TypeParse(d.type, d.size) /\ d.type \in BaseTypes
        BY <1>1, <1>2 DEF TypeOf, IsAlias
  <2>2. InlineType(d) = [type |-> d.type, size |-> d.size, annots |-> <<>>] /\ Inline(d) = d
        BY <1>1, <1>2 DEF InlineType, Inline
  <2>3. Spells(InlineType(d), TypeOf(d))
        BY <1>1, <2>1, <2>2, SpellsBase
  <2>4. <<>> \o d.annots = d.annots
        BY <1>1
  <2> QED BY <1>1, <2>2, <2>3, <2>4
<1>3. CASE IsAlias(d.type)
  <2> DEFINE w == written[d.type]
  <2>1. /\ d.type \in AliasName /\ aliases[d.type].ok
        /\ TypeOf(d) = AliasGet(aliases[d.type], d.size)
        BY <1>3 DEF IsAlias, TypeOf, Defined, Rejected
  <2>2. PICK ta : ta = aliases[d.type] /\ Spells(w, ta)
        BY <2>1 DEF AliasesSpelled, Rejected
  <2>3. w = [type |-> w.type, size |-> w.size, annots |-> w.annots]
        BY <2>2 DEF Spells, WrittenSyntax
  <2>4. PICK size : size = IF d.size = Scalar THEN w.size ELSE d.size
        OBVIOUS
  <2>5. Inline(d) = [type |-> w.type, size |-> size, annots |-> w.annots \o d.annots]
        BY <1>3, <2>4 DEF Inline
  <2> HIDE DEF w
  <2>6. PICK v : v = [type |-> w.type, size |-> size, annots |-> w.annots]
        OBVIOUS
  <2>7. InlineType(d) = v
        BY <1>3, <2>5, <2>6 DEF InlineType, w
  <2>8. Inline(d) = [v EXCEPT !.annots = v.annots \o d.annots]
    <3>1. v.annots = w.annots
          BY <2>6
    <3>2. PICK joined : joined = w.annots \o d.annots
          OBVIOUS
    <3>3. [v EXCEPT !.annots = joined] = [type |-> w.type, size |-> size, annots |-> joined]
          BY <2>6
    <3> QED BY <2>5, <3>1, <3>2, <3>3
  <2>9. Spells([w EXCEPT !.size = IF d.size = Scalar THEN w.size ELSE d.size],
               AliasGet(ta, d.size))
        BY <1>1, <2>2, SpellsSized
  <2>10. v = [w EXCEPT !.size = IF d.size = Scalar THEN w.size ELSE d.size]
        BY <2>3, <2>4, <2>6
  <2>11. Spells(v, TypeOf(d))
        BY <2>1, <2>2, <2>9, <2>10
  <2> QED BY <2>7, <2>8, <2>11
<1> QED BY <1>2, <1>3

\* A new alias is spelled by its definition with the aliases in it written out.
LEMMA MeaningSpelled ==
    ASSUME AliasesSpelled, NEW d \in DeclSyntax, Meaning(d, AllModes).ok
    PROVE  Spells(Inline(d), Meaning(d, AllModes))
<1>1. /\ TypeOf(d).ok /\ Annotated(TypeOf(d), d.annots, AllModes).ok
      /\ Meaning(d, AllModes) = Annotated(TypeOf(d), d.annots, AllModes)
      BY DeclareSteps, InEachContext DEF Meaning
<1>2. d.annots \in Seq(Annotations)
      BY DEF DeclSyntax
<1>3. PICK w : w = InlineType(d)
      OBVIOUS
<1>4. Spells(w, TypeOf(d)) /\ Inline(d) = [w EXCEPT !.annots = w.annots \o d.annots]
      BY <1>1, <1>3, InlineSpells
<1>5. Spells([w EXCEPT !.annots = w.annots \o d.annots], Annotated(TypeOf(d), d.annots, AllModes))
      BY <1>1, <1>2, <1>4, SpellsMore
<1> QED BY <1>1, <1>4, <1>5

\* Whatever is defined and deleted, every alias is spelled by the declaration it
\* amounts to (CffiAliasAdd), which no deletion of another one changes.
THEOREM AliasesInvariant == DeclSpec => []AliasesSpelled
<1>1. DeclInit => AliasesSpelled
      BY DEF DeclInit, AliasesSpelled
<1>2. AliasesSpelled /\ [DeclNext]_declVars => AliasesSpelled'
  <2> SUFFICES ASSUME AliasesSpelled, [DeclNext]_declVars PROVE AliasesSpelled'
      OBVIOUS
  <2>1. ASSUME NEW n \in AliasName, NEW d \in AliasDecls[n], AliasAdd(n, d)
        PROVE  AliasesSpelled'
    <3>1. Spells(Inline(d), Meaning(d, AllModes))
          BY <2>1, MeaningSpelled, DeclarationsAssumption DEF AliasAdd
    <3>2. /\ aliases' = [aliases EXCEPT ![n] = Meaning(d, AllModes)]
          /\ written' = [written EXCEPT ![n] = Inline(d)]
          BY <2>1 DEF AliasAdd
    <3> QED BY <3>1, <3>2 DEF AliasesSpelled
  <2>2. ASSUME NEW names \in SUBSET AliasName, AliasDelete(names)
        PROVE  AliasesSpelled'
        BY <2>2 DEF AliasDelete, AliasesSpelled
  <2>3. ASSUME NEW d \in Decls, NEW modes \in Contexts, Parse(d, modes)
        PROVE  AliasesSpelled'
        BY <2>3 DEF Parse, AliasesSpelled
  <2>4. CASE UNCHANGED declVars
        BY <2>4 DEF declVars, AliasesSpelled
  <2> QED BY <2>1, <2>2, <2>3, <2>4 DEF DeclNext
<1> QED BY <1>1, <1>2, PTL DEF DeclSpec

\* An alias means what its definition means in its place, with a size or without,
\* where the parser is not laxer with aliases (CffiAliasGet, CffiTypeAndAttrsParse).
THEOREM AliasesTransparent == DeclSpec => []AliasTransparent
<1>1. DeclInv /\ AliasesSpelled => AliasTransparent
  <2> SUFFICES ASSUME DeclInv, AliasesSpelled, NEW modes \in Contexts, NEW d, d = latest.decl,
                      IsAlias(d.type), Meaning(d, modes).ok, ~AliasLaxer(Inline(d), modes)
               PROVE  SameButErrors(Meaning(d, modes), Meaning(Inline(d), modes), modes)
      BY DEF AliasTransparent
  <2>1. d \in DeclSyntax /\ d.annots \in Seq(Annotations)
        BY DEF DeclInv, LatestParsed, DeclSyntax
  <2>2. TypeOf(d).ok /\ Declare(TypeOf(d), d.annots, modes).ok
        BY DeclareSteps DEF Meaning
  <2>3. PICK w : w = InlineType(d)
        OBVIOUS
  <2>4. Spells(w, TypeOf(d)) /\ Inline(d) = [w EXCEPT !.annots = w.annots \o d.annots]
        BY <2>1, <2>2, <2>3, InlineSpells
  <2>5. SameButErrors(Declare(TypeOf(d), d.annots, modes),
                      Declare(TypeParse(w.type, w.size), w.annots \o d.annots, modes), modes)
        BY <2>1, <2>2, <2>4, InlinedAccepted
  <2>6. w.type \in BaseTypes /\ w = [type |-> w.type, size |-> w.size, annots |-> w.annots]
        BY <2>4 DEF Spells, WrittenSyntax
  <2>7. /\ Inline(d).type = w.type /\ Inline(d).size = w.size
        /\ Inline(d).annots = w.annots \o d.annots
        BY <2>4, <2>6
  <2>8. TypeOf(Inline(d)) = TypeParse(w.type, w.size)
        BY <2>6, <2>7, DeclarationsAssumption DEF TypeOf, IsAlias
  <2> QED BY <2>5, <2>7, <2>8 DEF Meaning
<1> QED BY <1>1, DeclarationsInvariant, AliasesInvariant, PTL
=============================================================================

----------------------------- MODULE ArgsProofs -----------------------------
(***************************************************************************)
(* Proofs about the arguments of a call, for any prototypes and words.     *)
(*                                                                         *)
(* The invariant follows a call through its phases.  The first pass makes  *)
(* every argument but those whose size is another one; the second makes    *)
(* these, with a size that is still what the other argument holds.  What a *)
(* ready argument guarantees, above all that the buffer of a string does   *)
(* not start with what nobody wrote and has a guard behind it, survives    *)
(* whatever C writes, and is enough to store outputs.  Those that were     *)
(* stored stay as they were read, unless another output names the same     *)
(* variable.                                                               *)
(***************************************************************************)
EXTENDS Args, DeclarationsProofs, WellFoundedInduction, TLAPS

\* What is written, in place of a parameter, and accepted.
ArgTypes == {"int", "pointer", "struct"} \cup CharTypes

\* A parameter as CffiPrototypeParse leaves it.
ParamReady(ta) ==
    /\ ta.base \in ArgTypes
    /\ ta.size \in Nat \cup {Scalar}
    /\ ta.base \in CharTypes => ta.size # Scalar
    /\ Has(ta, "in") <=> ~IsOutput(ta)
    /\ Has(ta, "inout") => ~Has(ta, "out")
    /\ Has(ta, "retval") => Has(ta, "out")
    /\ IsOutput(ta) => ta.slot # "default"

\* The counter of an array is a parameter that can hold a count.
ProtoReady ==
    \A i \in Params :
        /\ ParamReady(Type(i))
        /\ IsVLA(i) => /\ CountOf(i) \in Params
                       /\ Type(CountOf(i)).size = Scalar
                       /\ Type(CountOf(i)).base = "int"

\* A prototype that was accepted.
ProtoParsed ==
    proto = NoProto \/ \E p \in Prototypes :
                          PrototypeAccepted(p, ParamTypes(p)) /\ proto = PrototypeParse(p)

\* What variables hold.
Values == [set : BOOLEAN, n : Int, junk : BOOLEAN]

\* What cells hold.
CellKinds == {"data", "zero", "junk"}

\* The buffer of a string starts with a cell that somebody wrote, and has a guard.
HoldsString(cells, size) ==
    /\ cells \in [1 .. size + 1 -> CellKinds]
    /\ cells[1] # "junk" /\ cells[size + 1] = "zero"

\* The cells of anything but a string.
Room(size) == IF size = Scalar THEN 1 ELSE size

\* What starts as zeros or is copied in.
Initialised(ta) ==
    \/ ta.base = "int" /\ ta.size # Scalar
    \/ ta.base = "pointer" /\ ta.size = Scalar

\* The native memory of an argument.
CellsReady(ta, arg) ==
    /\ StringCells(ta.base) => HoldsString(arg.cells, arg.size)
    /\ ~StringCells(ta.base) => arg.cells \in [1 .. Room(arg.size) -> CellKinds]
    /\ Initialised(ta) => \A k \in DOMAIN arg.cells : arg.cells[k] # "junk"

\* Why an argument may be NULL.
NullFor(ta, arg) ==
    \/ arg.ignore \/ arg.size = 0 \/ Has(ta, "in")
    \/ (ta.base = "struct" /\ ta.size = Scalar /\ Has(ta, "nullifempty"))

\* An output names a variable, or says NULL by its empty name.
ObjReady(ta, arg) ==
    /\ arg.obj.n \in Int
    /\ IsOutput(ta) /\ ~Has(ta, "retval") =>
          arg.obj.name \in Var \/ (arg.obj.name = "" /\ Has(ta, "nullifempty"))

\* The fields of an argument.
Fields == {"obj", "done", "ignore", "size", "null", "value", "cells"}

\* An argument that CffiArgPrepare has made.
ArgReady(ta, arg) ==
    /\ DOMAIN arg = Fields
    /\ arg.done = TRUE /\ arg.ignore \in BOOLEAN /\ arg.null \in BOOLEAN
    /\ ObjReady(ta, arg)
    /\ IsOutput(ta) /\ ~Has(ta, "retval") /\ ~arg.ignore => arg.obj.name \in Var
    /\ arg.value \in Int
    /\ IF ta.size = VLA THEN arg.size \in Nat ELSE arg.size = ta.size
    /\ arg.null => NullFor(ta, arg)
    /\ ~arg.null => CellsReady(ta, arg)

\* One that it has yet to make.
ArgWaits(ta, arg) == arg = Fresh(arg.obj) /\ ObjReady(ta, arg)

\* The first pass leaves arrays with a count to the second.
FirstPass ==
    \A i \in Params : IF i < at /\ ~IsVLA(i) THEN ArgReady(Type(i), args[i])
                                             ELSE ArgWaits(Type(i), args[i])

\* An array has the size that its counter holds.
Agrees(i) == IsVLA(i) => args[i].size = args[CountOf(i)].value

\* In the second all others are ready.
SecondPass ==
    \A i \in Params : IF i < at \/ ~IsVLA(i) THEN ArgReady(Type(i), args[i]) /\ Agrees(i)
                                             ELSE ArgWaits(Type(i), args[i])

\* C and the code that stores outputs find every argument ready.
AllReady == \A i \in Params : ArgReady(Type(i), args[i])

\* An output that the call is to store, and one that no other is stored over.
Wants(i) == IsOutput(Type(i)) /\ ~Skipped(Type(i), args[i]) /\ Wanted(Type(i))

Alone(i) == \A j \in Params \ {i} : Wants(j) => StoreTarget(j) # StoreTarget(i)

\* An output that is stored holds what C left in the argument.
Settled(i) ==
    Wants(i) =>
       /\ ~ReadsNull(args[i], Reported(i))
       /\ Alone(i) => vars[StoreTarget(i)] \in Readings(Type(i), args[i], Reported(i))

\* Types, and how far the call is.
ArgsTyped ==
    /\ vars \in [Var \cup {Result} -> Values]
    /\ phase \in {"idle", "pass1", "pass2", "running", "storing", "gone"}
    /\ proto = NoProto => phase = "idle" /\ outcome = "none"
    /\ phase \in {"pass1", "pass2", "running", "storing"} => at \in Params /\ outcome = "none"
    /\ phase \in {"pass1", "pass2", "running", "storing"} \/ outcome \in {"ok", "panic"}
          => DOMAIN args = Params
    /\ held \in BOOLEAN

\* Where the code reads through NULL.
CrashKnown ==
    \E i \in Params : /\ Type(i).base \in {"pointer", "struct"}
                      /\ Type(i).size = Scalar /\ Has(Type(i), "nullifempty")

\* Where the code panics, with a C function that stays in its buffers.
PanicKnown ==
    \E i \in Params : /\ StringCells(Type(i).base) /\ IsVLA(i)
                      /\ args[CountOf(i)].value # args[i].size

\* The inductive invariant.
ArgsInv ==
    /\ ProtoParsed /\ ArgsTyped
    /\ phase = "pass1" => FirstPass
    /\ phase = "pass2" => SecondPass
    /\ phase \in {"running", "storing"} \/ outcome = "ok" => AllReady
    /\ phase = "running" /\ at = 1 => \A i \in Params : Agrees(i)
    /\ phase = "storing" => \A i \in 1 .. at - 1 : Settled(i)
    /\ outcome = "ok" => \A i \in Params : Settled(i)
    /\ outcome = "crash" => CrashKnown
    /\ outcome = "panic" => PanicKnown
-----------------------------------------------------------------------------
(* Prototypes.                                                             *)

\* A set of parameters has a first one.
LEMMA FirstOf ==
    ASSUME NEW S, S \subseteq Nat, S # {}
    PROVE  \E k \in S : \A j \in S : k <= j
<1> DEFINE R == OpToRel(<, Nat)
<1>1. IsWellFoundedOn(R, Nat)
      BY NatLessThanWellFounded
<1>2. \A x, y : <<x, y>> \in R <=> x \in Nat /\ y \in Nat /\ x < y
      BY DEF OpToRel
<1> HIDE DEF R
<1>3. PICK k \in S : \A j \in S : ~(<<j, k>> \in R)
      BY <1>1, WFMin
<1>4. ASSUME NEW j \in S PROVE k <= j
  <2>1. j \in Nat /\ k \in Nat /\ ~(j < k)
        BY <1>2, <1>3
  <2> QED BY <2>1
<1> QED BY <1>4

\* What declares a parameter and is accepted is ready for CffiArgPrepare.
LEMMA ParamDeclared ==
    ASSUME NEW base \in ArgTypes, NEW size \in Nat \cup {Scalar},
           NEW annots \in Seq(Annotations), NEW ta,
           ta = Declare(TypeParse(base, size), annots, {"param"}), ta.ok
    PROVE  ParamReady(ta) /\ ta.base = base /\ ta.size = size
<1>a. PICK t0 : t0 = TypeParse(base, size)
      OBVIOUS
<1>b. PICK tb : tb = Annotated(t0, annots, {"param"})
      OBVIOUS
<1>1. t0.ok /\ tb.ok /\ ta = ParamParse(tb) /\ ParamParse(tb).ok
      BY <1>a, <1>b, DeclareSteps, InEachContext
<1>2. base \in BaseTypes /\ size \in Int
      BY DEF ArgTypes, BaseTypes, StructTypes, CharTypes, Scalar
<1>3. Clean(t0)
      BY <1>a, <1>1, <1>2, CleanBase
<1>4. /\ t0 = Parsed(base, size, base = "vstruct" \/ size = VLA, {}, "none")
      /\ base \in CharTypes => size # Scalar
      BY <1>a, <1>1 DEF TypeParse, Rejected
<1>5. t0.base = base /\ t0.size = size /\ t0.flags = {} /\ t0.slot = "none"
      BY <1>4 DEF Parsed
<1>6. /\ Clean(tb) /\ tb.base = base /\ tb.size = size
      /\ tb.flags = AddedBy(annots, Len(annots), {"param"})
  <2>1. /\ Clean(tb) /\ \A field \in {"base", "size", "varsize"} : tb[field] = t0[field]
        /\ tb.flags = t0.flags \cup AddedBy(annots, Len(annots), {"param"})
        BY <1>1, <1>3, <1>b, AnnotatedShape
  <2>2. tb["base"] = t0["base"] /\ tb["size"] = t0["size"]
        BY <2>1
  <2> QED BY <1>5, <2>1, <2>2
<1>7. "onerror" \notin tb.flags
  <2>1. \A a : "onerror" \notin Adds(a, {"param"})
        BY DEF Adds, ErrorMask
  <2> QED BY <1>6, <2>1 DEF AddedBy
<1>8. Prepared(ta)
      BY <1>1, <1>6, ParamUsable
<1>9. /\ IsOutput(tb) => ta = [tb EXCEPT !.flags = @ \cup {"byref"}] /\ tb.slot = "none"
      /\ ~IsOutput(tb) => ta = [tb EXCEPT !.flags = InFlags(tb)]
      BY <1>1, <1>7 DEF ParamParse, Rejected
<1>10. ta.base = base /\ ta.size = size /\ ta.slot = tb.slot
       BY <1>6, <1>9 DEF Clean, Typed
<1>11. IsOutput(ta) => ta.slot = "none"
  <2>1. CASE IsOutput(tb)
        BY <2>1, <1>9, <1>10
  <2>2. CASE ~IsOutput(tb)
    <3>1. ta.flags = InFlags(tb)
          BY <2>2, <1>6, <1>9 DEF Clean, Typed
    <3> QED BY <2>2, <3>1 DEF IsOutput, InFlags
  <2> QED BY <2>1, <2>2
<1>12. /\ Has(ta, "in") <=> ~IsOutput(ta)
       /\ Has(ta, "inout") => ~Has(ta, "out")
  <2>1. PICK dir \in Direction : ta.flags \cap Direction = {dir}
        BY <1>8 DEF Prepared, Directions
  <2> QED BY <2>1 DEF Direction, Has, IsOutput
<1>13. Has(ta, "retval") => Has(ta, "out")
       BY <1>8 DEF Prepared, Has
<1> QED BY <1>4, <1>10, <1>11, <1>12, <1>13 DEF ParamReady

\* CffiPrototypeParse leaves parameters that are ready, and counts that are
\* scalar integers.
LEMMA ParsedReady ==
    ASSUME ProtoParsed
    PROVE  ProtoReady
<1>1. CASE proto = NoProto
      BY <1>1 DEF ProtoReady, Params, NoProto
<1>2. CASE proto # NoProto
  <2>1. PICK p \in Prototypes : PrototypeAccepted(p, ParamTypes(p)) /\ proto = PrototypeParse(p)
        BY <1>2 DEF ProtoParsed
  <2>2. PICK types : types = ParamTypes(p)
        OBVIOUS
  <2>3. p.params \in Seq({p.params[i] : i \in DOMAIN p.params})
        BY ArgsAssumption DEF PrototypeShape
  <2>4. PICK n \in Nat : DOMAIN p.params = 1 .. n
        BY <2>3, LenProperties
  <2>5. /\ DOMAIN types = 1 .. n
        /\ \A i \in 1 .. n : types[i] = Declare(TypeParse(p.params[i].type, p.params[i].size),
                                                p.params[i].annots, {"param"})
        BY <2>2, <2>4 DEF ParamTypes
  <2>6. /\ \A i \in 1 .. n : types[i].ok
        /\ \A i \in 1 .. n : types[i].size = VLA =>
              FindDynamicCountParam(p, types, p.params[i].count) # 0
        BY <2>1, <2>2, <2>5 DEF PrototypeAccepted
  <2>7. \A i \in 1 .. n : ParamReady(types[i])
    <3> SUFFICES ASSUME NEW i \in 1 .. n PROVE ParamReady(types[i])
        OBVIOUS
    <3>1. ParamShape(p.params[i])
          BY <2>4, ArgsAssumption DEF PrototypeShape
    <3>2. /\ p.params[i].type \in ArgTypes /\ p.params[i].size \in Nat \cup {Scalar}
          /\ p.params[i].annots \in Seq(Annotations)
          BY <3>1 DEF ParamShape, ArgTypes
    <3>3. PICK base, size, annots : base = p.params[i].type /\ size = p.params[i].size
                                    /\ annots = p.params[i].annots
          OBVIOUS
    <3>4. types[i] = Declare(TypeParse(base, size), annots, {"param"}) /\ types[i].ok
          BY <3>3, <2>5, <2>6
    <3>5. base \in ArgTypes /\ size \in Nat \cup {Scalar} /\ annots \in Seq(Annotations)
          BY <3>2, <3>3
    <3> QED BY <3>4, <3>5, ParamDeclared
  <2>8. \A name : FindDynamicCountParam(p, types, name) # 0 =>
           /\ FindDynamicCountParam(p, types, name) \in 1 .. n
           /\ CanCount(p, types, name, FindDynamicCountParam(p, types, name))
    <3> SUFFICES ASSUME NEW name, FindDynamicCountParam(p, types, name) # 0
                 PROVE  /\ FindDynamicCountParam(p, types, name) \in 1 .. n
                        /\ CanCount(p, types, name, FindDynamicCountParam(p, types, name))
        OBVIOUS
    <3>1. PICK found : found = {j \in 1 .. n : CanCount(p, types, name, j)}
          OBVIOUS
    <3>2. /\ found # {}
          /\ FindDynamicCountParam(p, types, name) = CHOOSE j \in found : \A k \in found : j <= k
          BY <3>1, <2>5 DEF FindDynamicCountParam
    <3>3. \E j \in found : \A k \in found : j <= k
          BY <3>1, <3>2, FirstOf
    <3>4. FindDynamicCountParam(p, types, name) \in found
          BY <3>2, <3>3
    <3> QED BY <3>1, <3>4
  <2>9. proto.params = [i \in 1 .. n |->
                           [ta |-> types[i],
                            counter |-> IF types[i].size = VLA
                                        THEN FindDynamicCountParam(p, types, p.params[i].count)
                                        ELSE 0]]
        BY <2>1, <2>2, <2>5 DEF PrototypeParse
  <2>10. Params = 1 .. n
    <3>1. DOMAIN proto.params = 1 .. n
          BY <2>9
    <3>2. Len(proto.params) = n
          BY <3>1, <2>9
    <3> QED BY <3>2 DEF Params
  <2>11. ASSUME NEW i \in 1 .. n
         PROVE  /\ Type(i) = types[i]
                /\ IsVLA(i) => CountOf(i) = FindDynamicCountParam(p, types, p.params[i].count)
         BY <2>9 DEF Type, IsVLA, CountOf
  <2> QED BY <2>6, <2>7, <2>8, <2>10, <2>11 DEF ProtoReady, IsVLA, CanCount
<1> QED BY <1>1, <1>2

\* Functions have parameters.
LEMMA SomeParams ==
    ASSUME ProtoParsed, proto # NoProto
    PROVE  Len(proto.params) \in Nat \ {0} /\ Params = 1 .. Len(proto.params)
<1>1. PICK p \in Prototypes : PrototypeAccepted(p, ParamTypes(p)) /\ proto = PrototypeParse(p)
      BY DEF ProtoParsed
<1>2. p.params # <<>> /\ p.params \in Seq({p.params[i] : i \in DOMAIN p.params})
      BY ArgsAssumption DEF PrototypeShape
<1>3. PICK n \in Nat \ {0} : DOMAIN p.params = 1 .. n
      BY <1>2, EmptySeq, LenProperties
<1>4. PICK e : proto.params = [i \in 1 .. n |-> e[i]]
  <2>1. DOMAIN proto.params = 1 .. n /\ proto.params = [i \in 1 .. n |-> proto.params[i]]
        BY <1>1, <1>3 DEF PrototypeParse, ParamTypes
  <2> QED BY <2>1
<1>5. Len(proto.params) = n
      BY <1>4
<1> QED BY <1>5 DEF Params

-----------------------------------------------------------------------------
(* Preparing an argument.                                                  *)

\* The argument CffiArgPrepare starts from, its names resolved.
Started(ta, arg, size) ==
    /\ DOMAIN arg = Fields
    /\ arg.ignore \in BOOLEAN /\ arg.null \in BOOLEAN /\ ~arg.null
    /\ arg.value = 0 /\ arg.size = size
    /\ ObjReady(ta, arg)
    /\ arg.ignore => IsOutput(ta) /\ Has(ta, "nullifempty")
    /\ IsOutput(ta) /\ ~Has(ta, "retval") /\ ~arg.ignore => arg.obj.name \in Var
    /\ IF ta.size = VLA THEN size \in Nat ELSE size = ta.size

\* The argument that was made is as it was before but for null, value and cells.
MadeOf(arg, end, null, value, cells) ==
    /\ end.res = "ok" /\ DOMAIN end.arg = Fields /\ end.arg.done = TRUE
    /\ end.arg.obj = arg.obj /\ end.arg.ignore = arg.ignore /\ end.arg.size = arg.size
    /\ end.arg.null = null /\ end.arg.value = value /\ end.arg.cells = cells

\* The three ways to make an argument.
LEMMA NullMade ==
    ASSUME NEW arg, DOMAIN arg = Fields
    PROVE  MadeOf(arg, Null(arg), TRUE, arg.value, arg.cells)
BY DEF Null, Ok, Fields, MadeOf

\* With cells.
LEMMA CellsMade ==
    ASSUME NEW arg, DOMAIN arg = Fields, NEW cells
    PROVE  MadeOf(arg, Cells(arg, cells), arg.null, arg.value, cells)
BY DEF Cells, Ok, Fields, MadeOf

\* With cells and a value.
LEMMA ValueMade ==
    ASSUME NEW arg, DOMAIN arg = Fields, NEW cells, NEW value
    PROVE  MadeOf(arg, Ok([arg EXCEPT !.value = value, !.cells = cells]), arg.null, value, cells)
BY DEF Ok, Fields, MadeOf

\* Once names are resolved, an argument that waits is what preparation starts from.
LEMMA NamesResolved ==
    ASSUME NEW ta, NEW arg, ArgWaits(ta, arg), NEW size,
           IF ta.size = VLA THEN size \in Nat ELSE size = ta.size
    PROVE  Started(ta, [WithNames(ta, arg) EXCEPT !.size = size], size)
<1>1. PICK ignore \in BOOLEAN :
         ignore <=> /\ IsOutput(ta) /\ ~Has(ta, "retval")
                    /\ Has(ta, "nullifempty") /\ arg.obj.name = ""
      OBVIOUS
<1>2. DOMAIN arg = Fields /\ arg.null = FALSE /\ arg.value = 0
  <2>1. PICK obj : arg = Fresh(obj)
        BY DEF ArgWaits
  <2> QED BY <2>1 DEF Fresh, Fields
<1>3. WithNames(ta, arg) = [arg EXCEPT !.ignore = ignore]
      BY <1>1 DEF WithNames
<1>4. PICK named : named = [WithNames(ta, arg) EXCEPT !.size = size]
      OBVIOUS
<1>5. /\ DOMAIN named = Fields /\ named.obj = arg.obj /\ named.ignore = ignore
      /\ named.size = size /\ named.null = FALSE /\ named.value = 0
      BY <1>2, <1>3, <1>4 DEF Fields
<1>6. ObjReady(ta, named) /\ ObjReady(ta, arg)
      BY <1>5 DEF ArgWaits, ObjReady
<1>7. IsOutput(ta) /\ ~Has(ta, "retval") /\ ~ignore => arg.obj.name \in Var
      BY <1>1, <1>6 DEF ObjReady
<1> QED BY <1>1, <1>4, <1>5, <1>6, <1>7 DEF Started

\* An input is a value, and one that is no output is set.
LEMMA InputTyped ==
    ASSUME vars \in [Var \cup {Result} -> Values], NEW ta, NEW size, NEW arg,
           Started(ta, arg, size)
    PROVE  /\ InputOf(ta, arg) \in Values
           /\ ~IsOutput(ta) => InputOf(ta, arg).set = TRUE
<1>1. \A n \in Int : Value(n) \in Values /\ Value(n).set = TRUE
      BY DEF Value, Values
<1>2. Unset \in Values
      BY DEF Unset, Values
<1>3. arg.obj.n \in Int
      BY DEF Started, ObjReady
<1>4. \A v \in Var : vars[v] \in Values
      OBVIOUS
<1> QED BY <1>1, <1>2, <1>3, <1>4 DEF InputOf

\* How preparation ends: with an argument that is ready, or with an error, or
\* where a struct or a pointer may be NULL, in a crash.
PrepareEnds(ta, arg, size, end) ==
    \/ end.res = "error"
    \/ /\ end.res = "crash"
       /\ ta.base \in {"pointer", "struct"} /\ ta.size = Scalar /\ Has(ta, "nullifempty")
    \/ /\ end.res = "ok"
       /\ ArgReady(ta, end.arg) /\ end.arg.size = size

\* Preparation ends well when memory is ready, or there may be none.
LEMMA MadeReady ==
    ASSUME NEW ta, NEW size, NEW arg, Started(ta, arg, size), NEW end,
           NEW null \in BOOLEAN, NEW value \in Int, NEW cells,
           MadeOf(arg, end, null, value, cells),
           null => NullFor(ta, arg), ~null => CellsReady(ta, end.arg)
    PROVE  PrepareEnds(ta, arg, size, end)
<1>1. PICK made : made = end.arg
      OBVIOUS
<1>2. /\ end.res = "ok" /\ DOMAIN made = Fields /\ made.done = TRUE
      /\ made.obj = arg.obj /\ made.ignore = arg.ignore /\ made.size = arg.size
      /\ made.null = null /\ made.value = value /\ made.cells = cells
      BY <1>1 DEF MadeOf
<1>3. made.null => NullFor(ta, made)
      BY <1>2 DEF NullFor
<1>4. ObjReady(ta, made)
      BY <1>2 DEF Started, ObjReady
<1>5. /\ made.ignore \in BOOLEAN /\ made.size = size
      /\ IsOutput(ta) /\ ~Has(ta, "retval") /\ ~made.ignore => made.obj.name \in Var
      /\ IF ta.size = VLA THEN made.size \in Nat ELSE made.size = ta.size
      BY <1>2 DEF Started
<1>6. ~made.null => CellsReady(ta, made)
      BY <1>1, <1>2
<1>7. ArgReady(ta, made)
      BY <1>2, <1>3, <1>4, <1>5, <1>6 DEF ArgReady
<1> QED BY <1>1, <1>2, <1>5, <1>7 DEF PrepareEnds

\* It may pass NULL where there is a reason to,
LEMMA NullEnds ==
    ASSUME NEW ta, NEW size, NEW arg, Started(ta, arg, size), NullFor(ta, arg)
    PROVE  PrepareEnds(ta, arg, size, Null(arg))
<1>1. PICK null \in BOOLEAN : null = TRUE
      OBVIOUS
<1>2. DOMAIN arg = Fields /\ arg.value \in Int
      BY DEF Started
<1>3. MadeOf(arg, Null(arg), null, arg.value, arg.cells)
      BY <1>1, <1>2, NullMade
<1> QED BY <1>1, <1>2, <1>3, MadeReady

\* memory that is filled as its type requires,
LEMMA FilledEnds ==
    ASSUME NEW ta, NEW size, NEW arg, Started(ta, arg, size), NEW value \in Int, NEW cells,
           StringCells(ta.base) => HoldsString(cells, size),
           ~StringCells(ta.base) => cells \in [1 .. Room(size) -> CellKinds],
           Initialised(ta) => \A k \in DOMAIN cells : cells[k] # "junk"
    PROVE  /\ PrepareEnds(ta, arg, size, Cells(arg, cells))
           /\ PrepareEnds(ta, arg, size, Ok([arg EXCEPT !.value = value, !.cells = cells]))
<1>1. PICK null \in BOOLEAN : ~null /\ null = arg.null
      BY DEF Started
<1>2. DOMAIN arg = Fields /\ arg.value \in Int /\ arg.size = size
      BY DEF Started
<1>3. /\ MadeOf(arg, Cells(arg, cells), null, arg.value, cells)
      /\ MadeOf(arg, Ok([arg EXCEPT !.value = value, !.cells = cells]), null, value, cells)
      BY <1>1, <1>2, CellsMade, ValueMade
<1>4. \A end : end.arg.size = size /\ end.arg.cells = cells => CellsReady(ta, end.arg)
      BY DEF CellsReady
<1>5. /\ CellsReady(ta, Cells(arg, cells).arg)
      /\ CellsReady(ta, Ok([arg EXCEPT !.value = value, !.cells = cells]).arg)
      BY <1>2, <1>3, <1>4 DEF MadeOf
<1> QED BY <1>1, <1>2, <1>3, <1>5, MadeReady

\* or fail; only structs and pointers may crash.
LEMMA OtherEnds ==
    ASSUME NEW ta, NEW size, NEW arg
    PROVE  /\ PrepareEnds(ta, arg, size, Fails(arg))
           /\ ta.base \in {"pointer", "struct"} /\ ta.size = Scalar /\ Has(ta, "nullifempty")
                 => PrepareEnds(ta, arg, size, Crashes(arg))
BY DEF PrepareEnds, Fails, Crashes

\* Scalars are prepared as scalars, arrays as arrays.
LEMMA SizeFits ==
    ASSUME NEW ta, ParamReady(ta), NEW size, NEW arg, Started(ta, arg, size)
    PROVE  /\ size \in Nat \cup {Scalar} /\ arg.size = size
           /\ size = Scalar <=> ta.size = Scalar
BY DEF Started, ParamReady, Scalar, VLA

\* The memory of a scalar.
LEMMA OneCell ==
    ASSUME NEW cell \in CellKinds
    PROVE  <<cell>> \in [1 .. Room(Scalar) -> CellKinds] /\ \A k \in DOMAIN <<cell>> : <<cell>>[k] = cell
BY DEF Room

\* Lengths are natural numbers.
LEMMA LengthNat ==
    ASSUME NEW n \in Int
    PROVE  Length(n) \in Nat
BY DEF Length

\* Buffers of characters hold a string from the start: the empty one, or the
\* one that was copied into them (CffiArgPrepareChars, CffiArgPrepareUniChars).
LEMMA CharsHoldString ==
    ASSUME NEW base, NEW size \in Nat, size # 0
    PROVE  /\ HoldsString(PrepareChars(base, size), size)
           /\ \A n \in Nat : n < size => HoldsString(WithString(PrepareChars(base, size), n), size)
<1>1. PICK cells : cells = PrepareChars(base, size)
      OBVIOUS
<1>2. /\ cells \in [1 .. size + 1 -> CellKinds]
      /\ cells[1] = "zero" /\ cells[size + 1] = "zero"
      BY <1>1 DEF PrepareChars, CellKinds
<1>3. HoldsString(cells, size)
      BY <1>2 DEF HoldsString
<1>4. ASSUME NEW n \in Nat, n < size PROVE HoldsString(WithString(cells, n), size)
  <2>1. PICK with : with = WithString(cells, n)
        OBVIOUS
  <2>2. /\ DOMAIN with = 1 .. size + 1
        /\ \A k \in 1 .. size + 1 :
              with[k] = IF k <= n THEN "data" ELSE IF k = n + 1 THEN "zero" ELSE cells[k]
        BY <1>2, <2>1 DEF WithString
  <2>3. with \in [1 .. size + 1 -> CellKinds]
        BY <1>2, <2>1, <2>2 DEF WithString, CellKinds
  <2>4. with[size + 1] = "zero"
        BY <1>2, <1>4, <2>2
  <2>5. with[1] # "junk"
        BY <1>2, <1>4, <2>2
  <2> QED BY <2>1, <2>3, <2>4, <2>5 DEF HoldsString
<1> QED BY <1>1, <1>3, <1>4

\* The memory of arrays that are not strings.
LEMMA FilledCells ==
    ASSUME NEW size \in Nat, size # 0, NEW n \in Nat, NEW cell \in CellKinds
    PROVE  /\ Repeat(cell, size) \in [1 .. Room(size) -> CellKinds]
           /\ Filled(n, size, cell) \in [1 .. Room(size) -> CellKinds]
           /\ cell # "junk" => /\ \A k \in DOMAIN Repeat(cell, size) : Repeat(cell, size)[k] # "junk"
                               /\ \A k \in DOMAIN Filled(n, size, cell) : Filled(n, size, cell)[k] # "junk"
BY DEF Repeat, Filled, Room, CellKinds, Scalar

\* Preparing a number.
LEMMA IntEnds ==
    ASSUME NEW ta, NEW size, NEW arg, Started(ta, arg, size), ParamReady(ta), size = Scalar,
           ta.base = "int", NEW input \in Values
    PROVE  PrepareEnds(ta, arg, size, PrepareInt(ta, arg, input))
<1>1. /\ ~StringCells(ta.base) /\ ~Initialised(ta) /\ input.n \in Int
      BY SizeFits DEF StringCells, Initialised, Values, Scalar
<1>2. CASE arg.ignore
      BY <1>2, NullEnds DEF PrepareInt, NullFor
<1>3. CASE ~arg.ignore /\ Has(ta, "out")
  <2>1. PICK cells : cells = <<"junk">>
        OBVIOUS
  <2>2. cells \in [1 .. Room(size) -> CellKinds]
        BY <2>1, OneCell DEF CellKinds
  <2>3. PrepareInt(ta, arg, input) = Cells(arg, cells)
        BY <1>3, <2>1 DEF PrepareInt
  <2>4. 0 \in Int
        OBVIOUS
  <2> QED BY <1>1, <2>2, <2>3, <2>4, FilledEnds
<1>4. CASE ~arg.ignore /\ ~Has(ta, "out")
  <2>1. PICK cells : cells = <<"data">>
        OBVIOUS
  <2>2. cells \in [1 .. Room(size) -> CellKinds]
        BY <2>1, OneCell DEF CellKinds
  <2>a. PICK value \in Int : value = input.n
        BY <1>1
  <2>3. PrepareInt(ta, arg, input) = Ok([arg EXCEPT !.value = value, !.cells = cells])
        BY <1>4, <2>1, <2>a DEF PrepareInt
  <2>4. PrepareEnds(ta, arg, size, Ok([arg EXCEPT !.value = value, !.cells = cells]))
        BY <1>1, <2>2, FilledEnds
  <2> QED BY <2>3, <2>4
<1>5. arg.ignore \in BOOLEAN
      BY DEF Started
<1> QED BY <1>2, <1>3, <1>4, <1>5

\* A pointer that is not there can only be an ignored one.
LEMMA PointerEnds ==
    ASSUME NEW ta, NEW size, NEW arg, Started(ta, arg, size), ParamReady(ta), size = Scalar,
           ta.base = "pointer", NEW input \in Values, ~input.set => Has(ta, "out") \/ arg.ignore
    PROVE  PrepareEnds(ta, arg, size, PreparePointer(ta, arg, input))
<1>1. /\ ~StringCells(ta.base) /\ ta.size = Scalar
      /\ arg.ignore => Has(ta, "nullifempty")
      BY SizeFits DEF StringCells, Started
<1>2. ASSUME NEW cell \in {"zero", "data"}
      PROVE  PrepareEnds(ta, arg, size, Cells(arg, <<cell>>))
  <2>1. PICK cells : cells = <<cell>>
        OBVIOUS
  <2>2. cells \in [1 .. Room(size) -> CellKinds] /\ \A k \in DOMAIN cells : cells[k] # "junk"
        BY <2>1, OneCell DEF CellKinds
  <2>3. 0 \in Int
        OBVIOUS
  <2> QED BY <1>1, <2>1, <2>2, <2>3, FilledEnds
<1>3. CASE Has(ta, "out")
      BY <1>2, <1>3 DEF PreparePointer
<1>4. CASE ~Has(ta, "out") /\ ~input.set
      BY <1>1, <1>4, OtherEnds DEF PreparePointer
<1>5. CASE ~Has(ta, "out") /\ input.set
  <2>1. \/ PreparePointer(ta, arg, input) = Fails(arg)
        \/ \E cell \in {"zero", "data"} : PreparePointer(ta, arg, input) = Cells(arg, <<cell>>)
        BY <1>5 DEF PreparePointer
  <2> QED BY <1>2, <2>1, OtherEnds
<1>6. input.set \in BOOLEAN
      BY DEF Values
<1> QED BY <1>3, <1>4, <1>5, <1>6

\* Preparing a struct: one that may be NULL and is an output without a variable
\* crashes (CffiArgPrepare reads the missing dictionary).
LEMMA StructEnds ==
    ASSUME NEW ta, NEW size, NEW arg, Started(ta, arg, size), ParamReady(ta), size = Scalar,
           ta.base = "struct", NEW input \in Values
    PROVE  PrepareEnds(ta, arg, size, PrepareStruct(ta, arg, input))
<1>1. ~StringCells(ta.base) /\ ~Initialised(ta) /\ ta.size = Scalar
      BY SizeFits DEF StringCells, Initialised
<1>2. ASSUME NEW cell \in {"junk", "data"}
      PROVE  PrepareEnds(ta, arg, size, Cells(arg, <<cell>>))
  <2>1. PICK cells : cells = <<cell>>
        OBVIOUS
  <2>2. cells \in [1 .. Room(size) -> CellKinds]
        BY <2>1, OneCell DEF CellKinds
  <2>3. 0 \in Int
        OBVIOUS
  <2> QED BY <1>1, <2>1, <2>2, <2>3, FilledEnds
<1>3. Has(ta, "nullifempty") => NullFor(ta, arg)
      BY <1>1 DEF NullFor
<1>4. \/ PrepareStruct(ta, arg, input) = Crashes(arg) /\ Has(ta, "nullifempty")
      \/ PrepareStruct(ta, arg, input) = Null(arg) /\ Has(ta, "nullifempty")
      \/ PrepareStruct(ta, arg, input) = Fails(arg)
      \/ \E cell \in {"junk", "data"} : PrepareStruct(ta, arg, input) = Cells(arg, <<cell>>)
      BY DEF PrepareStruct
<1> QED BY <1>1, <1>2, <1>3, <1>4, NullEnds, OtherEnds

\* Preparing an array of anything but characters.
LEMMA ListEnds ==
    ASSUME NEW ta, NEW size, NEW arg, Started(ta, arg, size), ParamReady(ta), size # Scalar,
           size # 0, ta.base \in {"int", "pointer", "struct"}, NEW input \in Values
    PROVE  PrepareEnds(ta, arg, size, PrepareList(ta, arg, input))
<1>1. /\ ~StringCells(ta.base) /\ size \in Nat /\ arg.size = size
      /\ Initialised(ta) => ta.base = "int"
      BY SizeFits DEF StringCells, Initialised
<1>2. Length(input.n) \in Nat
      BY LengthNat DEF Values
<1>3. CASE Has(ta, "out")
  <2>1. PICK cell \in CellKinds : cell = IF ta.base = "int" THEN "zero" ELSE "junk"
        BY DEF CellKinds
  <2>2. PrepareList(ta, arg, input) = Cells(arg, Repeat(cell, size))
        BY <1>1, <1>3, <2>1 DEF PrepareList
  <2>3. /\ Repeat(cell, size) \in [1 .. Room(size) -> CellKinds]
        /\ cell # "junk" => \A k \in DOMAIN Repeat(cell, size) : Repeat(cell, size)[k] # "junk"
        BY <1>1, FilledCells
  <2>4. 0 \in Int /\ (Initialised(ta) => cell # "junk")
        BY <1>1, <2>1
  <2> QED BY <1>1, <2>2, <2>3, <2>4, FilledEnds
<1>4. CASE ~Has(ta, "out")
  <2>1. PICK cells : cells = Filled(Length(input.n), size, "zero")
        OBVIOUS
  <2>2. PrepareList(ta, arg, input) = Cells(arg, cells)
        BY <1>1, <1>4, <2>1 DEF PrepareList
  <2>3. /\ cells \in [1 .. Room(size) -> CellKinds]
        /\ \A k \in DOMAIN cells : cells[k] # "junk"
        BY <1>1, <1>2, <2>1, FilledCells DEF CellKinds
  <2>4. 0 \in Int
        OBVIOUS
  <2> QED BY <1>1, <2>2, <2>3, <2>4, FilledEnds
<1> QED BY <1>3, <1>4

\* Preparing a string: one that is too long for its buffer is refused, for the
\* terminator too (CffiCharsFromTclString).
LEMMA StringEnds ==
    ASSUME NEW ta, NEW size, NEW arg, Started(ta, arg, size), ParamReady(ta), size # Scalar,
           size # 0, StringCells(ta.base), NEW input \in Values
    PROVE  PrepareEnds(ta, arg, size, PrepareString(ta, arg, input))
<1>1. size \in Nat /\ arg.size = size /\ ~Initialised(ta)
      BY SizeFits DEF StringCells, Initialised
<1>2. PICK n \in Nat : n = Length(input.n)
      BY LengthNat DEF Values
<1>3. ASSUME NEW cells, HoldsString(cells, size)
      PROVE  PrepareEnds(ta, arg, size, Cells(arg, cells))
  <2>1. 0 \in Int
        OBVIOUS
  <2> QED BY <1>1, <1>3, <2>1, FilledEnds
<1>4. Has(ta, "in") => NullFor(ta, arg)
      BY DEF NullFor
<1>5. PICK cells : cells = PrepareChars(ta.base, size)
      OBVIOUS
<1>6. HoldsString(cells, size) /\ (n < size => HoldsString(WithString(cells, n), size))
      BY <1>1, <1>5, CharsHoldString
<1>7. CASE Has(ta, "out")
  <2>1. PrepareString(ta, arg, input) = Cells(arg, cells)
        BY <1>1, <1>5, <1>7 DEF PrepareString
  <2> QED BY <1>3, <1>6, <2>1
<1>8. CASE ~Has(ta, "out")
  <2>1. \/ PrepareString(ta, arg, input) = Fails(arg)
        \/ PrepareString(ta, arg, input) = Null(arg) /\ Has(ta, "in")
        \/ PrepareString(ta, arg, input) = Cells(arg, WithString(cells, n)) /\ ~(n >= size)
        BY <1>1, <1>2, <1>5, <1>8 DEF PrepareString
  <2>2. ~(n >= size) => n < size
        BY <1>1
  <2> QED BY <1>3, <1>4, <1>6, <2>1, <2>2, NullEnds, OtherEnds
<1> QED BY <1>7, <1>8

\* Preparing an array of bytes.
LEMMA BytesEnds ==
    ASSUME NEW ta, NEW size, NEW arg, Started(ta, arg, size), ParamReady(ta), size # Scalar,
           size # 0, ta.base = "bytes", NEW input \in Values
    PROVE  PrepareEnds(ta, arg, size, PrepareBytes(ta, arg, input))
<1>1. size \in Nat /\ arg.size = size /\ ~Initialised(ta) /\ ~StringCells(ta.base)
      BY SizeFits DEF StringCells, Initialised
<1>2. PICK n \in Nat : n = Length(input.n)
      BY LengthNat DEF Values
<1>3. ASSUME NEW cells, cells \in [1 .. Room(size) -> CellKinds]
      PROVE  PrepareEnds(ta, arg, size, Cells(arg, cells))
  <2>1. 0 \in Int
        OBVIOUS
  <2> QED BY <1>1, <1>3, <2>1, FilledEnds
<1>4. Has(ta, "in") => NullFor(ta, arg)
      BY DEF NullFor
<1>5. /\ Repeat("junk", size) \in [1 .. Room(size) -> CellKinds]
      /\ Filled(n, size, "junk") \in [1 .. Room(size) -> CellKinds]
      BY <1>1, FilledCells DEF CellKinds
<1>6. \/ PrepareBytes(ta, arg, input) = Fails(arg)
      \/ PrepareBytes(ta, arg, input) = Null(arg) /\ Has(ta, "in")
      \/ PrepareBytes(ta, arg, input) = Cells(arg, Repeat("junk", size))
      \/ PrepareBytes(ta, arg, input) = Cells(arg, Filled(n, size, "junk"))
      BY <1>1, <1>2 DEF PrepareBytes
<1> QED BY <1>3, <1>4, <1>5, <1>6, NullEnds, OtherEnds

\* CffiArgPrepare makes an argument ready or fails, whatever the type.
LEMMA PreparedReady ==
    ASSUME vars \in [Var \cup {Result} -> Values], NEW ta, ParamReady(ta),
           NEW arg, ArgWaits(ta, arg), NEW size,
           IF ta.size = VLA THEN size \in Nat ELSE size = ta.size
    PROVE  PrepareEnds(ta, arg, size, ArgPrepare(ta, arg, size))
<1>1. PICK named : named = [WithNames(ta, arg) EXCEPT !.size = size]
      OBVIOUS
<1>2. PICK input : input = InputOf(ta, named)
      OBVIOUS
<1>3. Started(ta, named, size)
      BY <1>1, NamesResolved
<1>4. input \in Values /\ (~IsOutput(ta) => input.set = TRUE)
      BY <1>2, <1>3, InputTyped
<1>5. \A end : PrepareEnds(ta, named, size, end) => PrepareEnds(ta, arg, size, end)
      BY DEF PrepareEnds
<1>6. ArgPrepare(ta, arg, size) =
         IF Has(ta, "inout") /\ ~named.ignore /\ ~input.set THEN Fails(arg)
         ELSE Prepare(ta, named, input)
      BY <1>1, <1>2 DEF ArgPrepare
<1>7. CASE Has(ta, "inout") /\ ~named.ignore /\ ~input.set
      BY <1>6, <1>7, OtherEnds
<1>8. CASE ~(Has(ta, "inout") /\ ~named.ignore /\ ~input.set)
  <2>1. ~input.set => Has(ta, "out") \/ named.ignore
        BY <1>4, <1>8 DEF IsOutput, Has
  <2>2. /\ size \in Nat \cup {Scalar} /\ named.size = size
        /\ ta.base \in ArgTypes /\ (ta.base \in CharTypes => size # Scalar)
        BY <1>3, SizeFits DEF ParamReady
  <2>3. CASE size # Scalar /\ (size = 0 \/ named.ignore)
    <3>1. NullFor(ta, named)
          BY <2>2, <2>3 DEF NullFor
    <3>2. Prepare(ta, named, input) \in {Null(named), Fails(named)}
          BY <2>2, <2>3 DEF Prepare
    <3> QED BY <1>3, <1>5, <1>6, <1>8, <3>1, <3>2, NullEnds, OtherEnds
  <2>4. CASE ~(size # Scalar /\ (size = 0 \/ named.ignore))
    <3>1. CASE size = Scalar
      <4>1. ta.base \in {"int", "pointer", "struct"}
            BY <2>2, <3>1 DEF ArgTypes
      <4>2. /\ ta.base = "int" => Prepare(ta, named, input) = PrepareInt(ta, named, input)
            /\ ta.base = "pointer" => Prepare(ta, named, input) = PreparePointer(ta, named, input)
            /\ ta.base = "struct" => Prepare(ta, named, input) = PrepareStruct(ta, named, input)
            BY <2>2, <2>4, <3>1 DEF Prepare, StringCells
      <4> QED BY <1>3, <1>4, <1>5, <1>6, <1>8, <2>1, <3>1, <4>1, <4>2,
                 IntEnds, PointerEnds, StructEnds
    <3>2. CASE size # Scalar
      <4>1. size # 0
            BY <2>4, <3>2
      <4>2. /\ ta.base \in {"int", "pointer", "struct"}
                  => Prepare(ta, named, input) = PrepareList(ta, named, input)
            /\ StringCells(ta.base) => Prepare(ta, named, input) = PrepareString(ta, named, input)
            /\ ta.base = "bytes" => Prepare(ta, named, input) = PrepareBytes(ta, named, input)
            BY <2>2, <2>4, <3>2 DEF Prepare, StringCells
      <4>3. ta.base \in {"int", "pointer", "struct"} \/ StringCells(ta.base) \/ ta.base = "bytes"
            BY <2>2 DEF ArgTypes, CharTypes, StringCells
      <4> QED BY <1>3, <1>4, <1>5, <1>6, <1>8, <3>2, <4>1, <4>2, <4>3,
                 ListEnds, StringEnds, BytesEnds
    <3> QED BY <3>1, <3>2
  <2> QED BY <2>3, <2>4
<1> QED BY <1>7, <1>8

-----------------------------------------------------------------------------
(* What C leaves, and what is stored of it.                                *)

\* C writes no cell as nobody's, and leaves the guard alone.
LEMMA WrittenHoldsString ==
    ASSUME NEW cells, NEW size \in Nat, size # 0, HoldsString(cells, size), NEW n \in 0 .. size
    PROVE  /\ HoldsString(Upto(cells, n), size)
           /\ n < size => HoldsString(WithString(cells, n), size)
<1>1. /\ cells \in [1 .. size + 1 -> CellKinds]
      /\ cells[1] # "junk" /\ cells[size + 1] = "zero"
      BY DEF HoldsString
<1>2. HoldsString(Upto(cells, n), size)
  <2>1. PICK upto : upto = Upto(cells, n)
        OBVIOUS
  <2>2. /\ upto \in [1 .. size + 1 -> CellKinds]
        /\ \A k \in 1 .. size + 1 : upto[k] = IF k <= n THEN "data" ELSE cells[k]
        BY <1>1, <2>1 DEF Upto, CellKinds
  <2>3. upto[1] # "junk" /\ upto[size + 1] = "zero"
        BY <1>1, <2>2
  <2> QED BY <2>1, <2>2, <2>3 DEF HoldsString
<1>3. ASSUME n < size PROVE HoldsString(WithString(cells, n), size)
  <2>1. PICK with : with = WithString(cells, n)
        OBVIOUS
  <2>2. /\ with \in [1 .. size + 1 -> CellKinds]
        /\ \A k \in 1 .. size + 1 :
              with[k] = IF k <= n THEN "data" ELSE IF k = n + 1 THEN "zero" ELSE cells[k]
        BY <1>1, <2>1 DEF WithString, CellKinds
  <2>3. with[1] # "junk" /\ with[size + 1] = "zero"
        BY <1>1, <1>3, <2>2
  <2> QED BY <2>1, <2>2, <2>3 DEF HoldsString
<1> QED BY <1>2, <1>3

\* Whatever C does to a ready argument, it stays ready.
LEMMA WrittenReady ==
    ASSUME NEW ta, ParamReady(ta), NEW arg, ArgReady(ta, arg), NEW left \in Written(ta, arg)
    PROVE  ArgReady(ta, left)
<1>1. /\ DOMAIN arg = Fields /\ arg.null \in BOOLEAN /\ arg.size \in Nat \cup {Scalar}
      /\ arg.size = Scalar <=> ta.size = Scalar
      BY DEF ArgReady, ParamReady, Scalar, VLA
<1>2. ASSUME NEW made, NEW value \in Int, DOMAIN made = Fields,
             \A field \in Fields \ {"cells", "value"} : made[field] = arg[field],
             made.value = value, ~arg.null, CellsReady(ta, made)
      PROVE  ArgReady(ta, made)
  <2>1. /\ made.obj = arg.obj /\ made.done = arg.done /\ made.ignore = arg.ignore
        /\ made.size = arg.size /\ made.null = arg.null
        BY <1>2 DEF Fields
  <2> QED BY <1>2, <2>1 DEF ArgReady, ObjReady, NullFor
<1>3. CASE arg.null \/ left = arg
  <2>1. left = arg
        BY <1>3 DEF Written
  <2> QED BY <2>1
<1>4. CASE ~arg.null /\ left # arg /\ arg.size = Scalar /\ ta.base = "int"
  <2>1. PICK n \in -1 .. MaxCount : left = [arg EXCEPT !.value = n, !.cells = <<"data">>]
        BY <1>4 DEF Written
  <2>2. PICK cells : cells = <<"data">>
        OBVIOUS
  <2>3. /\ DOMAIN left = Fields /\ left.value = n /\ left.cells = cells /\ left.size = Scalar
        /\ \A field \in Fields \ {"cells", "value"} : left[field] = arg[field]
        BY <1>1, <1>4, <2>1, <2>2 DEF Fields
  <2>4. cells \in [1 .. Room(Scalar) -> CellKinds] /\ \A k \in DOMAIN cells : cells[k] # "junk"
        BY <2>2, OneCell DEF CellKinds
  <2>5. CellsReady(ta, left)
        BY <1>4, <2>3, <2>4 DEF CellsReady, StringCells
  <2>6. n \in Int
        OBVIOUS
  <2> QED BY <1>2, <1>4, <2>3, <2>5, <2>6
<1>5. CASE ~arg.null /\ left # arg /\ ~(arg.size = Scalar /\ ta.base = "int")
  <2>1. PICK size \in Nat : size = Room(arg.size)
        BY <1>1 DEF Room
  <2>2. PICK cells : left = [arg EXCEPT !.cells = cells]
                     /\ \/ \E n \in 0 .. size : cells = Upto(arg.cells, n)
                        \/ StringCells(ta.base) /\ \E n \in 0 .. size - 1 : cells = WithString(arg.cells, n)
        BY <1>5, <2>1 DEF Written, Room
  <2>3. /\ DOMAIN left = Fields /\ left.value = arg.value /\ left.cells = cells
        /\ left.size = arg.size
        /\ \A field \in Fields \ {"cells", "value"} : left[field] = arg[field]
        BY <1>1, <2>2 DEF Fields
  <2>4. CASE StringCells(ta.base)
    <3>1. arg.size # Scalar /\ HoldsString(arg.cells, arg.size)
          BY <1>1, <1>5, <2>4 DEF ArgReady, CellsReady, ParamReady, StringCells, CharTypes
    <3>2. size = arg.size
          BY <2>1, <3>1 DEF Room
    <3>3. HoldsString(cells, size)
      <4>1. CASE size = 0
        <5>1. cells = Upto(arg.cells, 0)
              BY <2>2, <4>1
        <5>2. DOMAIN arg.cells = 1 .. 1 /\ arg.cells \in [1 .. 1 -> CellKinds]
              BY <3>1, <3>2, <4>1 DEF HoldsString
        <5>3. cells = arg.cells
              BY <5>1, <5>2 DEF Upto
        <5> QED BY <3>1, <3>2, <5>3
      <4>2. CASE size # 0
        <5>1. \/ \E n \in 0 .. size : cells = Upto(arg.cells, n)
              \/ \E n \in 0 .. size : n < size /\ cells = WithString(arg.cells, n)
              BY <2>2
        <5> QED BY <3>1, <3>2, <4>2, <5>1, WrittenHoldsString
      <4> QED BY <4>1, <4>2
    <3>4. CellsReady(ta, left)
          BY <2>3, <2>4, <3>2, <3>3 DEF CellsReady, Initialised, StringCells
    <3>5. arg.value \in Int
          BY DEF ArgReady
    <3> QED BY <1>2, <1>5, <2>3, <3>4, <3>5
  <2>5. CASE ~StringCells(ta.base)
    <3>1. /\ arg.cells \in [1 .. size -> CellKinds]
          /\ Initialised(ta) => \A k \in DOMAIN arg.cells : arg.cells[k] # "junk"
          BY <1>5, <2>1, <2>5 DEF ArgReady, CellsReady
    <3>2. PICK n \in Nat : cells = Upto(arg.cells, n)
          BY <2>2, <2>5
    <3>3. /\ cells \in [1 .. size -> CellKinds]
          /\ Initialised(ta) => \A k \in DOMAIN cells : cells[k] # "junk"
          BY <3>1, <3>2 DEF Upto, CellKinds
    <3>4. CellsReady(ta, left)
          BY <2>1, <2>3, <2>5, <3>3 DEF CellsReady
    <3>5. arg.value \in Int
          BY DEF ArgReady
    <3> QED BY <1>2, <1>5, <2>3, <3>4, <3>5
  <2> QED BY <2>4, <2>5
<1> QED BY <1>1, <1>3, <1>4, <1>5

\* A string ends within what is reported of it, and nothing that nobody wrote comes
\* before, unless C left it open: the first cell that is not data is a terminator,
\* or would be the first of all.
LEMMA StringRead ==
    ASSUME NEW cells, NEW size \in Nat, HoldsString(cells, size), NEW k \in 0 .. size,
           NEW e \in EndsFound(cells, k)
    PROVE  /\ e - 1 \in 0 .. k
           /\ AnyJunk(cells, e - 1) => LeftOpen(cells)
<1>1. cells \in [1 .. size + 1 -> CellKinds] /\ cells[1] # "junk"
      BY DEF HoldsString
<1>2. e \in 1 .. k + 1 /\ \A j \in 1 .. e - 1 : cells[j] # "zero"
      BY DEF EndsFound
<1>3. ASSUME AnyJunk(cells, e - 1) PROVE LeftOpen(cells)
  <2>1. PICK j \in 1 .. size + 1 : j <= e - 1 /\ cells[j] = "junk"
        BY <1>1, <1>3 DEF AnyJunk
  <2>2. PICK unwritten : unwritten = {i \in 1 .. size + 1 : cells[i] # "data"}
        OBVIOUS
  <2>3. j \in unwritten /\ unwritten \subseteq Nat
        BY <2>1, <2>2
  <2>4. PICK m \in unwritten : \A i \in unwritten : m <= i
        BY <2>3, FirstOf
  <2>5. m \in 1 .. size + 1 /\ m <= j /\ cells[m] # "data"
        BY <2>2, <2>3, <2>4
  <2>6. cells[m] = "junk"
    <3>1. m \in 1 .. e - 1
          BY <1>2, <2>1, <2>5
    <3>2. cells[m] \in CellKinds
          BY <1>1, <2>5
    <3> QED BY <1>2, <2>5, <3>1, <3>2 DEF CellKinds
  <2>7. \A i \in 1 .. m - 1 : cells[i] = "data"
    <3> SUFFICES ASSUME NEW i \in 1 .. m - 1 PROVE cells[i] = "data"
        OBVIOUS
    <3>1. i \in 1 .. size + 1 /\ ~(m <= i)
          BY <2>5
    <3> QED BY <2>2, <2>4, <3>1
  <2>8. m > 1 /\ m \in DOMAIN cells
        BY <1>1, <2>5, <2>6
  <2> QED BY <2>6, <2>7, <2>8 DEF LeftOpen
<1> QED BY <1>2, <1>3

\* What is read from a list.
LEMMA ListRead ==
    ASSUME NEW cells, NEW n \in Nat
    PROVE  ReadList(cells, n) \in Values /\ ReadList(cells, n).n = n
           /\ (ReadList(cells, n).junk <=> AnyJunk(cells, n))
<1>1. PICK junk \in BOOLEAN : junk <=> AnyJunk(cells, n)
      OBVIOUS
<1>2. ReadList(cells, n) = [set |-> TRUE, n |-> n, junk |-> junk]
      BY <1>1 DEF ReadList, AnyJunk
<1>3. [set |-> TRUE, n |-> n, junk |-> junk] \in Values
      BY DEF Values
<1> QED BY <1>1, <1>2, <1>3

\* The numbers of elements that an output may be read with.
Readable(ta, arg, k) ==
    /\ k = arg.size \/ (ta.size = VLA /\ k \in 0 .. arg.size)
    /\ arg.null => k = 0

\* Read, with its arms kept apart.
LEMMA ReadArms ==
    ASSUME NEW ta, NEW arg, NEW k \in Int
    PROVE  /\ k = 0 => Read(ta, arg, k) = Value(0)
           /\ k = Scalar /\ ta.base = "int"
                 => Read(ta, arg, k) = [set |-> TRUE, n |-> arg.value, junk |-> AnyJunk(arg.cells, 1)]
           /\ k = Scalar /\ ta.base \in {"pointer", "struct"}
                 => Read(ta, arg, k) = [set |-> TRUE, n |-> IF arg.cells = <<"zero">> THEN 0 ELSE 1,
                                        junk |-> AnyJunk(arg.cells, 1)]
           /\ k > 0 => Read(ta, arg, k) = ReadList(arg.cells, k)
<1>1. CASE k = 0
      BY <1>1 DEF Read, Scalar
<1>2. CASE k = Scalar /\ ta.base = "int"
      BY <1>2 DEF Read, Scalar
<1>3. CASE k = Scalar /\ ta.base \in {"pointer", "struct"}
      BY <1>3 DEF Read, Scalar
<1>4. CASE k > 0
      BY <1>4 DEF Read, Scalar
<1> QED BY <1>1, <1>2, <1>3, <1>4 DEF Scalar

\* What an argument that is ready is read as: a value that is initialised where
\* the type promises it, as long as was asked for, and strings no longer than that.
LEMMA ReadReady ==
    ASSUME NEW ta, ParamReady(ta), NEW arg, ArgReady(ta, arg), NEW k, Readable(ta, arg, k),
           NEW value \in Readings(ta, arg, k)
    PROVE  /\ value \in Values
           /\ \/ Initialised(ta)
              \/ StringCells(ta.base) /\ ~LeftOpen(arg.cells)
              => ~value.junk
           /\ ta.base = "int" /\ ta.size = Scalar => value.n = arg.value
           /\ ta.size # Scalar /\ ~StringCells(ta.base) => value.n = k
           /\ StringCells(ta.base) => value.n \in 0 .. k /\ k <= arg.size
<1>1. /\ k \in Nat \cup {Scalar} /\ arg.size \in Nat \cup {Scalar} /\ arg.value \in Int
      /\ k = Scalar <=> ta.size = Scalar
      /\ arg.size = Scalar <=> ta.size = Scalar
      /\ k # Scalar => k <= arg.size
      BY DEF Readable, ArgReady, ParamReady, Scalar, VLA
<1>2. StringCells(ta.base) => ta.size # Scalar
      BY DEF ParamReady, StringCells, CharTypes
<1>0. k \in Int
      BY <1>1 DEF Scalar
<1>r. ~(k # 0 /\ StringCells(ta.base)) => value = Read(ta, arg, k)
      BY DEF Readings
<1>3. CASE k = 0
  <2>1. value = Value(0)
        BY <1>0, <1>3, <1>r, ReadArms
  <2>2. ta.size # Scalar
        BY <1>1, <1>3 DEF Scalar
  <2>3. Value(0) \in Values /\ Value(0).n = 0 /\ ~Value(0).junk
        BY DEF Values, Value
  <2>4. k <= arg.size
        BY <1>1, <1>3 DEF Scalar
  <2> QED BY <1>3, <2>1, <2>2, <2>3, <2>4
<1>4. CASE k # 0 /\ StringCells(ta.base)
  <2>1. HoldsString(arg.cells, arg.size) /\ arg.size \in Nat
        BY <1>1, <1>2, <1>4 DEF ArgReady, CellsReady, Readable
  <2>2. PICK e \in EndsFound(arg.cells, k) : value = ReadList(arg.cells, e - 1)
        BY <1>4 DEF Readings
  <2>3. k \in 0 .. arg.size
        BY <1>1, <1>2, <1>4, <2>1
  <2>4. PICK n \in 0 .. k : n = e - 1 /\ (AnyJunk(arg.cells, n) => LeftOpen(arg.cells))
        BY <2>1, <2>2, <2>3, StringRead
  <2>5. n \in Nat
        BY <2>3, <2>4
  <2>6. value \in Values /\ value.n = n /\ (value.junk => LeftOpen(arg.cells))
        BY <2>2, <2>4, <2>5, ListRead
  <2>7. ~Initialised(ta)
        BY <1>4 DEF Initialised, StringCells
  <2> QED BY <1>2, <1>4, <2>3, <2>4, <2>6, <2>7 DEF StringCells
<1>5. CASE k # 0 /\ ~StringCells(ta.base) /\ k = Scalar
  <2>1. /\ arg.cells \in [1 .. 1 -> CellKinds]
        /\ Initialised(ta) => \A j \in DOMAIN arg.cells : arg.cells[j] # "junk"
        BY <1>1, <1>5 DEF ArgReady, CellsReady, Readable, Room
  <2>2. ta.base \in {"int", "pointer", "struct"}
        BY <1>1, <1>5 DEF ParamReady, ArgTypes
  <2>3. PICK junk \in BOOLEAN : junk <=> AnyJunk(arg.cells, 1)
        OBVIOUS
  <2>4. \E n \in Int : /\ value = [set |-> TRUE, n |-> n, junk |-> junk]
                       /\ ta.base = "int" => n = arg.value
    <3>1. CASE ta.base = "int"
      <4>1. value = [set |-> TRUE, n |-> arg.value, junk |-> junk]
        <5>1. value = [set |-> TRUE, n |-> arg.value, junk |-> AnyJunk(arg.cells, 1)]
              BY <1>0, <1>5, <1>r, <3>1, ReadArms
        <5> QED BY <2>3, <5>1 DEF AnyJunk
      <4> QED BY <1>1, <4>1
    <3>2. CASE ta.base # "int"
      <4>1. PICK n \in Int : n = IF arg.cells = <<"zero">> THEN 0 ELSE 1
            OBVIOUS
      <4>2. value = [set |-> TRUE, n |-> n, junk |-> junk]
        <5>1. value = [set |-> TRUE, n |-> n, junk |-> AnyJunk(arg.cells, 1)]
              BY <1>0, <1>5, <1>r, <2>2, <3>2, <4>1, ReadArms
        <5> QED BY <2>3, <5>1 DEF AnyJunk
      <4> QED BY <3>2, <4>2
    <3> QED BY <3>1, <3>2
  <2>5. Initialised(ta) => ~junk
        BY <2>1, <2>3 DEF AnyJunk
  <2>6. \A n \in Int : [set |-> TRUE, n |-> n, junk |-> junk] \in Values
        BY DEF Values
  <2> QED BY <1>1, <1>5, <2>4, <2>5, <2>6
<1>6. CASE k # 0 /\ ~StringCells(ta.base) /\ k # Scalar
  <2>1. k \in Nat /\ k > 0
        BY <1>1, <1>6
  <2>2. value = ReadList(arg.cells, k)
        BY <1>6, <1>r, <2>1, ReadArms
  <2>3. Initialised(ta) => ~AnyJunk(arg.cells, k)
        BY <1>6 DEF ArgReady, CellsReady, Readable, AnyJunk
  <2> QED BY <1>1, <1>6, <2>1, <2>2, <2>3, ListRead
<1> QED BY <1>3, <1>4, <1>5, <1>6

\* Behind all elements of a string is the guard that preparation put there.
LEMMA GuardReady ==
    ASSUME NEW ta, ParamReady(ta), NEW arg, ArgReady(ta, arg), NEW k, Readable(ta, arg, k),
           Guard(ta, arg, k) # "zero"
    PROVE  StringCells(ta.base) /\ k # arg.size
<1>1. StringCells(ta.base) /\ k > 0 /\ k + 1 \in DOMAIN arg.cells
      /\ Guard(ta, arg, k) = arg.cells[k + 1]
      BY DEF Guard
<1>2. k # 0 /\ ~arg.null
  <2>1. k # 0
        BY <1>1
  <2> QED BY <2>1 DEF Readable, ArgReady
<1>3. arg.cells[arg.size + 1] = "zero"
      BY <1>1, <1>2 DEF ArgReady, CellsReady, HoldsString
<1> QED BY <1>1, <1>3

\* C reports all elements, or fewer by the counter.
LEMMA ReportedIs ==
    ASSUME ProtoReady, AllReady, NEW i \in Params
    PROVE  \/ Reported(i) = args[i].size
           \/ /\ IsVLA(i) /\ Reported(i) = args[CountOf(i)].value
              /\ Reported(i) \in 0 .. args[i].size
<1>1. IsVLA(i) => args[i].size \in Nat /\ args[CountOf(i)].value \in Int
      BY DEF ProtoReady, AllReady, ArgReady, IsVLA
<1>2. CASE IsVLA(i) /\ args[CountOf(i)].value >= 0 /\ args[CountOf(i)].value <= args[i].size
      BY <1>1, <1>2 DEF Reported
<1>3. CASE ~(IsVLA(i) /\ args[CountOf(i)].value >= 0 /\ args[CountOf(i)].value <= args[i].size)
      BY <1>3 DEF Reported
<1> QED BY <1>2, <1>3

\* So what C reports can be read, unless it is read through NULL.
LEMMA ReportedReadable ==
    ASSUME ProtoReady, AllReady, NEW i \in Params, ~ReadsNull(args[i], Reported(i))
    PROVE  Readable(Type(i), args[i], Reported(i))
<1>1. args[i].null \in BOOLEAN /\ args[i].ignore \in BOOLEAN
      BY DEF AllReady, ArgReady
<1>2. args[i].null => Reported(i) = 0
      BY <1>1 DEF ReadsNull
<1> QED BY <1>2, ReportedIs DEF Readable, IsVLA

-----------------------------------------------------------------------------
(* The steps of a call.                                                    *)

\* The bound is a number.
LEMMA MaxCountNat == MaxCount \in Nat
BY ArgsAssumption

\* The words of a command.
Words(words) ==
    /\ Len(words) \in Nat
    /\ \A j \in 1 .. Len(words) : words[j].n \in Int /\ words[j].name \in Var \cup {""}

\* The length of a sequence that is given as a function.
LEMMA LengthOf ==
    ASSUME NEW W, NEW k \in Nat, NEW words \in [1 .. k -> W]
    PROVE  Len(words) = k
OBVIOUS

\* Numbers in words are integers.
LEMMA SmallInts ==
    ASSUME NEW n \in Nat
    PROVE  \A m \in -1 .. n : m \in Int
OBVIOUS

\* What Next passes to a call are words.
LEMMA CommandWords ==
    ASSUME NEW k \in Nat, NEW words, words \in [1 .. k -> [name : Var \cup {""}, n : -1 .. MaxCount]]
    PROVE  Words(words)
<1>1. \A m \in -1 .. MaxCount : m \in Int
      BY MaxCountNat, SmallInts
<1>2. PICK I : I = -1 .. MaxCount /\ \A m \in I : m \in Int
      BY <1>1
<1>3. PICK N : N = Var \cup {""}
      OBVIOUS
<1>4. words \in [1 .. k -> [name : N, n : I]]
      BY <1>2, <1>3
<1>5. Len(words) = k
      BY <1>4, LengthOf
<1>6. \A j \in 1 .. k : words[j].n \in I /\ words[j].name \in N
      BY <1>4
<1> QED BY <1>2, <1>3, <1>5, <1>6 DEF Words

\* An output has a name, or need not have one.
LEMMA ObjReadyFor ==
    ASSUME NEW ta, NEW arg, arg.obj.n \in Int,
           IsOutput(ta) => \/ Has(ta, "retval") \/ arg.obj.name \in Var
                           \/ arg.obj.name = "" /\ Has(ta, "nullifempty")
    PROVE  ObjReady(ta, arg)
BY DEF ObjReady

\* Words that make sense name a variable for every output that cannot be NULL.
LEMMA ObjStarts ==
    ASSUME ProtoReady, NEW last \in Nat, Params = 1 .. last, NEW words, Words(words),
           NumArgsRight(words), NEW i \in Params, Sensible(i, words)
    PROVE  ArgWaits(Type(i), Fresh(ObjFor(i, words)))
<1>1. Len(words) \in Nat
      BY DEF Words
<1>c. i \in Nat /\ i \in 1 .. i
      OBVIOUS
<1>d. IsFiniteSet(1 .. i)
      BY <1>c, FS_Interval
<1>2. PICK obj : obj = ObjFor(i, words)
      OBVIOUS
<1>3. Fresh(obj).obj = obj
      BY DEF Fresh
<1>4. CASE Has(Type(i), "retval")
  <2>1. obj.n = 0
        BY <1>2, <1>4 DEF ObjFor, NullObj
  <2>2. ObjReady(Type(i), Fresh(obj))
    <3>1. Fresh(obj).obj.n \in Int
          BY <1>3, <2>1
    <3> QED BY <1>4, <3>1, ObjReadyFor
  <2> QED BY <1>2, <1>3, <2>2 DEF ArgWaits
<1>5. CASE ~Has(Type(i), "retval") /\ Given(i) <= Len(words)
  <2>1. Given(i) \in Nat \ {0}
    <3>1. PICK S : S = {j \in 1 .. i : ~Has(Type(j), "retval")}
          OBVIOUS
    <3>3. i \in S /\ IsFiniteSet(S)
      <4>2. S \subseteq 1 .. i /\ i \in S
            BY <1>5, <1>c, <3>1
      <4> QED BY <1>d, <4>2, FS_Subset
    <3>4. Cardinality(S) \in Nat /\ Cardinality(S) # 0
          BY <3>3, FS_CardinalityType, FS_EmptySet
    <3> QED BY <3>1, <3>4 DEF Given
  <2>2. obj = words[Given(i)] /\ Given(i) \in 1 .. Len(words)
        BY <1>1, <1>2, <1>5, <2>1 DEF ObjFor
  <2>4. obj.n \in Int /\ obj.name \in Var \cup {""}
        BY <2>2 DEF Words
  <2>5. IsOutput(Type(i)) => obj.name \in Var \/ Has(Type(i), "nullifempty")
        BY <1>5, <2>2 DEF Sensible
  <2>6. ObjReady(Type(i), Fresh(obj))
    <3>1. Fresh(obj).obj.n \in Int
          BY <1>3, <2>4
    <3>2. IsOutput(Type(i)) => \/ Fresh(obj).obj.name \in Var
                               \/ Fresh(obj).obj.name = "" /\ Has(Type(i), "nullifempty")
          BY <1>3, <2>4, <2>5
    <3> QED BY <3>1, <3>2, ObjReadyFor
  <2> QED BY <1>2, <1>3, <2>6 DEF ArgWaits
<1>6. CASE ~Has(Type(i), "retval") /\ ~(Given(i) <= Len(words))
  <2>1. obj = Word("", 1)
        BY <1>2, <1>6 DEF ObjFor, DefaultWord
  <2>2. obj.n = 1
        BY <2>1 DEF Word
  <2>3. HasDefault(i)
    <3>1. Given(i) > Len(words)
      <4>1. Given(i) \in Nat
        <5>1. IsFiniteSet({j \in 1 .. i : ~Has(Type(j), "retval")})
              BY <1>d, FS_Subset
        <5> QED BY <5>1, FS_CardinalityType DEF Given
      <4> QED BY <1>1, <1>6, <4>1
    <3> QED BY <1>6, <3>1 DEF NumArgsRight
  <2>4. ~IsOutput(Type(i))
        BY <2>3 DEF ProtoReady, ParamReady, HasDefault
  <2>5. ObjReady(Type(i), Fresh(obj))
    <3>1. Fresh(obj).obj.n \in Int
          BY <1>3, <2>2
    <3> QED BY <2>4, <3>1, ObjReadyFor
  <2> QED BY <1>2, <1>3, <2>5 DEF ArgWaits
<1> QED BY <1>4, <1>5, <1>6

\* What a step may rely on in the middle of a call.
LEMMA InCall ==
    ASSUME ArgsInv, phase \in {"pass1", "pass2", "running", "storing"}
    PROVE  /\ ProtoReady /\ proto # NoProto /\ outcome = "none"
           /\ Len(proto.params) \in Nat \ {0} /\ Params = 1 .. Len(proto.params)
           /\ at \in 1 .. Len(proto.params) /\ DOMAIN args = Params
           /\ vars \in [Var \cup {Result} -> Values] /\ held \in BOOLEAN
<1>1. proto # NoProto
      BY DEF ArgsInv, ArgsTyped
<1> QED BY <1>1, ParsedReady, SomeParams DEF ArgsInv, ArgsTyped

\* A call that is given up leaves nothing to prove but how it ended.
LEMMA GivenUp ==
    ASSUME ArgsInv, NEW how \in {"error", "crash"}, phase # "idle" /\ phase # "gone",
           phase \in {"pass1", "pass2", "running", "storing"},
           Ends(how), UNCHANGED <<proto, vars, held>>, how = "crash" => CrashKnown
    PROVE  ArgsInv'
<1>1. proto # NoProto /\ vars \in [Var \cup {Result} -> Values] /\ held \in BOOLEAN
      BY InCall
<1>2. phase' \in {"idle", "gone"} /\ outcome' = how
      BY DEF Ends
<1>3. ProtoParsed'
      BY DEF ArgsInv, ProtoParsed
<1>4. ArgsTyped'
      BY <1>1, <1>2 DEF ArgsTyped
<1>5. how = "crash" => CrashKnown'
      BY DEF CrashKnown, Params, Type
<1> QED BY <1>2, <1>3, <1>4, <1>5 DEF ArgsInv

\* The types are those of the prototype, which a call leaves alone.
LEMMA SameProto ==
    ASSUME UNCHANGED proto
    PROVE  /\ Params' = Params
           /\ \A i : Type(i)' = Type(i) /\ (IsVLA(i)' <=> IsVLA(i)) /\ CountOf(i)' = CountOf(i)
           /\ ProtoParsed' <=> ProtoParsed
           /\ proto' = NoProto <=> proto = NoProto
BY DEF Params, Type, IsVLA, CountOf, ProtoParsed

\* The steps of the script.
LEMMA FunctionDefined ==
    ASSUME ArgsInv, NEW p \in Prototypes, DefineOneFunction(p)
    PROVE  ArgsInv'
<1>1. phase' = "idle" /\ outcome' = "none" /\ vars' = vars /\ held' = held
      BY DEF DefineOneFunction, ArgsInv, ArgsTyped
<1>2. ProtoParsed'
      BY DEF DefineOneFunction, ProtoParsed
<1>3. ArgsTyped'
      BY <1>1 DEF ArgsInv, ArgsTyped
<1> QED BY <1>1, <1>2, <1>3 DEF ArgsInv

\* Assigning a variable ends what is known of the last call.
LEMMA VariableSet ==
    ASSUME ArgsInv, NEW v \in Var, NEW n \in 0 .. MaxCount, SetVar(v, n)
    PROVE  ArgsInv'
<1>1. phase' = "idle" /\ outcome' = "none" /\ held' = TRUE /\ UNCHANGED proto
      BY DEF SetVar
<1>2. vars' \in [Var \cup {Result} -> Values]
  <2>1. Value(n) \in Values
        BY DEF Value, Values
  <2> QED BY <2>1 DEF SetVar, ArgsInv, ArgsTyped
<1>3. ArgsTyped'
      BY <1>1, <1>2 DEF ArgsTyped
<1> QED BY <1>1, <1>3, SameProto DEF ArgsInv

\* A call starts with arguments that all wait.
LEMMA CallStarted ==
    ASSUME ArgsInv, NEW words, Words(words), Start(words)
    PROVE  ArgsInv'
<1>1. /\ phase' = "pass1" /\ at' = 1 /\ held' = TRUE /\ outcome' = "none"
      /\ UNCHANGED <<proto, vars>> /\ proto # NoProto
      /\ args' = [i \in Params |-> Fresh(ObjFor(i, words))]
      BY DEF Start
<1>2. ProtoReady /\ Len(proto.params) \in Nat \ {0} /\ Params = 1 .. Len(proto.params)
      BY <1>1, ParsedReady, SomeParams DEF ArgsInv
<1>3. ArgsTyped'
  <2>1. vars \in [Var \cup {Result} -> Values]
        BY DEF ArgsInv, ArgsTyped
  <2>2. at' \in Params /\ DOMAIN args' = Params
        BY <1>1, <1>2
  <2> QED BY <1>1, <2>1, <2>2, SameProto DEF ArgsTyped
<1>4. FirstPass'
  <2> SUFFICES ASSUME NEW i \in Params PROVE ArgWaits(Type(i), args'[i]) /\ ~(i < at')
      BY <1>1, SameProto DEF FirstPass, ArgWaits, ObjReady
  <2>1. ArgWaits(Type(i), Fresh(ObjFor(i, words)))
        BY <1>2, ObjStarts DEF Start
  <2>2. args'[i] = Fresh(ObjFor(i, words))
        BY <1>1
  <2>3. ~(i < at')
        BY <1>1, <1>2
  <2> QED BY <2>1, <2>2, <2>3
<1> QED BY <1>1, <1>3, <1>4, SameProto DEF ArgsInv

\* The first pass goes on to the next argument or to the second pass.
LEMMA FirstAdvances ==
    ASSUME ArgsInv, phase = "pass1", Advance("pass2"), UNCHANGED <<proto, vars, held, outcome>>,
           DOMAIN args' = Params,
           \A i \in Params : IF i <= at /\ ~IsVLA(i) THEN ArgReady(Type(i), args'[i])
                                                     ELSE ArgWaits(Type(i), args'[i])
    PROVE  ArgsInv'
<1>1. /\ proto # NoProto /\ outcome = "none" /\ at \in 1 .. Len(proto.params)
      /\ Len(proto.params) \in Nat \ {0} /\ Params = 1 .. Len(proto.params)
      /\ vars \in [Var \cup {Result} -> Values] /\ held \in BOOLEAN
      BY InCall
<1>2. phase' \in {"pass1", "pass2"} /\ at' \in Params
      BY <1>1 DEF Advance
<1>3. ProtoParsed' /\ ArgsTyped'
      BY <1>1, <1>2, SameProto DEF ArgsInv, ArgsTyped
<1>4. phase' = "pass1" => FirstPass'
  <2> SUFFICES ASSUME phase' = "pass1", NEW i \in Params
               PROVE  IF i < at' /\ ~IsVLA(i) THEN ArgReady(Type(i), args'[i])
                                              ELSE ArgWaits(Type(i), args'[i])
      BY SameProto DEF FirstPass
  <2>1. at' = at + 1
        BY DEF Advance
  <2>2. i < at' <=> i <= at
        BY <1>1, <2>1
  <2> QED BY <2>2
<1>5. phase' = "pass2" => SecondPass'
  <2> SUFFICES ASSUME phase' = "pass2", NEW i \in Params
               PROVE  IF i < at' \/ ~IsVLA(i) THEN ArgReady(Type(i), args'[i]) /\ Agrees(i)'
                                              ELSE ArgWaits(Type(i), args'[i])
      BY SameProto DEF SecondPass
  <2>1. at' = 1 /\ at = Len(proto.params)
        BY <1>1 DEF Advance
  <2>2. ~(i < at') /\ i <= at
        BY <1>1, <2>1
  <2>3. ~IsVLA(i) => Agrees(i)'
        BY SameProto DEF Agrees
  <2> QED BY <2>2, <2>3
<1> QED BY <1>1, <1>2, <1>3, <1>4, <1>5 DEF ArgsInv

\* The second pass goes on to the next argument, or C is called.
LEMMA SecondAdvances ==
    ASSUME ArgsInv, phase = "pass2", Advance("running"), UNCHANGED <<proto, vars, held, outcome>>,
           DOMAIN args' = Params,
           \A i \in Params : IF i <= at \/ ~IsVLA(i) THEN ArgReady(Type(i), args'[i]) /\ Agrees(i)'
                                                     ELSE ArgWaits(Type(i), args'[i])
    PROVE  ArgsInv'
<1>1. /\ proto # NoProto /\ outcome = "none" /\ at \in 1 .. Len(proto.params)
      /\ Len(proto.params) \in Nat \ {0} /\ Params = 1 .. Len(proto.params)
      /\ vars \in [Var \cup {Result} -> Values] /\ held \in BOOLEAN
      BY InCall
<1>2. phase' \in {"pass2", "running"} /\ at' \in Params
      BY <1>1 DEF Advance
<1>3. ProtoParsed' /\ ArgsTyped'
      BY <1>1, <1>2, SameProto DEF ArgsInv, ArgsTyped
<1>4. phase' = "pass2" => SecondPass'
  <2> SUFFICES ASSUME phase' = "pass2", NEW i \in Params
               PROVE  IF i < at' \/ ~IsVLA(i) THEN ArgReady(Type(i), args'[i]) /\ Agrees(i)'
                                              ELSE ArgWaits(Type(i), args'[i])
      BY SameProto DEF SecondPass
  <2>1. at' = at + 1
        BY DEF Advance
  <2>2. i < at' <=> i <= at
        BY <1>1, <2>1
  <2> QED BY <2>2
<1>5. phase' = "running" => AllReady' /\ \A i \in Params' : Agrees(i)'
  <2> SUFFICES ASSUME phase' = "running", NEW i \in Params
               PROVE  ArgReady(Type(i), args'[i]) /\ Agrees(i)'
      BY SameProto DEF AllReady
  <2>1. at = Len(proto.params)
        BY <1>1 DEF Advance
  <2>2. i <= at
        BY <1>1, <2>1
  <2> QED BY <2>2
<1> QED BY <1>1, <1>2, <1>3, <1>4, <1>5 DEF ArgsInv

\* Preparing an argument makes it ready, or ends the call.
LEMMA PreparedOne ==
    ASSUME ArgsInv, phase \in {"pass1", "pass2"}, NEW size, NEW next, PrepareOne(size, next),
           ArgWaits(Type(at), args[at]), UNCHANGED <<proto, vars, held>>,
           IF IsVLA(at) THEN size \in Nat ELSE size = Type(at).size
    PROVE  \/ ArgsInv'
           \/ /\ Advance(next) /\ UNCHANGED outcome /\ DOMAIN args' = Params
              /\ ArgReady(Type(at), args'[at]) /\ args'[at].size = size
              /\ \A i \in Params \ {at} : args'[i] = args[i]
<1>1. /\ ProtoReady /\ at \in Params /\ DOMAIN args = Params
      /\ vars \in [Var \cup {Result} -> Values]
      BY InCall
<1>2. ParamReady(Type(at))
      BY <1>1 DEF ProtoReady
<1>3. PICK done : done = ArgPrepare(Type(at), args[at], size)
      OBVIOUS
<1>4. PrepareEnds(Type(at), args[at], size, done)
      BY <1>1, <1>2, <1>3, PreparedReady DEF IsVLA
<1>5. /\ args' = [args EXCEPT ![at] = done.arg]
      /\ IF done.res = "ok" THEN Advance(next) /\ UNCHANGED outcome ELSE Ends(done.res)
      BY <1>3 DEF PrepareOne
<1>6. CASE done.res = "ok"
  <2>1. ArgReady(Type(at), done.arg) /\ done.arg.size = size
        BY <1>4, <1>6 DEF PrepareEnds
  <2>2. DOMAIN args' = Params /\ args'[at] = done.arg
        BY <1>1, <1>5
  <2>3. \A i \in Params \ {at} : args'[i] = args[i]
        BY <1>1, <1>5
  <2> QED BY <1>5, <1>6, <2>1, <2>2, <2>3
<1>7. CASE done.res # "ok"
  <2>1. done.res \in {"error", "crash"} /\ Ends(done.res)
        BY <1>4, <1>5, <1>7 DEF PrepareEnds
  <2>2. done.res = "crash" => CrashKnown
        BY <1>1, <1>4 DEF PrepareEnds, CrashKnown
  <2> QED BY <2>1, <2>2, GivenUp
<1> QED BY <1>6, <1>7

\* The first pass prepares what depends on no other argument.
LEMMA FirstSetup ==
    ASSUME ArgsInv, SetupFirst
    PROVE  ArgsInv'
<1>1. phase = "pass1" /\ UNCHANGED <<proto, vars, held>> /\ FirstPass
      BY DEF SetupFirst, ArgsInv
<1>2. /\ at \in 1 .. Len(proto.params) /\ Params = 1 .. Len(proto.params)
      /\ Len(proto.params) \in Nat /\ DOMAIN args = Params
      BY <1>1, InCall
<1>3. CASE IsVLA(at)
  <2>1. Advance("pass2") /\ UNCHANGED <<args, outcome>>
        BY <1>3 DEF SetupFirst, Deferred
  <2>2. \A i \in Params : IF i <= at /\ ~IsVLA(i) THEN ArgReady(Type(i), args'[i])
                                                  ELSE ArgWaits(Type(i), args'[i])
    <3> TAKE i \in Params
    <3>1. IF i < at /\ ~IsVLA(i) THEN ArgReady(Type(i), args[i]) ELSE ArgWaits(Type(i), args[i])
          BY <1>1 DEF FirstPass
    <3>2. i < at /\ ~IsVLA(i) <=> i <= at /\ ~IsVLA(i)
          BY <1>2, <1>3
    <3> QED BY <2>1, <3>1, <3>2
  <2> QED BY <1>1, <1>2, <2>1, <2>2, FirstAdvances
<1>4. CASE ~IsVLA(at)
  <2>1. PrepareOne(Type(at).size, "pass2")
        BY <1>4 DEF SetupFirst, Deferred
  <2>2. ArgWaits(Type(at), args[at])
    <3>1. ~(at < at)
          BY <1>2
    <3> QED BY <1>1, <1>2, <3>1 DEF FirstPass
  <2>3. \/ ArgsInv'
        \/ /\ Advance("pass2") /\ UNCHANGED outcome /\ DOMAIN args' = Params
           /\ ArgReady(Type(at), args'[at])
           /\ \A i \in Params \ {at} : args'[i] = args[i]
    <3>1. phase \in {"pass1", "pass2"}
          BY <1>1
    <3> QED BY <1>1, <1>4, <2>1, <2>2, <3>1, PreparedOne
  <2> SUFFICES ASSUME Advance("pass2"), UNCHANGED outcome, DOMAIN args' = Params,
                      ArgReady(Type(at), args'[at]),
                      \A i \in Params \ {at} : args'[i] = args[i]
               PROVE  ArgsInv'
      BY <2>3
  <2>4. \A i \in Params : IF i <= at /\ ~IsVLA(i) THEN ArgReady(Type(i), args'[i])
                                                  ELSE ArgWaits(Type(i), args'[i])
    <3> TAKE i \in Params
    <3>1. CASE i = at
      <4>1. i <= at /\ ~IsVLA(i)
            BY <1>2, <1>4, <3>1
      <4> QED BY <3>1, <4>1
    <3>2. CASE i # at
      <4>1. IF i < at /\ ~IsVLA(i) THEN ArgReady(Type(i), args[i]) ELSE ArgWaits(Type(i), args[i])
            BY <1>1 DEF FirstPass
      <4>2. i < at <=> i <= at
            BY <1>2, <3>2
      <4>3. args'[i] = args[i]
            BY <3>2
      <4> QED BY <4>1, <4>2, <4>3
    <3> QED BY <3>1, <3>2
  <2> QED BY <1>1, <2>4, FirstAdvances
<1> QED BY <1>3, <1>4

\* The second pass prepares arrays with the size that their counter has, which no
\* later step of the pass changes: counters are not arrays.
LEMMA SecondSetup ==
    ASSUME ArgsInv, SetupSecond
    PROVE  ArgsInv'
<1>1. phase = "pass2" /\ UNCHANGED <<proto, vars, held>> /\ SecondPass
      BY DEF SetupSecond, ArgsInv
<1>2. /\ at \in 1 .. Len(proto.params) /\ Params = 1 .. Len(proto.params) /\ ProtoReady
      /\ Len(proto.params) \in Nat /\ DOMAIN args = Params
      BY <1>1, InCall
<1>3. CASE args[at].done
  <2>1. Advance("running") /\ UNCHANGED <<args, outcome>>
        BY <1>3 DEF SetupSecond
  <2>2. ~IsVLA(at)
    <3>1. ~(at < at)
          BY <1>2
    <3>2. ArgWaits(Type(at), args[at]) => ~args[at].done
          BY DEF ArgWaits, Fresh
    <3> QED BY <1>1, <1>2, <1>3, <3>1, <3>2 DEF SecondPass
  <2>3. \A i \in Params : IF i <= at \/ ~IsVLA(i) THEN ArgReady(Type(i), args'[i]) /\ Agrees(i)'
                                                  ELSE ArgWaits(Type(i), args'[i])
    <3> TAKE i \in Params
    <3>1. IF i < at \/ ~IsVLA(i) THEN ArgReady(Type(i), args[i]) /\ Agrees(i)
                                 ELSE ArgWaits(Type(i), args[i])
          BY <1>1 DEF SecondPass
    <3>2. i < at \/ ~IsVLA(i) <=> i <= at \/ ~IsVLA(i)
          BY <1>2, <2>2
    <3>3. Agrees(i)' <=> Agrees(i)
          BY <1>1, <2>1, SameProto DEF Agrees
    <3> QED BY <2>1, <3>1, <3>2, <3>3
  <2> QED BY <1>1, <1>2, <2>1, <2>3, SecondAdvances
<1>4. CASE ~args[at].done /\ args[CountOf(at)].value < 0
  <2>1. Ends("error")
        BY <1>4 DEF SetupSecond
  <2> QED BY <1>1, <2>1, GivenUp
<1>5. CASE ~args[at].done /\ ~(args[CountOf(at)].value < 0)
  <2>1. PrepareOne(args[CountOf(at)].value, "running")
        BY <1>5 DEF SetupSecond
  <2>2. IsVLA(at) /\ ArgWaits(Type(at), args[at])
    <3>1. ~(at < at)
          BY <1>2
    <3>2. ~ArgReady(Type(at), args[at])
          BY <1>5 DEF ArgReady
    <3> QED BY <1>1, <1>2, <3>1, <3>2 DEF SecondPass
  <2>3. \A i \in Params : IsVLA(i) => CountOf(i) \in Params /\ ~IsVLA(CountOf(i)) /\ CountOf(i) # at
        BY <1>2, <2>2 DEF ProtoReady, IsVLA, Scalar, VLA
  <2>4. args[CountOf(at)].value \in Nat
    <3>1. ArgReady(Type(CountOf(at)), args[CountOf(at)])
          BY <1>1, <1>2, <2>2, <2>3 DEF SecondPass
    <3>2. args[CountOf(at)].value \in Int
          BY <3>1 DEF ArgReady
    <3> QED BY <1>5, <3>2
  <2>5. \/ ArgsInv'
        \/ /\ Advance("running") /\ UNCHANGED outcome /\ DOMAIN args' = Params
           /\ ArgReady(Type(at), args'[at]) /\ args'[at].size = args[CountOf(at)].value
           /\ \A i \in Params \ {at} : args'[i] = args[i]
    <3>1. phase \in {"pass1", "pass2"}
          BY <1>1
    <3> QED BY <1>1, <2>1, <2>2, <2>4, <3>1, PreparedOne
  <2> SUFFICES ASSUME Advance("running"), UNCHANGED outcome, DOMAIN args' = Params,
                      ArgReady(Type(at), args'[at]), args'[at].size = args[CountOf(at)].value,
                      \A i \in Params \ {at} : args'[i] = args[i]
               PROVE  ArgsInv'
      BY <2>5
  <2>6. \A i \in Params : IF i <= at \/ ~IsVLA(i) THEN ArgReady(Type(i), args'[i]) /\ Agrees(i)'
                                                  ELSE ArgWaits(Type(i), args'[i])
    <3> TAKE i \in Params
    <3>0. Agrees(i)' <=> (IsVLA(i) => args'[i].size = args'[CountOf(i)].value)
          BY <1>1, SameProto DEF Agrees
    <3>1. IsVLA(i) => args'[CountOf(i)] = args[CountOf(i)]
          BY <2>3
    <3>2. CASE i = at
      <4>1. i <= at
            BY <1>2, <3>2
      <4> QED BY <3>0, <3>1, <3>2, <4>1
    <3>3. CASE i # at
      <4>1. IF i < at \/ ~IsVLA(i) THEN ArgReady(Type(i), args[i]) /\ Agrees(i)
                                   ELSE ArgWaits(Type(i), args[i])
            BY <1>1 DEF SecondPass
      <4>2. i < at <=> i <= at
            BY <1>2, <3>3
      <4>3. args'[i] = args[i]
            BY <3>3
      <4>4. Agrees(i)' <=> Agrees(i)
            BY <3>0, <3>1, <4>3 DEF Agrees
      <4> QED BY <4>1, <4>2, <4>3, <4>4
    <3> QED BY <3>2, <3>3
  <2> QED BY <1>1, <2>6, SecondAdvances
<1> QED BY <1>3, <1>4, <1>5

\* Whatever the C function writes, its arguments stay ready.
LEMMA Called ==
    ASSUME ArgsInv, Callee
    PROVE  ArgsInv'
<1>1. phase = "running" /\ UNCHANGED <<proto, vars, outcome>> /\ Advance("storing")
      BY DEF Callee
<1>2. /\ at \in 1 .. Len(proto.params) /\ Params = 1 .. Len(proto.params) /\ ProtoReady
      /\ Len(proto.params) \in Nat \ {0} /\ DOMAIN args = Params /\ AllReady
      /\ proto # NoProto /\ outcome = "none"
      /\ vars \in [Var \cup {Result} -> Values] /\ held \in BOOLEAN
  <2>1. AllReady
        BY <1>1 DEF ArgsInv
  <2> QED BY <1>1, <2>1, InCall
<1>3. PICK left \in Written(Type(at), args[at]) : args' = [args EXCEPT ![at] = left]
      BY DEF Callee
<1>4. ArgReady(Type(at), left)
      BY <1>2, WrittenReady DEF ProtoReady, AllReady
<1>5. held' \in BOOLEAN
      BY <1>2 DEF Callee
<1>6. phase' \in {"running", "storing"} /\ at' \in Params
      /\ (phase' = "running" => at' # 1) /\ (phase' = "storing" => at' = 1)
      BY <1>1, <1>2 DEF Advance
<1>7. DOMAIN args' = Params
      BY <1>2, <1>3
<1>8. ProtoParsed' /\ ArgsTyped'
      BY <1>1, <1>2, <1>5, <1>6, <1>7, SameProto DEF ArgsInv, ArgsTyped
<1>9. AllReady'
  <2> SUFFICES ASSUME NEW i \in Params PROVE ArgReady(Type(i), args'[i])
      BY <1>1, SameProto DEF AllReady
  <2>1. CASE i = at
        BY <1>2, <1>3, <1>4, <2>1
  <2>2. CASE i # at
    <3>1. args'[i] = args[i]
          BY <1>2, <1>3, <2>2
    <3> QED BY <1>2, <3>1 DEF AllReady
  <2> QED BY <2>1, <2>2
<1>10. phase' = "storing" => \A i \in 1 .. at' - 1 : Settled(i)'
  <2> SUFFICES ASSUME at' = 1 PROVE 1 .. at' - 1 = {}
      BY <1>6
  <2> QED OBVIOUS
<1> QED BY <1>1, <1>2, <1>6, <1>8, <1>9, <1>10 DEF ArgsInv

-----------------------------------------------------------------------------
(* Storing the outputs.                                                    *)

\* Only variables change, so that an output is settled when its variable is right.
LEMMA SameArgs ==
    ASSUME UNCHANGED <<proto, args, held>>
    PROVE  /\ AllReady' <=> AllReady
           /\ \A i : /\ Settled(i)' <=>
                           (Wants(i) =>
                              /\ ~ReadsNull(args[i], Reported(i))
                              /\ Alone(i) => vars'[StoreTarget(i)]
                                                \in Readings(Type(i), args[i], Reported(i)))
BY DEF Params, Type, IsVLA, CountOf, AllReady, Settled, Wants, Alone, Wanted, StoreTarget, Reported

\* The call goes on to the next output, or ends when all are settled.
LEMMA StoredOne ==
    ASSUME ArgsInv, phase = "storing", Stored, UNCHANGED <<proto, args, held>>,
           vars' \in [Var \cup {Result} -> Values], \A i \in 1 .. at : Settled(i)'
    PROVE  ArgsInv'
<1>1. /\ at \in 1 .. Len(proto.params) /\ Params = 1 .. Len(proto.params) /\ ProtoReady
      /\ Len(proto.params) \in Nat \ {0} /\ DOMAIN args = Params
      /\ proto # NoProto /\ outcome = "none" /\ held \in BOOLEAN
      BY InCall
<1>2. AllReady'
      BY SameArgs DEF ArgsInv
<1>3. CASE at < Len(proto.params)
  <2>1. at' = at + 1 /\ UNCHANGED <<phase, outcome>>
        BY <1>3 DEF Stored
  <2>2. at' \in Params /\ at' - 1 = at
        BY <1>1, <1>3, <2>1
  <2>3. ArgsTyped' /\ ProtoParsed'
        BY <1>1, <2>1, <2>2, SameProto DEF ArgsInv, ArgsTyped
  <2>4. \A i \in 1 .. at' - 1 : Settled(i)'
        BY <2>2
  <2> QED BY <1>1, <1>2, <2>1, <2>3, <2>4 DEF ArgsInv
<1>4. CASE ~(at < Len(proto.params))
  <2>1. PICK how \in {"ok", "error"} : Ends(how)
        BY <1>4 DEF Stored
  <2>2. phase' = "idle" /\ outcome' = how
        BY <2>1 DEF Ends
  <2>3. ArgsTyped' /\ ProtoParsed'
        BY <1>1, <2>2, SameProto DEF ArgsInv, ArgsTyped
  <2>4. 1 .. at = Params
        BY <1>1, <1>4
  <2>5. \A i \in Params' : Settled(i)'
        BY <2>4, SameProto
  <2> QED BY <1>2, <2>2, <2>3, <2>5 DEF ArgsInv
<1> QED BY <1>3, <1>4

\* What is read through NULL when an output is stored is a struct.
LEMMA ReadsNullStruct ==
    ASSUME ProtoReady, AllReady, NEW i \in Params, ~Skipped(Type(i), args[i]),
           ReadsNull(args[i], Reported(i))
    PROVE  Type(i).base = "struct" /\ Type(i).size = Scalar /\ Has(Type(i), "nullifempty")
<1>1. ArgReady(Type(i), args[i]) /\ ParamReady(Type(i))
      BY DEF ProtoReady, AllReady
<1>2. ~args[i].ignore /\ ~Has(Type(i), "in")
      BY DEF Skipped
<1>3. args[i].null /\ Reported(i) # 0
      BY <1>2 DEF ReadsNull
<1>4. NullFor(Type(i), args[i])
      BY <1>1, <1>3 DEF ArgReady
<1>5. args[i].size # 0
      BY <1>3, ReportedIs
<1> QED BY <1>2, <1>4, <1>5 DEF NullFor

\* The variable that an output is stored in.
LEMMA TargetKnown ==
    ASSUME ProtoReady, AllReady, NEW i \in Params, ~Skipped(Type(i), args[i])
    PROVE  IsOutput(Type(i)) /\ StoreTarget(i) \in Var \cup {Result}
<1>1. ArgReady(Type(i), args[i]) /\ ParamReady(Type(i))
      BY DEF ProtoReady, AllReady
<1>2. ~args[i].ignore /\ ~Has(Type(i), "in")
      BY DEF Skipped
<1>3. IsOutput(Type(i))
      BY <1>1, <1>2 DEF ParamReady
<1>4. ~Has(Type(i), "retval") => args[i].obj.name \in Var
      BY <1>1, <1>2, <1>3 DEF ArgReady
<1> QED BY <1>3, <1>4 DEF StoreTarget

\* Storing an output settles it and disturbs none that was settled before, unless
\* it is stored in the same variable; or the program is lost as the invariant says.
LEMMA StoredOrLost ==
    ASSUME ArgsInv, Store
    PROVE  ArgsInv'
<1>1. phase = "storing" /\ UNCHANGED <<proto, args, held>>
      BY DEF Store
<1>2. /\ at \in 1 .. Len(proto.params) /\ Params = 1 .. Len(proto.params) /\ ProtoReady
      /\ Len(proto.params) \in Nat \ {0} /\ DOMAIN args = Params /\ AllReady
      /\ proto # NoProto /\ outcome = "none"
      /\ vars \in [Var \cup {Result} -> Values] /\ held \in BOOLEAN
  <2>1. AllReady
        BY <1>1 DEF ArgsInv
  <2> QED BY <1>1, <2>1, InCall
<1>3. \A i \in 1 .. at : i # at => Settled(i)
  <2> SUFFICES ASSUME NEW i \in 1 .. at, i # at PROVE i \in 1 .. at - 1
      BY <1>1 DEF ArgsInv
  <2> QED BY <1>2
<1>4. CASE Skipped(Type(at), args[at]) \/ ~Wanted(Type(at))
  <2>1. UNCHANGED vars /\ Stored
        BY <1>4 DEF Store
  <2>2. ~Wants(at)
        BY <1>4 DEF Wants
  <2>3. \A i \in 1 .. at : Settled(i)'
        BY <1>1, <1>3, <2>1, <2>2, SameArgs DEF Settled
  <2> QED BY <1>1, <1>2, <2>1, <2>3, StoredOne
<1>5. CASE ~Skipped(Type(at), args[at]) /\ Wanted(Type(at)) /\ ReadsNull(args[at], Reported(at))
  <2>1. UNCHANGED vars /\ Ends("crash")
        BY <1>5 DEF Store
  <2>2. CrashKnown
        BY <1>2, <1>5, ReadsNullStruct DEF CrashKnown
  <2> QED BY <1>1, <2>1, <2>2, GivenUp
<1>6. ASSUME ~Skipped(Type(at), args[at]), Wanted(Type(at)), ~ReadsNull(args[at], Reported(at))
      PROVE  ArgsInv'
  <2>1. IsOutput(Type(at)) /\ StoreTarget(at) \in Var \cup {Result}
        BY <1>2, <1>6, TargetKnown
  <2>2. Readable(Type(at), args[at], Reported(at))
        BY <1>2, <1>6, ReportedReadable
  <2>3. ParamReady(Type(at)) /\ ArgReady(Type(at), args[at])
        BY <1>2 DEF ProtoReady, AllReady
  <2>4. CASE /\ Guard(Type(at), args[at], Reported(at)) \in {"zero", "junk"}
             /\ \E value \in Readings(Type(at), args[at], Reported(at)) :
                   vars' = [vars EXCEPT ![StoreTarget(at)] = value]
             /\ Stored
    <3>1. PICK value \in Readings(Type(at), args[at], Reported(at)) :
             vars' = [vars EXCEPT ![StoreTarget(at)] = value]
          BY <2>4
    <3>2. value \in Values
          BY <2>2, <2>3, ReadReady
    <3>3. vars' \in [Var \cup {Result} -> Values] /\ vars'[StoreTarget(at)] = value
          BY <1>2, <2>1, <3>1, <3>2
    <3>4. \A i \in 1 .. at : i = at => Settled(i)'
      <4> SUFFICES ASSUME NEW i \in 1 .. at, i = at PROVE Settled(i)'
          OBVIOUS
      <4>1. /\ ~ReadsNull(args[i], Reported(i))
            /\ vars'[StoreTarget(i)] \in Readings(Type(i), args[i], Reported(i))
            BY <1>6, <3>3
      <4> QED BY <1>1, <4>1, SameArgs
    <3>5. \A i \in 1 .. at : i # at => Settled(i)'
      <4> SUFFICES ASSUME NEW i \in 1 .. at, i # at, Wants(i), Alone(i)
                   PROVE  vars'[StoreTarget(i)] = vars[StoreTarget(i)]
          BY <1>1, <1>3, SameArgs DEF Settled
      <4>1. at \in Params \ {i} /\ Wants(at)
            BY <1>2, <1>6, <2>1 DEF Wants
      <4>2. StoreTarget(at) # StoreTarget(i)
            BY <4>1 DEF Alone
      <4>3. StoreTarget(i) \in Var \cup {Result}
        <5>1. i \in Params /\ ~Skipped(Type(i), args[i])
              BY <1>2 DEF Wants
        <5> QED BY <1>2, <5>1, TargetKnown
      <4> QED BY <1>2, <3>1, <4>2, <4>3
    <3> QED BY <1>1, <2>4, <3>3, <3>4, <3>5, StoredOne
  <2>5. CASE /\ Guard(Type(at), args[at], Reported(at)) \in {"data", "junk"}
             /\ UNCHANGED vars /\ Ends("panic")
    <3>1. StringCells(Type(at).base) /\ Reported(at) # args[at].size
          BY <2>2, <2>3, <2>5, GuardReady
    <3>2. IsVLA(at) /\ args[CountOf(at)].value # args[at].size
          BY <1>2, <3>1, ReportedIs
    <3>3. PanicKnown'
      <4>1. PanicKnown
            BY <1>2, <3>1, <3>2 DEF PanicKnown
      <4> QED BY <1>1, <4>1 DEF PanicKnown, Params, Type, IsVLA, CountOf
    <3>4. phase' = "gone" /\ outcome' = "panic"
          BY <2>5 DEF Ends
    <3>5. ArgsTyped' /\ ProtoParsed'
          BY <1>1, <1>2, <2>5, <3>4, SameProto DEF ArgsInv, ArgsTyped
    <3> QED BY <3>3, <3>4, <3>5 DEF ArgsInv
  <2> QED BY <1>6, <2>4, <2>5 DEF Store
<1> QED BY <1>4, <1>5, <1>6

-----------------------------------------------------------------------------
(* The invariant, and what follows from it.                                *)

\* The numbers of words.
LEMMA UptoNat ==
    ASSUME NEW n \in Nat, NEW k \in 0 .. n
    PROVE  k \in Nat
OBVIOUS

\* Stuttering.
LEMMA Unchanged ==
    ASSUME ArgsInv, UNCHANGED state
    PROVE  ArgsInv'
<1> USE DEF state
<1>1. /\ UNCHANGED <<proto, vars, phase, at, args, held, outcome>>
      /\ Params' = Params /\ \A i : Type(i)' = Type(i) /\ (IsVLA(i)' <=> IsVLA(i))
                                  /\ CountOf(i)' = CountOf(i)
      BY SameProto
<1>2. ProtoParsed' /\ ArgsTyped' /\ AllReady' = AllReady
      BY <1>1, SameProto DEF ArgsInv, ArgsTyped, AllReady
<1>3. \A i : Agrees(i)' <=> Agrees(i)
      BY <1>1 DEF Agrees
<1>4. \A i : Settled(i)' <=> Settled(i)
      BY <1>1, SameArgs DEF Settled
<1>5. (FirstPass => FirstPass') /\ (SecondPass => SecondPass')
  <2>1. FirstPass => FirstPass'
        BY <1>1 DEF FirstPass
  <2>2. SecondPass => SecondPass'
        BY <1>1, <1>3 DEF SecondPass
  <2> QED BY <2>1, <2>2
<1>6. (CrashKnown => CrashKnown') /\ (PanicKnown => PanicKnown')
  <2>1. CrashKnown => CrashKnown'
        BY <1>1 DEF CrashKnown
  <2>2. PanicKnown => PanicKnown'
        BY <1>1 DEF PanicKnown
  <2> QED BY <2>1, <2>2
<1> QED BY <1>1, <1>2, <1>3, <1>4, <1>5, <1>6 DEF ArgsInv

\* ArgsInv is an invariant, for any prototypes, variables and values.
THEOREM ArgsInvariant == Spec => []ArgsInv
<1>1. Init => ArgsInv
  <2> SUFFICES ASSUME Init PROVE ArgsInv
      OBVIOUS
  <2>1. vars \in [Var \cup {Result} -> Values]
    <3>1. Unset \in Values
          BY DEF Unset, Values
    <3> QED BY <3>1 DEF Init
  <2>2. ArgsTyped
        BY <2>1 DEF Init, ArgsTyped
  <2> QED BY <2>2 DEF Init, ArgsInv, ProtoParsed
<1>2. ArgsInv /\ [Next]_state => ArgsInv'
  <2> SUFFICES ASSUME ArgsInv, [Next]_state PROVE ArgsInv'
      OBVIOUS
  <2>1. ASSUME NEW p \in Prototypes, DefineOneFunction(p) PROVE ArgsInv'
        BY <2>1, FunctionDefined
  <2>2. ASSUME NEW v \in Var, NEW n \in 0 .. MaxCount, SetVar(v, n) PROVE ArgsInv'
        BY <2>2, VariableSet
  <2>3. ASSUME NEW k \in 0 .. Len(proto.params),
               NEW words \in [1 .. k -> [name : Var \cup {""}, n : -1 .. MaxCount]], Start(words)
        PROVE  ArgsInv'
    <3>0. Len(proto.params) \in Nat
          BY <2>3, SomeParams DEF ArgsInv, Start
    <3>1. k \in Nat
          BY <3>0, UptoNat
    <3>2. Words(words)
          BY <3>1, CommandWords
    <3> QED BY <2>3, <3>2, CallStarted
  <2>4. CASE SetupFirst
        BY <2>4, FirstSetup
  <2>5. CASE SetupSecond
        BY <2>5, SecondSetup
  <2>6. CASE Callee
        BY <2>6, Called
  <2>7. CASE Store
        BY <2>7, StoredOrLost
  <2>8. CASE UNCHANGED state
        BY <2>8, Unchanged
  <2> QED BY <2>1, <2>2, <2>3, <2>4, <2>5, <2>6, <2>7, <2>8 DEF Next
<1> QED BY <1>1, <1>2, PTL DEF Spec

\* When C is entered every argument is ready, and every array has as many elements
\* as its counter says, in whichever order they were declared (the two passes of
\* CffiFunctionSetupArgs).
THEOREM CountsAgreeCorrect == Spec => []CountsAgree
<1>1. ArgsInv => CountsAgree
  <2> SUFFICES ASSUME ArgsInv, phase = "running", at = 1, NEW i \in Params
               PROVE  /\ args[i].done
                      /\ IsVLA(i) => args[i].size = args[CountOf(i)].value
                      /\ args[i].null \/ Len(args[i].cells) >= args[i].size
      BY DEF CountsAgree
  <2>1. ArgReady(Type(i), args[i]) /\ Agrees(i)
        BY DEF ArgsInv, AllReady
  <2>2. ParamReady(Type(i))
        BY InCall DEF ProtoReady
  <2>3. args[i].null \in BOOLEAN /\ args[i].done
        BY <2>1 DEF ArgReady
  <2>4. ASSUME ~args[i].null PROVE Len(args[i].cells) >= args[i].size
    <3>1. CellsReady(Type(i), args[i])
          BY <2>1, <2>4 DEF ArgReady
    <3>2. args[i].size \in Nat \cup {Scalar}
          BY <2>1, <2>2 DEF ArgReady, ParamReady
    <3>3. CASE StringCells(Type(i).base)
      <4>1. args[i].size \in Nat
            BY <2>1, <2>2, <3>2, <3>3 DEF ArgReady, ParamReady, StringCells, CharTypes, VLA, Scalar
      <4>2. args[i].cells \in [1 .. args[i].size + 1 -> CellKinds]
            BY <3>1, <3>3 DEF CellsReady, HoldsString
      <4>3. Len(args[i].cells) = args[i].size + 1
            BY <4>1, <4>2, LengthOf
      <4> QED BY <4>1, <4>3
    <3>4. CASE ~StringCells(Type(i).base)
      <4>1. args[i].cells \in [1 .. Room(args[i].size) -> CellKinds]
            BY <3>1, <3>4 DEF CellsReady
      <4>2. Room(args[i].size) \in Nat /\ Room(args[i].size) >= args[i].size
            BY <3>2 DEF Room, Scalar
      <4>3. Len(args[i].cells) = Room(args[i].size)
            BY <4>1, <4>2, LengthOf
      <4> QED BY <4>2, <4>3
    <3> QED BY <3>3, <3>4
  <2> QED BY <2>1, <2>3, <2>4 DEF Agrees
<1> QED BY <1>1, ArgsInvariant, PTL

\* What is in the variable of an output after the call.
LEMMA StoredIs ==
    ASSUME ArgsInv, NEW i \in Params, StoredNow(i), OnlyTarget(i)
    PROVE  /\ ProtoReady /\ AllReady
           /\ vars[StoreTarget(i)] \in Readings(Type(i), args[i], Reported(i))
           /\ Readable(Type(i), args[i], Reported(i))
<1>1. phase = "idle" /\ outcome = "ok"
      BY DEF StoredNow
<1>2. ProtoReady /\ AllReady /\ Settled(i)
      BY <1>1, ParsedReady DEF ArgsInv
<1>3. \A j : StoredNow(j) <=> Wants(j)
      BY <1>1 DEF StoredNow, Wants
<1>4. Wants(i) /\ Alone(i)
      BY <1>3 DEF OnlyTarget, Alone
<1>5. /\ vars[StoreTarget(i)] \in Readings(Type(i), args[i], Reported(i))
      /\ ~ReadsNull(args[i], Reported(i))
      BY <1>2, <1>4 DEF Settled
<1>6. Readable(Type(i), args[i], Reported(i))
      BY <1>2, <1>5, ReportedReadable
<1> QED BY <1>2, <1>5, <1>6

\* After a call the variable of an array and that of its count fit together
\* (CffiArgPostProcess and the count it takes from the counter).
THEOREM ReportedLengthCorrect == Spec => []ReportedLength
<1>1. ArgsInv => ReportedLength
  <2> SUFFICES ASSUME ArgsInv, NEW i \in Params, StoredNow(i), OnlyTarget(i), IsVLA(i),
                      NEW c, c = CountOf(i), StoredNow(c), OnlyTarget(c),
                      NEW length, length = vars[StoreTarget(i)].n,
                      NEW count, count = vars[StoreTarget(c)].n
               PROVE  /\ length <= args[i].size
                      /\ count >= 0 => length <= count
                      /\ ~StringCells(Type(i).base) /\ count >= 0 => length \in {count, args[i].size}
      BY DEF ReportedLength
  <2>1. /\ ProtoReady /\ AllReady
        /\ vars[StoreTarget(i)] \in Readings(Type(i), args[i], Reported(i))
        /\ Readable(Type(i), args[i], Reported(i))
        BY StoredIs
  <2>2. c \in Params /\ Type(c).size = Scalar /\ Type(c).base = "int"
        BY <2>1 DEF ProtoReady
  <2>3. /\ vars[StoreTarget(c)] \in Readings(Type(c), args[c], Reported(c))
        /\ Readable(Type(c), args[c], Reported(c))
        BY <2>2, StoredIs
  <2>4. ParamReady(Type(i)) /\ ArgReady(Type(i), args[i])
        /\ ParamReady(Type(c)) /\ ArgReady(Type(c), args[c])
        BY <2>1, <2>2 DEF ProtoReady, AllReady
  <2>5. count = args[c].value /\ count \in Int
    <3>1. count = args[c].value
          BY <2>2, <2>3, <2>4, ReadReady
    <3>2. args[c].value \in Int
          BY <2>4 DEF ArgReady
    <3> QED BY <3>1, <3>2
  <2>6. args[i].size \in Nat /\ Type(i).size # Scalar
        BY <2>4 DEF ArgReady, IsVLA, VLA, Scalar
  <2>7. \/ count >= 0 /\ count <= args[i].size /\ Reported(i) = count
        \/ ~(count >= 0 /\ count <= args[i].size) /\ Reported(i) = args[i].size
        BY <2>5 DEF Reported
  <2>8. CASE StringCells(Type(i).base)
    <3>1. length \in 0 .. Reported(i) /\ Reported(i) <= args[i].size
          BY <2>1, <2>4, <2>8, ReadReady
    <3> QED BY <2>5, <2>6, <2>7, <2>8, <3>1
  <2>9. CASE ~StringCells(Type(i).base)
    <3>1. length = Reported(i)
          BY <2>1, <2>4, <2>6, <2>9, ReadReady
    <3> QED BY <2>5, <2>6, <2>7, <3>1
  <2> QED BY <2>8, <2>9
<1> QED BY <1>1, ArgsInvariant, PTL

\* Passing "" for an output that may be NULL crashes at most for scalar pointers
\* and structs (CffiArgPrepare, CffiArgPostProcess).
THEOREM EmptyNameIsSafeCorrect == Spec => []EmptyNameIsSafe
<1>1. ArgsInv => EmptyNameIsSafe
      BY DEF ArgsInv, CrashKnown, EmptyNameIsSafe
<1> QED BY <1>1, ArgsInvariant, PTL

\* What nobody wrote reaches no variable as a list of numbers or a pointer, and as
\* a string only where C left that open: buffers start with terminators or zeros,
\* and C writes nothing but data and terminators.
THEOREM NothingUninitialisedCorrect == Spec => []NothingUninitialised
<1>1. ArgsInv => NothingUninitialised
  <2> SUFFICES ASSUME ArgsInv, NEW i \in Params, StoredNow(i), OnlyTarget(i),
                      \/ StringCells(Type(i).base) /\ ~LeftOpen(args[i].cells)
                      \/ Initialised(Type(i))
               PROVE  ~vars[StoreTarget(i)].junk
      BY DEF NothingUninitialised, Initialised
  <2>1. /\ ProtoReady /\ AllReady
        /\ vars[StoreTarget(i)] \in Readings(Type(i), args[i], Reported(i))
        /\ Readable(Type(i), args[i], Reported(i))
        BY StoredIs
  <2>2. ParamReady(Type(i)) /\ ArgReady(Type(i), args[i])
        BY <2>1 DEF ProtoReady, AllReady
  <2> QED BY <2>1, <2>2, ReadReady
<1> QED BY <1>1, ArgsInvariant, PTL

\* The guard behind a buffer is found damaged only where C itself changed the count
\* (CffiArgPostProcess looks for it behind the elements reported).
THEOREM PanicNeedsCountCorrect == Spec => []PanicNeedsCount
<1>1. ArgsInv => PanicNeedsCount
      BY DEF ArgsInv, PanicKnown, PanicNeedsCount
<1> QED BY <1>1, ArgsInvariant, PTL
-----------------------------------------------------------------------------
(* Progress.                                                               *)

\* How many times the loops of a call still go around from a phase.
Rounds(ph) == CASE ph = "pass1" -> 4 [] ph = "pass2" -> 3
                [] ph = "running" -> 2 [] ph = "storing" -> 1

InLoops == phase \in {"pass1", "pass2", "running", "storing"}

\* The most steps a call has left: each loop goes over all parameters.
StepsLeft ==
    IF InLoops THEN Rounds(phase) * Len(proto.params) + 1 - at ELSE 0

NatLeft == StepsLeft \in Nat

\* The steps of a call.
CallStep == SetupFirst \/ SetupSecond \/ Callee \/ Store

\* While a call is on, it has a step left at least.
LEMMA StepsLeftNat ==
    ASSUME ArgsInv
    PROVE  StepsLeft \in Nat /\ (InLoops => StepsLeft > 0)
<1>1. CASE ~InLoops
      BY <1>1 DEF StepsLeft
<1>2. CASE InLoops
  <2>1. Len(proto.params) \in Nat \ {0} /\ at \in 1 .. Len(proto.params)
        BY <1>2, InCall DEF InLoops
  <2>2. Rounds(phase) \in {1, 2, 3, 4}
        BY <1>2 DEF InLoops, Rounds
  <2>3. StepsLeft = Rounds(phase) * Len(proto.params) + 1 - at
        BY <1>2 DEF StepsLeft
  <2> QED BY <2>1, <2>2, <2>3
<1> QED BY <1>1, <1>2

\* Going on to the next parameter or phase is a step less.
LEMMA AdvanceCounts ==
    ASSUME ArgsInv, UNCHANGED proto, NEW next, Advance(next), InLoops,
           next \in {"pass2", "running", "storing"}, Rounds(phase) = Rounds(next) + 1
    PROVE  StepsLeft' < StepsLeft
<1> DEFINE n == Len(proto.params)
<1>1. n \in Nat \ {0} /\ at \in 1 .. n /\ Len(proto'.params) = n
      BY InCall DEF InLoops
<1>2. Rounds(next) \in {1, 2, 3} /\ next \in {"pass1", "pass2", "running", "storing"}
      BY DEF Rounds
<1>3. StepsLeft = (Rounds(next) + 1) * n + 1 - at
      BY DEF StepsLeft
<1>4. CASE at < n
  <2>1. at' = at + 1 /\ phase' = phase
        BY <1>4 DEF Advance
  <2>2. StepsLeft' = Rounds(phase) * n + 1 - (at + 1)
        BY <1>1, <2>1 DEF StepsLeft, InLoops
  <2>3. StepsLeft' = (Rounds(next) + 1) * n + 1 - (at + 1)
        BY <2>2
  <2> HIDE DEF n
  <2> QED BY <1>1, <1>2, <1>3, <2>3
<1>5. CASE ~(at < n)
  <2>1. at' = 1 /\ phase' = next
        BY <1>5 DEF Advance
  <2>2. StepsLeft' = Rounds(next) * n + 1 - 1
        BY <1>1, <1>2, <2>1 DEF StepsLeft, InLoops
  <2> HIDE DEF n
  <2>3. at = n
        BY <1>1, <1>5
  <2> QED BY <1>1, <1>2, <1>3, <2>2, <2>3
<1> QED BY <1>4, <1>5

\* A call that ended has none left.
LEMMA EndCounts ==
    ASSUME ArgsInv, InLoops, NEW how, Ends(how)
    PROVE  StepsLeft' < StepsLeft
<1>1. StepsLeft' = 0
      BY DEF Ends, StepsLeft, InLoops
<1> QED BY <1>1, StepsLeftNat

\* Every step of a call brings it closer to its end, whatever depends on what in the
\* prototype and whatever C writes: it makes at most four for each parameter, one of
\* them C's own (CffiFunctionSetupArgs goes over the arguments twice at most, and
\* CffiFunctionCall once over the outputs).
THEOREM CallAdvances ==
    Spec => [][CallStep => StepsLeft' < StepsLeft /\ StepsLeft' \in Nat]_state
<1>1. ArgsInv /\ CallStep => StepsLeft' < StepsLeft
  <2> SUFFICES ASSUME ArgsInv, CallStep PROVE StepsLeft' < StepsLeft
      OBVIOUS
  <2>1. CASE SetupFirst
    <3>1. InLoops /\ Rounds(phase) = Rounds("pass2") + 1 /\ UNCHANGED proto
          BY <2>1 DEF SetupFirst, InLoops, Rounds
    <3>2. Advance("pass2") \/ (\E how : Ends(how))
          BY <2>1 DEF SetupFirst, PrepareOne
    <3>3. CASE Advance("pass2")
          BY <3>1, <3>3, AdvanceCounts
    <3>4. CASE \E how : Ends(how)
          BY <3>1, <3>4, EndCounts
    <3> QED BY <3>2, <3>3, <3>4
  <2>2. CASE SetupSecond
    <3>1. InLoops /\ Rounds(phase) = Rounds("running") + 1 /\ UNCHANGED proto
          BY <2>2 DEF SetupSecond, InLoops, Rounds
    <3>2. Advance("running") \/ (\E how : Ends(how))
          BY <2>2 DEF SetupSecond, PrepareOne
    <3>3. CASE Advance("running")
          BY <3>1, <3>3, AdvanceCounts
    <3>4. CASE \E how : Ends(how)
          BY <3>1, <3>4, EndCounts
    <3> QED BY <3>2, <3>3, <3>4
  <2>3. CASE Callee
    <3>1. InLoops /\ Rounds(phase) = Rounds("storing") + 1 /\ UNCHANGED proto
          BY <2>3 DEF Callee, InLoops, Rounds
    <3>2. Advance("storing")
          BY <2>3 DEF Callee
    <3> QED BY <3>1, <3>2, AdvanceCounts
  <2>4. CASE Store
    <3>1. InLoops /\ phase = "storing" /\ UNCHANGED proto
          BY <2>4 DEF Store, InLoops
    <3>2. Stored \/ (\E how : Ends(how))
          BY <2>4 DEF Store
    <3>3. CASE at < Len(proto.params) /\ Stored
      <4>1. at' = at + 1 /\ phase' = phase
            BY <3>3 DEF Stored
      <4>2. at \in 1 .. Len(proto.params) /\ Len(proto.params) \in Nat
            BY <3>1, InCall
      <4> DEFINE n == Len(proto.params)
      <4>3. StepsLeft = 1 * n + 1 - at /\ StepsLeft' = 1 * n + 1 - (at + 1)
            BY <3>1, <4>1 DEF StepsLeft, InLoops, Rounds
      <4>4. at \in Int /\ n \in Nat
            BY <4>2
      <4> HIDE DEF n
      <4> QED BY <4>3, <4>4
    <3>4. CASE ~(at < Len(proto.params) /\ Stored)
      <4>1. PICK how : Ends(how)
            BY <3>2, <3>4 DEF Stored
      <4> QED BY <3>1, <4>1, EndCounts
    <3> QED BY <3>3, <3>4
  <2> QED BY <2>1, <2>2, <2>3, <2>4 DEF CallStep
<1>2. ArgsInv => NatLeft
      BY StepsLeftNat DEF NatLeft
<1>3. ArgsInv /\ NatLeft' /\ CallStep => StepsLeft' < StepsLeft /\ StepsLeft' \in Nat
      BY <1>1 DEF NatLeft
<1> QED BY <1>2, <1>3, ArgsInvariant, PTL
=============================================================================

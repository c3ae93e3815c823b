------------------------------- MODULE Struct -------------------------------
(***************************************************************************)
(* Structs and unions in memory and as binaries: generic/tclCffiStruct.c,  *)
(* with the conversions of tclCffiTypes.c it uses.                         *)
(*                                                                         *)
(* A script defines structs by the commands of StructTable and accesses    *)
(* one block of memory through them.  A byte is a digit to base Radix, so that *)
(* small numbers take several; Junk is a byte nobody wrote and Fence one   *)
(* that does not belong to the block.  An image is a partial function from *)
(* offsets to the bytes that a conversion writes.                          *)
(*                                                                         *)
(* Values are [num |-> n], [list |-> s], [dict |-> f] and [bytes |-> s]    *)
(* where f maps field names to values.                                     *)
(*                                                                         *)
(* The conversion of a struct calls itself for the structs nested in it.   *)
(* What it calls are parameters of this module, the operators Nested...,   *)
(* and they stand for the operators of this module that are named after    *)
(* them: a model gives them these as values.                               *)
(***************************************************************************)
EXTENDS StructTable

CONSTANTS
    Dicts,          \* the values a script converts to a struct
    FieldValues,    \* for each field name the values a script stores in it
    Radix,          \* number of values of a byte, even
    IntMax,         \* the largest int
    SizeMax,        \* TCL_SIZE_MAX: that of an int in Tcl 8.6, larger in Tcl 9
    MaxBytes,       \* bound on the bytes that are modelled
    Counts,         \* values of -count
    VLACounts,      \* values of -vlacount, -1 where it is absent
    Junk, Fence,
    NestedRoomForVLACount(_, _), NestedRoomForObj(_, _), NestedRoomForNative(_, _, _),
    NestedAccepts(_, _), NestedImage(_, _), NestedToObj(_, _, _),
    NestedNormal(_, _), NestedZeroStruct(_)

\* The bases of fields that are not structs are numbers, and the parser of types takes
\* structsize for integers that are no arrays.
FieldConverts(field) ==
    /\ field.base.of \notin StructName => /\ field.base.of = "num"
                                          /\ field.base.signed \in BOOLEAN
    /\ field.init = "structsize" => field.base.of = "num" /\ field.array = Scalar

ASSUME StructAssumption ==
    /\ Radix \in Nat /\ Radix % 2 = 0 /\ Radix > 0
    /\ IntMax \in Nat /\ IntMax > 0 /\ (IntMax + 1) % 16 = 0
    /\ SizeMax \in Nat /\ SizeMax >= IntMax /\ MaxBytes \in Nat
    /\ Counts \subseteq Nat \ {0}
    /\ VLACounts \subseteq Nat \cup {-1}
    /\ Junk \notin Int /\ Fence \notin Int /\ Junk # Fence
    /\ "num" \notin StructName
    /\ \A name \in StructName : \A source \in Sources[name] :
          \A i \in DOMAIN source.fields : FieldConverts(source.fields[i])

VARIABLES
    block,      \* the allocated memory: its struct, count, the room these need, and bytes
    mem,        \* the bytes at and after its address
    known       \* what was stored: for each index, the fields' values or Junk

structVars == <<tableVars, block, mem, known>>

Num(n)  == [num |-> n]
List(s) == [list |-> s]
Dict(f) == [dict |-> f]
Bin(b)  == [bytes |-> b]

Byte == 0 .. Radix - 1

IsNum(v)  == v \in [num : Int]
IsList(v) == "list" \in DOMAIN v /\ v.list \in Seq({v.list[j] : j \in DOMAIN v.list})
IsDict(v) == "dict" \in DOMAIN v
IsBin(v)  == v \in [bytes : Seq(Byte)]

\* No int.
Fails == -(IntMax + 2)

\* What an int keeps of a number: the builds wrap around.
ToInt(n) ==
    LET values == 2 * (IntMax + 1)
        low    == n % values
    IN  IF low > IntMax THEN low - values ELSE low

\* What is there when the one image is written over the other.
Over(image, old) == [k \in DOMAIN image \cup DOMAIN old |->
                        IF k \in DOMAIN image THEN image[k] ELSE old[k]]

Fill(n, byte) == [k \in 0 .. n - 1 |-> byte]

Shift(image, by) == [k \in {by + j : j \in DOMAIN image} |-> image[k - by]]

\* Images of elements of the given size, one after the other.
Tiled(images, size) ==
    LET Bytes(j) == {(j - 1) * size + k : k \in DOMAIN images[j]}
    IN  [k \in UNION {Bytes(j) : j \in DOMAIN images} |->
            images[k \div size + 1][k % size]]

-----------------------------------------------------------------------------
(* Sizes.                                                                  *)
(*                                                                         *)
(* RoomFor... is the number of bytes that a struct takes, SizeFor... what  *)
(* the code makes of it: it computes in ints, without a check.  That every *)
(* step wraps comes to the same as wrapping the result, as IntMax + 1 is a *)
(* multiple of the alignments it rounds to.  The model is of builds that   *)
(* leave out assertions: one of them says that the fixed part is aligned   *)
(* for the elements (Struct.c:261, 345, 449), and where the struct is      *)
(* packed it need not be.                                                  *)

Power[k \in Nat] == IF k = 0 THEN 1 ELSE Radix * Power[k - 1]

\* CffiStructGetDynamicCountFromObj
ObjCount(L, v) ==
    LET name == L.fields[L.count].name IN
    IF IsDict(v) /\ name \in DOMAIN v.dict /\ IsNum(v.dict[name])
       /\ v.dict[name].num \in 0 .. IntMax
    THEN v.dict[name].num ELSE Fails

\* A number of the given base whose bytes are those of n.
Signed(base, n) == IF base.signed /\ n >= Power[base.size] \div 2
                   THEN n - Power[base.size] ELSE n

\* The lowest byte comes first.  What is made of a byte that nobody wrote, or of one
\* outside the block, is Junk.
Number(base, bytes, at) ==
    LET value[k \in 0 .. base.size] ==
            IF k = 0 THEN 0 ELSE value[k - 1] * Radix + bytes[at + base.size - k]
    IN  IF \E k \in at .. at + base.size - 1 :
              k \notin DOMAIN bytes \/ bytes[k] \in {Junk, Fence} THEN Junk
        ELSE Signed(base, value[base.size])

\* CffiStructGetDynamicCountNative, with at the offset of the struct
NativeCount(L, bytes, at) ==
    LET n == Number(L.fields[L.count].base, bytes, at + L.offsets[L.count])
    IN  IF n = Junk \/ ToInt(n) < 0 THEN Fails ELSE ToInt(n)

RoomForVLACount(L, n) ==
    LET base == LastField(L).base IN
    IF ~L.varsize THEN L.size
    ELSE IF n < 0 THEN Fails
    ELSE IF L.count # 0 THEN Extended(L, n * base.size)
    ELSE Extended(L, NestedRoomForVLACount(base.layout, n) - base.size)

RoomForObj(L, v) ==
    LET last  == LastField(L)
        n     == ObjCount(L, v)
        inner == NestedRoomForObj(last.base.layout, v.dict[last.name])
    IN
    IF ~L.varsize THEN L.size
    ELSE IF L.count # 0
         THEN IF n = Fails THEN Fails ELSE Extended(L, n * last.base.size)
    ELSE IF ~IsDict(v) \/ last.name \notin DOMAIN v.dict \/ inner = Fails THEN Fails
    ELSE Extended(L, inner - last.base.size)

RoomForNative(L, bytes, at) ==
    LET base  == LastField(L).base
        n     == NativeCount(L, bytes, at)
        inner == NestedRoomForNative(base.layout, bytes, at + L.offsets[Len(L.fields)])
    IN
    IF ~L.varsize THEN L.size
    ELSE IF L.count # 0
         THEN IF n = Fails THEN Fails ELSE Extended(L, n * base.size)
    ELSE IF inner = Fails THEN Fails
    ELSE Extended(L, inner - base.size)

\* Only the sizes of structs of variable size are computed.
AsInt(L, room) == IF L.varsize /\ room # Fails THEN ToInt(room) ELSE room

SizeForVLACount(L, n) == AsInt(L, RoomForVLACount(L, n))

SizeForObj(L, v) == AsInt(L, RoomForObj(L, v))

SizeForNative(L, bytes, at) == AsInt(L, RoomForNative(L, bytes, at))

-----------------------------------------------------------------------------
(* From script values to bytes.                                            *)

InRange(base, n) ==
    LET power == Power[base.size] IN
    IF base.signed THEN n >= -(power \div 2) /\ n < power \div 2
    ELSE n >= 0 /\ n < power

\* Negative numbers are kept as their complement.
Digits(n, size) ==
    LET rest[k \in Nat] == IF k = 0 THEN n ELSE rest[k - 1] \div Radix
    IN  [k \in 0 .. size - 1 |-> rest[k] % Radix]

\* How many elements of an array are written.
Elements(v, n) == IF Len(v.list) < n THEN Len(v.list) ELSE n

ArrayCount(L, i, v) == IF IsVLA(L.fields[i]) THEN ObjCount(L, v) ELSE L.fields[i].array

Given(L, i, v) == L.fields[i].name \in DOMAIN v.dict \/ L.fields[i].init = "default"

FieldObj(L, i, v) ==
    IF L.fields[i].name \in DOMAIN v.dict THEN v.dict[L.fields[i].name]
    ELSE L.fields[i].default

ElemAccepts(base, x) == IF base.of = "num" THEN IsNum(x) /\ InRange(base, x.num)
                        ELSE NestedAccepts(base.layout, x)

\* No value is looked at for an array of no elements.
FieldAccepts(f, v, n) ==
    IF f.array = Scalar THEN ElemAccepts(f.base, v)
    ELSE n # 0 => IsList(v) /\ \A j \in 1 .. Elements(v, n) : ElemAccepts(f.base, v.list[j])

\* Whether CffiStructFromObj succeeds.
Accepts(L, v) ==
    LET Converts(i) ==
            IF Given(L, i, v)
            THEN FieldAccepts(L.fields[i], FieldObj(L, i, v), ArrayCount(L, i, v))
            ELSE L.fields[i].init = "structsize" \/ L.clear
    IN  IF L.union THEN IsBin(v) /\ Len(v.bytes) = L.size
        ELSE IsDict(v) /\ SizeForObj(L, v) # Fails /\ \A i \in DOMAIN L.fields : Converts(i)

\* What is built in temporary space is copied from there with the junk between its
\* fields; its size is fixed.
ElemImage(base, x, temp) ==
    IF base.of = "num" THEN Digits(x.num, base.size)
    ELSE IF temp
    THEN Over(NestedImage(base.layout, x), Fill(base.size, Junk))
    ELSE NestedImage(base.layout, x)

\* CffiNativeValueFromObj.  Elements that are missing are zero.
FieldImage(f, v, n, temp) ==
    LET given == Elements(v, n)
    IN  IF f.array = Scalar THEN ElemImage(f.base, v, temp)
        ELSE IF n = 0 THEN <<>>
        ELSE Over(Tiled([j \in 1 .. given |-> ElemImage(f.base, v.list[j], temp)], f.base.size),
                  [k \in given * f.base.size .. n * f.base.size - 1 |-> 0])

\* What is written for a field.  A size field that is too narrow gets the low digits.
Written(L, i, v) ==
    IF Given(L, i, v)
    THEN FieldImage(L.fields[i], FieldObj(L, i, v), ArrayCount(L, i, v), FALSE)
    ELSE IF L.fields[i].init = "structsize" THEN Digits(L.size, L.fields[i].base.size)
    ELSE <<>>

\* CffiStructFromObj.  Fields are written in order, each over those before.
Image(L, v) ==
    LET written == [i \in DOMAIN L.fields |-> Written(L, i, v)]
        clear == IF L.clear THEN Fill(SizeForObj(L, v), 0) ELSE <<>>
        Writers(k) == {i \in DOMAIN L.fields : k - L.offsets[i] \in DOMAIN written[i]}
        Spots(i) == {L.offsets[i] + k : k \in DOMAIN written[i]}
    IN  IF L.union THEN [k \in 0 .. L.size - 1 |-> v.bytes[k + 1]]
        ELSE Over([k \in UNION {Spots(i) : i \in DOMAIN L.fields} |->
                     LET i == Max(Writers(k)) IN written[i][k - L.offsets[i]]],
                  clear)

-----------------------------------------------------------------------------
(* From bytes to script values.                                            *)

ElemToObj(base, bytes, at) == IF base.of = "num" THEN Num(Number(base, bytes, at))
                              ELSE NestedToObj(base.layout, bytes, at)

\* CffiNativeValueToObj
FieldToObj(f, bytes, at, n) ==
    IF f.array = Scalar THEN ElemToObj(f.base, bytes, at)
    ELSE List([j \in 1 .. n |-> ElemToObj(f.base, bytes, at + (j - 1) * f.base.size)])

NativeArrayCount(L, i, bytes, at) ==
    IF IsVLA(L.fields[i]) THEN NativeCount(L, bytes, at) ELSE L.fields[i].array

\* CffiStructToObj
ToObj(L, bytes, at) ==
    LET Value(i) == FieldToObj(L.fields[i], bytes, at + L.offsets[i],
                               NativeArrayCount(L, i, bytes, at))
    IN  IF L.union THEN Bin([k \in 1 .. L.size |-> bytes[at + k - 1]])
        ELSE Dict([name \in Names(L) |-> Value(FindField(L, name))])

-----------------------------------------------------------------------------
(* Binaries.  The bytes of a Tcl byte array are numbered from 0 here.      *)

ToBinary(L, v) == Over(Image(L, v), Fill(SizeForObj(L, v), Junk))

\* Mutant: a binary need only hold the fixed part.
FromBinaryAccepts_FixedPart(L, b, len) == len >= L.size

FromBinaryAccepts(L, b, len) ==
    /\ len >= L.size
    /\ SizeForNative(L, b, 0) # Fails
    /\ len >= SizeForNative(L, b, 0)

UnionEncode(L, i, v) ==
    Over(FieldImage(L.fields[i], v, L.fields[i].array, FALSE), Fill(L.size, Junk))

UnionDecode(L, i, b) == FieldToObj(L.fields[i], b, L.offsets[i], L.fields[i].array)

-----------------------------------------------------------------------------
(* The block.                                                              *)

Here == structs[block.struct]

\* CffiStructComputeAddress; no script indexes beyond the count it allocated.
StructIndexes == IF Here.varsize THEN {0} ELSE 0 .. block.count - 1

\* What follows an access beyond the block is not modelled, so that none is made
\* through a block that is too small for its structs.
InUse == block # None /\ block.room <= IntMax

StructAddress(index) == IF Here.varsize THEN 0 ELSE Here.size * index

FieldAddress(index, i) == StructAddress(index) + Here.offsets[i]

Unwritten(L) == [name \in Names(L) |-> Junk]

MayAllocate(name) ==
    /\ stage = "idle" /\ block = None
    /\ structs[name] # None
    /\ ~structs[name].union

\* Mutant: the array of variable length is forgotten.
StructAllocateCmd_FixedPart(name, count, vlaCount) ==
    /\ MayAllocate(name)
    /\ LET L     == structs[name]
           size  == L.size
           bytes == ToInt(count * size)
       IN  /\ L.varsize => count = 1 /\ vlaCount >= 0
           /\ size > 0 /\ count < SizeMax \div size
           /\ bytes \in 0 .. MaxBytes
           /\ block' = [struct |-> name, count |-> count,
                        room |-> count * RoomForVLACount(L, vlaCount), size |-> bytes]
           /\ mem' = Over(Fill(bytes, Junk), Fill(MaxBytes, Fence))
           /\ known' = [k \in 0 .. count - 1 |-> Unwritten(L)]
    /\ UNCHANGED tableVars

\* The limit is on sizes, the product an int.
StructAllocateCmd(name, count, vlaCount) ==
    /\ MayAllocate(name)
    /\ LET L     == structs[name]
           size  == SizeForVLACount(L, vlaCount)
           bytes == ToInt(count * size)
       IN  /\ L.varsize => count = 1 /\ vlaCount >= 0
           /\ size > 0 /\ count < SizeMax \div size
           /\ bytes \in 0 .. MaxBytes
           /\ block' = [struct |-> name, count |-> count,
                        room |-> count * RoomForVLACount(L, vlaCount), size |-> bytes]
           /\ mem' = Over(Fill(bytes, Junk), Fill(MaxBytes, Fence))
           /\ known' = [k \in 0 .. count - 1 |-> Unwritten(L)]
    /\ UNCHANGED tableVars

-----------------------------------------------------------------------------
(* What a conversion should preserve: the value read back for a value that *)
(* was accepted.  Elements beyond the array are dropped, missing ones are  *)
(* zero, missing fields have their default, the size, or zero.             *)

ZeroElem(base) == IF base.of = "num" THEN Num(0) ELSE NestedZeroStruct(base.layout)

ZeroField(f, n) == IF f.array = Scalar THEN ZeroElem(f.base)
                   ELSE List([j \in 1 .. n |-> ZeroElem(f.base)])

ZeroStruct(L) ==
    LET Value(f) == ZeroField(f, f.array)
    IN  IF L.union THEN Bin([k \in 1 .. L.size |-> 0])
        ELSE Dict([name \in Names(L) |-> Value(L.fields[FindField(L, name)])])

NormalElem(base, x) == IF base.of = "num" THEN x ELSE NestedNormal(base.layout, x)

NormalField(f, v, n) ==
    IF f.array = Scalar THEN NormalElem(f.base, v)
    ELSE List([j \in 1 .. n |-> IF j <= Len(v.list) THEN NormalElem(f.base, v.list[j])
                                ELSE ZeroElem(f.base)])

Normal(L, v) ==
    LET Value(i) ==
            LET f == L.fields[i] IN
            IF Given(L, i, v) THEN NormalField(f, FieldObj(L, i, v), ArrayCount(L, i, v))
            ELSE IF f.init = "structsize"
            THEN Num(Signed(f.base, L.size % Power[f.base.size]))
            ELSE ZeroField(f, ArrayCount(L, i, v))
    IN  IF L.union THEN v
        ELSE Dict([name \in Names(L) |-> Value(FindField(L, name))])

-----------------------------------------------------------------------------
(* Commands on memory.                                                     *)

\* A block whose value is rejected is freed at once.  Without a value it is made of
\* defaults, as from an empty dictionary.
StructNewCmd(name, v) ==
    /\ MayAllocate(name)
    /\ LET L == structs[name] IN
       /\ Accepts(L, v)
       /\ SizeForObj(L, v) \in 0 .. MaxBytes
       /\ block' = [struct |-> name, count |-> 1,
                    room |-> RoomForObj(L, v), size |-> SizeForObj(L, v)]
       /\ mem' = Over(Over(Image(L, v), Fill(block'.size, Junk)), Fill(MaxBytes, Fence))
       /\ known' = [k \in {0} |-> Normal(L, v).dict]
    /\ UNCHANGED tableVars

\* The struct is built aside and copied whole.
ToNative(index, v) ==
    /\ InUse /\ index \in StructIndexes
    /\ ~Here.varsize
    /\ Accepts(Here, v)
    /\ mem' = Over(Shift(Over(Image(Here, v), Fill(Here.size, Junk)),
                        StructAddress(index)), mem)
    /\ known' = [known EXCEPT ![index] = Normal(Here, v).dict]
    /\ UNCHANGED <<tableVars, block>>

\* Mutant: the field that holds the count may be stored in.
SetNative_CountToo(index, i, v) ==
    /\ InUse /\ index \in StructIndexes
    /\ LET f == Here.fields[i] IN
       /\ ~VariableSize(f)
       /\ FieldAccepts(f, v, f.array)
       /\ mem' = Over(Shift(FieldImage(f, v, f.array, TRUE), FieldAddress(index, i)), mem)
       /\ known' = [known EXCEPT ![index][f.name] = NormalField(f, v, f.array)]
    /\ UNCHANGED <<tableVars, block>>

SetNative(index, i, v) ==
    /\ InUse /\ index \in StructIndexes
    /\ LET f == Here.fields[i] IN
       /\ i # Here.count
       /\ ~VariableSize(f)
       /\ FieldAccepts(f, v, f.array)
       /\ mem' = Over(Shift(FieldImage(f, v, f.array, TRUE), FieldAddress(index, i)), mem)
       /\ known' = [known EXCEPT ![index][f.name] = NormalField(f, v, f.array)]
    /\ UNCHANGED <<tableVars, block>>

\* A C function that is passed the block fills in what was asked for: the only way to
\* get a count into memory that was allocated for an array of variable length.
CalleeFills(v) ==
    /\ InUse /\ Here.varsize
    /\ known[0] = Unwritten(Here)
    /\ Accepts(Here, v) /\ RoomForObj(Here, v) <= block.room
    /\ mem' = Over(Image(Here, v), mem)
    /\ known' = [known EXCEPT ![0] = Normal(Here, v).dict]
    /\ UNCHANGED <<tableVars, block>>

StructFreeCmd ==
    /\ block # None
    /\ block' = None /\ mem' = Fill(MaxBytes, Fence) /\ known' = <<>>
    /\ UNCHANGED tableVars

StructInit ==
    /\ TableInit
    /\ block = None /\ mem = Fill(MaxBytes, Fence) /\ known = <<>>

\* Structs are defined and destroyed while there is no block.
Define == block = None /\ TableNext /\ UNCHANGED <<block, mem, known>>

StructNext ==
    \/ Define
    \/ \E name \in StructName, v \in Dicts : StructNewCmd(name, v)
    \/ \E name \in StructName, count \in Counts, vlaCount \in VLACounts :
          StructAllocateCmd(name, count, vlaCount)
    \/ /\ block # None
       /\ \E index \in StructIndexes :
             \/ \E v \in Dicts : ToNative(index, v)
             \/ \E i \in DOMAIN Here.fields :
                   \E v \in FieldValues[Here.fields[i].name] : SetNative(index, i, v)
    \/ \E v \in Dicts : CalleeFills(v)
    \/ StructFreeCmd

StructSpec == StructInit /\ [][StructNext]_structVars

-----------------------------------------------------------------------------
(* Properties.                                                             *)

\* getnative, getnativefields and fromnative return, for every index and field, what
\* was stored last through new, tonative or setnative, also when another field or
\* another struct of the block was stored in between (Struct.c:1813, 2045); provided
\* that the bytes of the block were computed without wrapping around.
ReadsBack ==
    InUse =>
        \A index \in DOMAIN known :
            /\ \A i \in DOMAIN Here.fields :
                  LET f == Here.fields[i] IN
                  known[index][f.name] # Junk =>
                      FieldToObj(f, mem, FieldAddress(index, i),
                                 NativeArrayCount(Here, i, mem, StructAddress(index)))
                          = known[index][f.name]
            /\ (\A name \in Names(Here) : known[index][name] # Junk) =>
                  ToObj(Here, mem, StructAddress(index)) = Dict(known[index])

\* Whether the count of a trailing array was written.
CountKnown(index) ==
    Here.varsize =>
        known[index][IF Here.count # 0 THEN Here.fields[Here.count].name
                     ELSE LastField(Here).name] # Junk

\* Nothing is written outside the block, and it holds all that its structs are read
\* for, whenever the room they need is a number that fits an int: each struct with the
\* elements that its count in memory says it has, and each field that fieldpointer
\* points to (Struct.c:1504, 1602, 2323).  Where it does not fit, new and allocate take
\* what is left of it and the block is too small (Struct.c:352, 1571).
InBounds ==
    InUse =>
        /\ structs[block.struct] # None
        /\ \A k \in DOMAIN mem : (k >= block.size) = (mem[k] = Fence)
        /\ \A index \in DOMAIN known :
              LET size == IF CountKnown(index)
                          THEN SizeForNative(Here, mem, StructAddress(index)) ELSE Here.size
              IN  /\ size # Fails
                  /\ StructAddress(index) + size <= block.size
                  /\ CountKnown(index) =>
                        \A i \in DOMAIN Here.fields :
                            LET f == Here.fields[i]
                                n == NativeArrayCount(Here, i, mem, StructAddress(index))
                            IN  Here.offsets[i]
                                  + (IF f.array = Scalar THEN f.base.size ELSE n * f.base.size)
                                    <= size

\* Whether the size of a value's struct is computed without wrapping around.
FitsInt(L, v) == L.varsize => RoomForObj(L, v) <= IntMax

\* tobinary and frombinary are inverse and no proper prefix of a binary is taken for the
\* whole, as long as the size of the binary fits an int: where it does not, a truncated
\* binary is accepted (Struct.c:456, 2479).  The ways to compute a size agree also then:
\* from the dictionary, from the bytes and, for an array of variable length, from its
\* count.  A field of a union is decoded to what was encoded.
BinaryRoundTrip ==
    (stage = "idle" /\ block = None) =>
        \A name \in {s \in StructName : structs[s] # None} :
            LET L == structs[name] IN
            IF L.union
            THEN \A i \in DOMAIN L.fields : \A v \in FieldValues[L.fields[i].name] :
                    FieldAccepts(L.fields[i], v, L.fields[i].array) =>
                        /\ DOMAIN UnionEncode(L, i, v) = 0 .. L.size - 1
                        /\ UnionDecode(L, i, UnionEncode(L, i, v))
                               = NormalField(L.fields[i], v, L.fields[i].array)
            ELSE \A v \in Dicts : Accepts(L, v) =>
                    LET b    == ToBinary(L, v)
                        size == SizeForObj(L, v)
                    IN  /\ L.count # 0 => size = SizeForVLACount(L, ObjCount(L, v))
                        /\ SizeForNative(L, b, 0) = size
                        /\ FitsInt(L, v) =>
                              /\ DOMAIN b = 0 .. size - 1
                              /\ \A len \in 0 .. size :
                                    FromBinaryAccepts(L, b, len) <=> len = size
                              /\ ToObj(L, b, 0) = Normal(L, v)
=============================================================================

---------------------------- MODULE MemoryProofs ----------------------------
(***************************************************************************)
(* Proofs about the memory C sees.                                         *)
(*                                                                         *)
(* The heap, for every set of addresses and of struct names, whichever     *)
(* free block the allocator returns and whatever the script does with the  *)
(* pointers it gets.                                                       *)
(*                                                                         *)
(* The structs in it, for every accepted definition.  Their layout is      *)
(* aligned, disjoint, tight and repeatable.  Their conversions keep what   *)
(* is stored: from digits to numbers, from elements to fields, and from    *)
(* the fields to the struct.  A struct is converted with the conversions   *)
(* of those nested in it, and each layout nests only layouts that were     *)
(* there before it: induction over the nesting is an invariant of the      *)
(* commands, MadeInv.                                                      *)
(***************************************************************************)
EXTENDS Heap, Struct, WellFoundedInduction, TLAPS

HeapTyped ==
    /\ allocated \subseteq Address
    /\ registry \in [Address -> Entry]
    /\ shares \in BOOLEAN
    /\ drops \in BOOLEAN

\* Until the script shares a pointer, every registration is one of its own for
\* an allocated block.  (A counted pointer would survive one unregistration.)
OwnsOnlySafe ==
    \A a \in Address :
        registry[a].kind = "none" \/ (registry[a].kind = "safe" /\ a \in allocated)

Owned == shares \/ OwnsOnlySafe

AllRegistered == \A a \in Address : a \in allocated => IsRegistered(registry, a)

Accounted == shares \/ drops \/ AllRegistered

-----------------------------------------------------------------------------
(* What the operators of the registry do to one entry.                     *)

LEMMA RegisterSafeFacts ==
    ASSUME NEW reg \in [Address -> Entry], NEW a \in Address, NEW t \in Tags
    PROVE  /\ RegisterSafe(reg, NoSuper, a, t) \in [Address -> Entry]
           /\ RegisterSafe(reg, NoSuper, a, t)[a].kind # "none"
           /\ reg[a].kind \in {"none", "safe"}
                  => RegisterSafe(reg, NoSuper, a, t)[a].kind = "safe"
           /\ \A b \in Address \ {a} : RegisterSafe(reg, NoSuper, a, t)[b] = reg[b]
  <1> DEFINE e == SafeEntry(NoSuper, reg[a], t)
  <1>1. MergedTag(NoSuper, reg[a].tag, t) \in Tags
    BY DEF MergedTag, Entry
  <1>2. /\ e \in Entry
        /\ e.kind # "none"
        /\ reg[a].kind \in {"none", "safe"} => e.kind = "safe"
    BY <1>1 DEF SafeEntry, Entry, Kinds
  <1> HIDE DEF e
  <1>3. RegisterSafe(reg, NoSuper, a, t) = [reg EXCEPT ![a] = e]
    BY DEF RegisterSafe, e
  <1> QED BY <1>2, <1>3

LEMMA UnregisterFacts ==
    ASSUME NEW reg \in [Address -> Entry], NEW a \in Address
    PROVE  /\ Unregister(reg, a) \in [Address -> Entry]
           /\ reg[a].kind \in {"none", "safe"} => Unregister(reg, a)[a].kind = "none"
           /\ \A b \in Address \ {a} : Unregister(reg, a)[b] = reg[b]
  <1> DEFINE e == ReleasedEntry(reg[a])
  <1>1. /\ e \in Entry
        /\ reg[a].kind \in {"none", "safe"} => e.kind = "none"
    BY DEF ReleasedEntry, Unregistered, Entry, Kinds, Tags
  <1> HIDE DEF e
  <1>2. Unregister(reg, a) = [reg EXCEPT ![a] = e]
    BY DEF Unregister, e
  <1> QED BY <1>1, <1>2

LEMMA InvalidateFacts ==
    ASSUME NEW reg \in [Address -> Entry], NEW a \in Address
    PROVE  /\ Invalidate(reg, a) \in [Address -> Entry]
           /\ Invalidate(reg, a)[a].kind = "none"
           /\ \A b \in Address \ {a} : Invalidate(reg, a)[b] = reg[b]
  BY DEF Invalidate, Unregistered, Entry, Kinds, Tags

LEMMA RetagFacts ==
    ASSUME NEW reg \in [Address -> Entry], NEW a \in Address, NEW t \in Tags
    PROVE  /\ Retag(reg, a, t) \in [Address -> Entry]
           /\ \A b \in Address : Retag(reg, a, t)[b].kind = reg[b].kind
  BY DEF Retag, Entry, Kinds

LEMMA SharedTyped ==
    ASSUME NEW reg \in [Address -> Entry], NEW a \in Address, NEW t \in Tags
    PROVE  /\ RegisterCounted(reg, NoSuper, a, t) \in [Address -> Entry]
           /\ RegisterPinned(reg, a) \in [Address -> Entry]
  <1>1. MergedTag(NoSuper, reg[a].tag, t) \in Tags
    BY DEF MergedTag, Entry
  <1>2. CountedEntry(NoSuper, reg[a], t) \in Entry
    BY <1>1 DEF CountedEntry, Entry, Kinds
  <1>3. RegisterCounted(reg, NoSuper, a, t) \in [Address -> Entry]
    BY <1>2 DEF RegisterCounted
  <1>4. RegisterPinned(reg, a) \in [Address -> Entry]
    BY DEF RegisterPinned, PinnedEntry, Entry, Kinds, Tags
  <1> QED BY <1>3, <1>4

-----------------------------------------------------------------------------
(* The commands come down to six kinds of step.                            *)

Freed(a) ==
    /\ registry' = Unregister(registry, a)
    /\ allocated' = allocated \ {a}
    /\ UNCHANGED <<shares, drops>>

LEMMA StepKinds ==
    ASSUME [Next]_vars
    PROVE  \/ \E a \in Address, t \in Tags : NewBlock(a, t)
           \/ \E a \in Address : Freed(a)
           \/ \E a \in Address, t \in Tags : EnvShare(a, t)
           \/ \E a \in Address, t \in Tags : EnvDrop(a, t)
           \/ \E a \in Address, t \in Tags, new \in Tags : EnvCast(a, t, new)
           \/ UNCHANGED vars
  <1>1. Void \in Tags /\ Tag \subseteq Tags
    BY DEF Tags
  <1>2. ASSUME NEW a \in Address, MemoryFromUniString(a) \/ MemoryFromString(a)
        PROVE  NewBlock(a, Void)
    BY <1>2 DEF MemoryFromUniString, MemoryFromString
  <1>3. ASSUME NEW a \in Address, NEW t \in Tags, NEW converts \in BOOLEAN,
               MemoryNew(a, t, converts) \/ StructNew(a, t, converts)
        PROVE  NewBlock(a, t) \/ UNCHANGED vars
    BY <1>3 DEF MemoryNew, StructNew
  <1>4. ASSUME NEW a \in Address, NEW t \in Tags,
               MemoryAllocate(a, t) \/ MemoryFromBinary(a, t) \/ StructAllocate(a, t)
        PROVE  NewBlock(a, t)
    BY <1>4 DEF MemoryAllocate, MemoryFromBinary, StructAllocate
  <1>5. ASSUME NEW a \in Address, MemoryFree(a) PROVE Freed(a)
    BY <1>5 DEF MemoryFree, Freed
  <1>6. ASSUME NEW a \in Address, NEW t, NEW s, StructFree(a, t, s) PROVE Freed(a)
    BY <1>6 DEF StructFree, Freed
  <1> QED BY <1>1, <1>2, <1>3, <1>4, <1>5, <1>6 DEF Next

LEMMA TypedStep ==
    ASSUME HeapTyped, [Next]_vars
    PROVE  HeapTyped'
  <1> USE DEF HeapTyped
  <1>1. ASSUME NEW a \in Address, NEW t \in Tags, NewBlock(a, t) PROVE HeapTyped'
    BY <1>1, RegisterSafeFacts DEF NewBlock
  <1>2. ASSUME NEW a \in Address, Freed(a) PROVE HeapTyped'
    BY <1>2, UnregisterFacts DEF Freed
  <1>3. ASSUME NEW a \in Address, NEW t \in Tags, EnvShare(a, t) PROVE HeapTyped'
    BY <1>3, SharedTyped DEF EnvShare
  <1>4. ASSUME NEW a \in Address, NEW t \in Tags, EnvDrop(a, t) PROVE HeapTyped'
    BY <1>4, UnregisterFacts, InvalidateFacts DEF EnvDrop
  <1>5. ASSUME NEW a \in Address, NEW t \in Tags, NEW new \in Tags, EnvCast(a, t, new)
        PROVE  HeapTyped'
    BY <1>5, RetagFacts DEF EnvCast
  <1>6. CASE UNCHANGED vars
    BY <1>6 DEF vars
  <1> QED BY <1>1, <1>2, <1>3, <1>4, <1>5, <1>6, StepKinds

LEMMA HeapTypeCorrect == Spec => []HeapTyped
  <1>1. Init => HeapTyped
    <2>1. Unregistered \in Entry
      BY DEF Unregistered, Entry, Kinds, Tags
    <2>2. Init => registry \in [Address -> Entry]
      BY <2>1 DEF Init
    <2>3. Init => allocated \subseteq Address /\ shares \in BOOLEAN /\ drops \in BOOLEAN
      BY DEF Init
    <2> QED BY <2>2, <2>3 DEF HeapTyped
  <1> QED BY <1>1, TypedStep, PTL DEF Spec

-----------------------------------------------------------------------------

LEMMA OwnedStep ==
    ASSUME HeapTyped, Owned, [Next]_vars
    PROVE  Owned'
  <1> USE DEF HeapTyped, Owned, OwnsOnlySafe
  <1>1. ASSUME NEW a \in Address, NEW t \in Tags, NewBlock(a, t) PROVE Owned'
    <2>1. CASE shares
      BY <1>1, <2>1 DEF NewBlock
    <2>2. CASE ~shares
      <3>1. registry'[a].kind = "safe" /\ \A b \in Address \ {a} : registry'[b] = registry[b]
        BY <1>1, <2>2, RegisterSafeFacts DEF NewBlock
      <3> QED BY <1>1, <2>2, <3>1 DEF NewBlock
    <2> QED BY <2>1, <2>2
  <1>2. ASSUME NEW a \in Address, Freed(a) PROVE Owned'
    <2>1. CASE shares
      BY <1>2, <2>1 DEF Freed
    <2>2. CASE ~shares
      <3>1. registry'[a].kind = "none" /\ \A b \in Address \ {a} : registry'[b] = registry[b]
        BY <1>2, <2>2, UnregisterFacts DEF Freed
      <3> QED BY <1>2, <2>2, <3>1 DEF Freed
    <2> QED BY <2>1, <2>2
  <1>3. ASSUME NEW a \in Address, NEW t \in Tags, EnvShare(a, t) PROVE Owned'
    BY <1>3 DEF EnvShare
  <1>4. ASSUME NEW a \in Address, NEW t \in Tags, EnvDrop(a, t) PROVE Owned'
    <2>1. CASE shares
      BY <1>4, <2>1 DEF EnvDrop
    <2>2. CASE ~shares
      <3>1. registry'[a].kind = "none" /\ \A b \in Address \ {a} : registry'[b] = registry[b]
        BY <1>4, <2>2, UnregisterFacts, InvalidateFacts DEF EnvDrop
      <3> QED BY <1>4, <2>2, <3>1 DEF EnvDrop
    <2> QED BY <2>1, <2>2
  <1>5. ASSUME NEW a \in Address, NEW t \in Tags, NEW new \in Tags, EnvCast(a, t, new)
        PROVE  Owned'
    BY <1>5, RetagFacts DEF EnvCast
  <1>6. CASE UNCHANGED vars
    BY <1>6 DEF vars
  <1> QED BY <1>1, <1>2, <1>3, <1>4, <1>5, <1>6, StepKinds

\* No command reads, writes or frees memory that is not allocated, for every heap
\* and every sequence of commands of a script that shares no heap pointer
\* (CffiMemoryAddressFromObj, Memory.c:26; CffiMemoryFreeCmd, Memory.c:163;
\* CffiStructFreeCmd, Struct.c:2373).
THEOREM AccessCorrect == Spec => []AccessOnlyAllocated
  <1>1. Init => Owned
    BY DEF Init, Owned, OwnsOnlySafe, Unregistered
  <1>2. Owned => AccessOnlyAllocated
    BY DEF Owned, OwnsOnlySafe, AccessOnlyAllocated, MemoryGetSet, FreeAccepted,
           MemoryToBinary, MemoryToString, MemoryFill, StructFreeAccepted, PointerValid,
           IsRegistered
  <1> QED BY <1>1, <1>2, OwnedStep, HeapTypeCorrect, PTL DEF Spec

-----------------------------------------------------------------------------

LEMMA AccountedStep ==
    ASSUME HeapTyped, Owned, Accounted, [Next]_vars
    PROVE  Accounted'
  <1> USE DEF HeapTyped, Accounted, AllRegistered, IsRegistered
  <1>1. ASSUME NEW a \in Address, NEW t \in Tags, NewBlock(a, t) PROVE Accounted'
    <2>1. registry'[a].kind # "none" /\ \A b \in Address \ {a} : registry'[b] = registry[b]
      BY <1>1, RegisterSafeFacts DEF NewBlock
    <2>2. allocated' = allocated \cup {a} /\ UNCHANGED <<shares, drops>>
      BY <1>1 DEF NewBlock
    <2> QED BY <2>1, <2>2
  <1>2. ASSUME NEW a \in Address, Freed(a) PROVE Accounted'
    <2>1. \A b \in Address \ {a} : registry'[b] = registry[b]
      BY <1>2, UnregisterFacts DEF Freed
    <2>2. allocated' = allocated \ {a} /\ UNCHANGED <<shares, drops>>
      BY <1>2 DEF Freed
    <2> QED BY <2>1, <2>2
  <1>3. ASSUME NEW a \in Address, NEW t \in Tags, EnvShare(a, t) PROVE Accounted'
    BY <1>3 DEF EnvShare
  <1>4. ASSUME NEW a \in Address, NEW t \in Tags, EnvDrop(a, t) PROVE Accounted'
    BY <1>4 DEF EnvDrop
  <1>5. ASSUME NEW a \in Address, NEW t \in Tags, NEW new \in Tags, EnvCast(a, t, new)
        PROVE  Accounted'
    BY <1>5, RetagFacts DEF EnvCast
  <1>6. CASE UNCHANGED vars
    BY <1>6 DEF vars
  <1> QED BY <1>1, <1>2, <1>3, <1>4, <1>5, <1>6, StepKinds

\* Nothing is leaked and nothing freed is left registered, for a script that
\* neither shares nor disposes of heap pointers (CffiMemoryNewCmd,
\* Memory.c:126-141; CffiStructNewCmd, Struct.c:1616-1640).
THEOREM AllocationCorrect == Spec => []AllocatedIsRegistered
  <1>1. Init => Owned /\ Accounted
    BY DEF Init, Owned, OwnsOnlySafe, Accounted, AllRegistered, Unregistered
  <1>2. Owned /\ Accounted => AllocatedIsRegistered
    BY DEF Owned, OwnsOnlySafe, Accounted, AllRegistered, AllocatedIsRegistered,
           IsRegistered
  <1> QED BY <1>1, <1>2, OwnedStep, AccountedStep, HeapTypeCorrect, PTL DEF Spec

-----------------------------------------------------------------------------
(***************************************************************************)
(* Layout.                                                                 *)
(*                                                                         *)
(* FieldsInPlace is not inductive: that the next field leaves no gap needs *)
(* the last field to end where the next one starts, and that the size is a *)
(* multiple of every alignment needs each one to divide the largest.  All  *)
(* alignments are powers of two up to 16, so the facts about rounding are  *)
(* proved one alignment at a time.                                         *)
(***************************************************************************)
\* Rounding up gives the next multiple (the masks in Struct.c:816 and 875).
LEMMA RoundUpFacts ==
    ASSUME NEW n \in Nat, NEW a \in Alignments
    PROVE  /\ RoundUp(n, a) \in Nat
           /\ RoundUp(n, a) % a = 0
           /\ n <= RoundUp(n, a)
           /\ RoundUp(n, a) < n + a
<1>1. CASE a = 1   BY <1>1 DEF RoundUp
<1>2. CASE a = 2   BY <1>2 DEF RoundUp
<1>3. CASE a = 4   BY <1>3 DEF RoundUp
<1>4. CASE a = 8   BY <1>4 DEF RoundUp
<1>5. CASE a = 16  BY <1>5 DEF RoundUp
<1> QED BY <1>1, <1>2, <1>3, <1>4, <1>5 DEF Alignments

\* A multiple of an alignment is one of every smaller alignment.
LEMMA MultiplesNest ==
    ASSUME NEW n \in Nat, NEW a \in Alignments, NEW b \in Alignments,
           b <= a, n % a = 0
    PROVE  n % b = 0
<1>1. CASE a = 1   BY <1>1 DEF Alignments
<1>2. CASE a = 2   BY <1>2 DEF Alignments
<1>3. CASE a = 4   BY <1>3 DEF Alignments
<1>4. CASE a = 8   BY <1>4 DEF Alignments
<1>5. CASE a = 16  BY <1>5 DEF Alignments
<1> QED BY <1>1, <1>2, <1>3, <1>4, <1>5 DEF Alignments

\* Sums of multiples are multiples, and so is what elements of an array take.
LEMMA SumKeeps ==
    ASSUME NEW n \in Nat, NEW m \in Nat, NEW a \in Alignments, n % a = 0, m % a = 0
    PROVE  (n + m) % a = 0
<1>1. CASE a = 1   BY <1>1
<1>2. CASE a = 2   BY <1>2
<1>3. CASE a = 4   BY <1>3
<1>4. CASE a = 8   BY <1>4
<1>5. CASE a = 16  BY <1>5
<1> QED BY <1>1, <1>2, <1>3, <1>4, <1>5 DEF Alignments

LEMMA ProductKeeps ==
    ASSUME NEW e \in Nat, NEW n \in Nat, NEW a \in Alignments, n % a = 0
    PROVE  (e * n) % a = 0
<1> DEFINE q == n \div a
           x == e * q
<1>1. a \in Nat \ {0}
      BY DEF Alignments
<1>2. q \in Nat /\ n = a * q
  <2>1. CASE a = 1   BY <2>1
  <2>2. CASE a = 2   BY <2>2
  <2>3. CASE a = 4   BY <2>3
  <2>4. CASE a = 8   BY <2>4
  <2>5. CASE a = 16  BY <2>5
  <2> QED BY <2>1, <2>2, <2>3, <2>4, <2>5 DEF Alignments
<1> HIDE DEF q
<1>3. x \in Nat /\ e * n = a * x
      BY <1>1, <1>2
<1> HIDE DEF x
<1>4. (a * x) % a = 0
  <2>1. CASE a = 1   BY <2>1, <1>3
  <2>2. CASE a = 2   BY <2>2, <1>3
  <2>3. CASE a = 4   BY <2>3, <1>3
  <2>4. CASE a = 8   BY <2>4, <1>3
  <2>5. CASE a = 16  BY <2>5, <1>3
  <2> QED BY <2>1, <2>2, <2>3, <2>4, <2>5 DEF Alignments
<1> QED BY <1>3, <1>4

\* An element of an array is within it.
LEMMA ElementWithin ==
    ASSUME NEW count \in Nat, NEW e \in 0 .. count - 1, NEW size \in Nat
    PROVE  e * size \in Nat /\ e * size + size <= count * size
<1> DEFINE d == count - e - 1
<1>1. e \in Nat /\ d \in Nat /\ count = e + 1 + d
      OBVIOUS
<1> HIDE DEF d
<1>2. count * size = e * size + size + d * size
      BY <1>1
<1>3. e * size \in Nat /\ d * size \in Nat
      BY <1>1
<1> QED BY <1>2, <1>3

\* Packing takes an alignment or leaves it.
LEMMA LimitedFacts ==
    ASSUME NEW a \in Alignments, NEW pack \in Alignments \cup {0}
    PROVE  /\ Limited(a, pack) \in Alignments
           /\ Limited(a, pack) <= a
           /\ \A b \in Alignments : b <= a => Limited(b, pack) <= Limited(a, pack)
<1>1. Alignments \subseteq Nat
      BY DEF Alignments
<1> QED BY <1>1 DEF Limited

\* What a definition's fields measure.
LEMMA FieldMeasures ==
    ASSUME NEW d, DefinitionShape(d), NEW i \in DOMAIN d.fields
    PROVE  /\ FieldSize(d.fields[i]) \in Nat
           /\ FieldSize(d.fields[i]) > 0 \/ IsVLA(d.fields[i])
           /\ FieldAlign(d.fields[i], d.pack) \in Alignments
<1> DEFINE f == d.fields[i]
<1>1. FieldShape(f) /\ d.pack \in Alignments \cup {0}
      BY DEF DefinitionShape
<1>2. f.base.size \in Nat \ {0} /\ f.base.align \in Alignments
      BY <1>1 DEF FieldShape, BaseShape
<1>3. f.array \in Int /\ f.array >= -1
      BY <1>1 DEF FieldShape, Scalar
<1>4. FieldSize(f) \in Nat /\ (FieldSize(f) > 0 \/ IsVLA(f))
  <2>1. CASE f.array = Scalar  BY <2>1, <1>2 DEF FieldSize
  <2>2. CASE f.array # Scalar
    <3>1. f.array \in Nat  BY <2>2, <1>3 DEF Scalar
    <3>2. f.array * f.base.size \in Nat  BY <3>1, <1>2
    <3>3. f.array * f.base.size > 0 \/ f.array = 0  BY <3>1, <1>2
    <3> QED BY <2>2, <3>2, <3>3 DEF FieldSize, IsVLA, VLA
  <2> QED BY <2>1, <2>2
<1>5. FieldAlign(f, d.pack) \in Alignments
      BY <1>1, <1>2 DEF FieldAlign, Limited
<1> QED BY <1>4, <1>5

Place == [offset : Nat, size : Nat]

\* Types, and what the local variables are when no definition is being placed.
LayoutTypeOK ==
    /\ stage \in {"idle", "placing"}
    /\ places \in Seq(Place)
    /\ end \in Nat
    /\ align \in Alignments
    /\ stage = "idle" => places = <<>> /\ end = 0 /\ align = 1
    /\ stage = "placing" => /\ DefinitionShape(def) /\ FieldsAccepted(def)
                           /\ Len(places) <= Len(def.fields)
    /\ places # <<>> => end > 0

AlignOf(d, i) == FieldAlign(d.fields[i], d.pack)

EndOf(place) == place.offset + place.size

EachInPlace ==
    \A i \in DOMAIN places :
        /\ places[i].offset % AlignOf(def, i) = 0
        /\ EndOf(places[i]) <= end
        /\ AlignOf(def, i) <= align
        /\ def.union => places[i].offset = 0
        /\ places[i].size = FieldSize(def.fields[i])

OneAfterAnother ==
    ~def.union =>
        /\ \A i, j \in DOMAIN places : i < j => EndOf(places[i]) <= places[j].offset
        /\ \A j \in DOMAIN places :
              places[j].offset < (IF j = 1 THEN 0 ELSE EndOf(places[j - 1])) + AlignOf(def, j)
        /\ end = IF places = <<>> THEN 0 ELSE EndOf(places[Len(places)])

LayoutInv ==
    /\ LayoutTypeOK
    /\ stage = "placing" => EachInPlace /\ OneAfterAnother

LEMMA LayoutInitially == LayoutInit => LayoutInv
BY DEF LayoutInit, LayoutInv, LayoutTypeOK, Alignments

LEMMA DefinitionFields ==
    ASSUME NEW d, DefinitionShape(d)
    PROVE  /\ Len(d.fields) \in Nat \ {0}
           /\ DOMAIN d.fields = 1 .. Len(d.fields)
BY DEF DefinitionShape

\* Placing a field keeps the invariant (Struct.c:798-836).
LEMMA PlacingPreserves ==
    ASSUME LayoutInv, PlaceField
    PROVE  LayoutInv'
<1> DEFINE n == Len(places)
           a == FieldAlign(NextField, def.pack)
           size == FieldSize(NextField)
           here == IF def.union THEN 0 ELSE RoundUp(end, a)
           place == [offset |-> here, size |-> size]
<1>1. /\ stage = "placing" /\ stage' = stage /\ def' = def
      /\ DefinitionShape(def) /\ FieldsAccepted(def) /\ n < Len(def.fields)
      /\ places \in Seq(Place) /\ end \in Nat /\ align \in Alignments
      BY DEF LayoutInv, LayoutTypeOK, PlaceField
<1>2. n \in Nat /\ n + 1 \in DOMAIN def.fields /\ DOMAIN places = 1 .. n
      BY <1>1, DefinitionFields
<1>3. /\ size \in Nat /\ a \in Alignments
      /\ n = 0 => size > 0
  <2>1. size \in Nat /\ a \in Alignments /\ (size > 0 \/ IsVLA(NextField))
        BY <1>1, <1>2, FieldMeasures DEF NextField
  <2>2. n = 0 => ~IsVLA(NextField)
        BY <1>1, <1>2 DEF FieldsAccepted, VariableSize, NextField
  <2> QED BY <2>1, <2>2
<1>4. /\ here \in Nat /\ here % a = 0
      /\ ~def.union => end <= here /\ here < end + a
      /\ def.union => here = 0
  <2>1. /\ RoundUp(end, a) \in Nat /\ RoundUp(end, a) % a = 0
        /\ end <= RoundUp(end, a) /\ RoundUp(end, a) < end + a
        BY <1>1, <1>3, RoundUpFacts
  <2>2. 0 % a = 0  BY <1>3 DEF Alignments
  <2> QED BY <2>1, <2>2
<1>5. /\ places' = Append(places, place)
      /\ end' = IF def.union /\ size <= end THEN end ELSE here + size
      /\ align' = IF a > align THEN a ELSE align
      BY DEF PlaceField
<1>6. place \in Place  BY <1>3, <1>4 DEF Place
<1>7. /\ places' \in Seq(Place) /\ Len(places') = n + 1
      /\ DOMAIN places' = 1 .. n + 1
      /\ \A i \in 1 .. n : places'[i] = places[i]
      /\ places'[n + 1] = place
      BY <1>1, <1>2, <1>5, <1>6
<1>8. end' \in Nat /\ align' \in Alignments /\ end <= end' /\ align <= align' /\ a <= align'
  <2>1. end' \in Nat /\ end <= end'
        BY <1>1, <1>3, <1>4, <1>5
  <2>2. align' \in {a, align} /\ (a > align => align' = a) /\ (~(a > align) => align' = align)
        BY <1>5
  <2>3. a \in Int /\ align \in Int /\ a \in Alignments /\ align \in Alignments
        BY <1>1, <1>3 DEF Alignments
  <2> QED BY <2>1, <2>2, <2>3
<1>9. here + size <= end'
      BY <1>1, <1>3, <1>4, <1>5
<1>10. LayoutTypeOK'
  <2>1. Len(places') <= Len(def.fields)  BY <1>1, <1>2, <1>7, DefinitionFields
  <2>2. end' > 0
    <3>1. CASE n = 0  BY <3>1, <1>1, <1>3, <1>4, <1>5
    <3>2. CASE n # 0
      <4>1. end > 0  BY <3>2, <1>1, <1>2 DEF LayoutInv, LayoutTypeOK
      <4> QED BY <4>1, <1>1, <1>8
    <3> QED BY <3>1, <3>2
  <2> QED BY <1>1, <1>7, <1>8, <2>1, <2>2 DEF LayoutTypeOK
<1>11. /\ \A i \in 1 .. n : AlignOf(def', i) = AlignOf(def, i) /\ EndOf(places'[i]) = EndOf(places[i])
       /\ AlignOf(def', n + 1) = a /\ EndOf(places'[n + 1]) = here + size
  <2>1. AlignOf(def', n + 1) = a  BY <1>1 DEF AlignOf, NextField
  <2>2. \A i : AlignOf(def', i) = AlignOf(def, i)  BY <1>1
  <2>3. \A i \in 1 .. n : EndOf(places'[i]) = EndOf(places[i])  BY <1>7 DEF EndOf
  <2>4. EndOf(places'[n + 1]) = here + size  BY <1>7 DEF EndOf
  <2> QED BY <2>1, <2>2, <2>3, <2>4
<1>12. \A i \in 1 .. n : /\ places[i] \in Place /\ EndOf(places[i]) \in Nat
                         /\ AlignOf(def, i) \in Alignments
  <2> TAKE i \in 1 .. n
  <2>1. places[i] \in Place  BY <1>1, <1>2
  <2>2. i \in DOMAIN def.fields  BY <1>1, <1>2, DefinitionFields
  <2>3. AlignOf(def, i) \in Alignments  BY <1>1, <2>2, FieldMeasures DEF AlignOf
  <2> QED BY <2>1, <2>3 DEF Place, EndOf
<1>13. EachInPlace'
  <2> SUFFICES ASSUME NEW i \in 1 .. n + 1
               PROVE  /\ places'[i].offset % AlignOf(def', i) = 0
                      /\ EndOf(places'[i]) <= end'
                      /\ AlignOf(def', i) <= align'
                      /\ def'.union => places'[i].offset = 0
                      /\ places'[i].size = FieldSize(def'.fields[i])
      BY <1>7 DEF EachInPlace
  <2>1. CASE i = n + 1
    <3>1. places'[i].size = FieldSize(def'.fields[i])
          BY <2>1, <1>1, <1>7 DEF NextField
    <3> QED BY <2>1, <3>1, <1>1, <1>4, <1>7, <1>8, <1>9, <1>11
  <2>2. CASE i \in 1 .. n
    <3>1. /\ places[i].offset % AlignOf(def, i) = 0 /\ EndOf(places[i]) <= end
          /\ AlignOf(def, i) <= align /\ (def.union => places[i].offset = 0)
          /\ places[i].size = FieldSize(def.fields[i])
          BY <1>1, <1>2, <2>2 DEF LayoutInv, EachInPlace
    <3>2. AlignOf(def, i) <= align'
      <4>1. AlignOf(def, i) \in Int /\ align \in Int /\ align' \in Int /\ align <= align'
            BY <1>1, <1>8, <1>12, <2>2 DEF Alignments
      <4> QED BY <3>1, <4>1
    <3>3. EndOf(places[i]) <= end'  BY <3>1, <1>1, <1>8, <1>12, <2>2
    <3> QED BY <3>1, <3>2, <3>3, <2>2, <1>1, <1>7, <1>11
  <2> QED BY <2>1, <2>2, <1>2
<1>14. OneAfterAnother'
  <2> SUFFICES ASSUME ~def.union PROVE OneAfterAnother'
      BY <1>1 DEF OneAfterAnother
  <2>1. /\ \A i, j \in 1 .. n : i < j => EndOf(places[i]) <= places[j].offset
        /\ \A j \in 1 .. n : places[j].offset < (IF j = 1 THEN 0 ELSE EndOf(places[j - 1])) + AlignOf(def, j)
        /\ end = IF places = <<>> THEN 0 ELSE EndOf(places[n])
        BY <1>1, <1>2 DEF LayoutInv, OneAfterAnother
  <2>2. \A i, j \in 1 .. n + 1 : i < j => EndOf(places'[i]) <= places'[j].offset
    <3> SUFFICES ASSUME NEW i \in 1 .. n + 1, NEW j \in 1 .. n + 1, i < j
                 PROVE  EndOf(places'[i]) <= places'[j].offset
        OBVIOUS
    <3>1. i \in 1 .. n /\ EndOf(places'[i]) = EndOf(places[i])  BY <1>2, <1>11
    <3>2. CASE j = n + 1
      <4>1. EndOf(places[i]) <= end  BY <3>1, <1>1, <1>2 DEF LayoutInv, EachInPlace
      <4>2. places'[j].offset = here  BY <3>2, <1>7
      <4> QED BY <3>1, <4>1, <4>2, <1>1, <1>4, <1>12
    <3>3. CASE j \in 1 .. n  BY <3>1, <3>3, <2>1, <1>7
    <3> QED BY <3>2, <3>3, <1>2
  <2>3. \A j \in 1 .. n + 1 :
            places'[j].offset < (IF j = 1 THEN 0 ELSE EndOf(places'[j - 1])) + AlignOf(def', j)
    <3> SUFFICES ASSUME NEW j \in 1 .. n + 1
                 PROVE  places'[j].offset < (IF j = 1 THEN 0 ELSE EndOf(places'[j - 1])) + AlignOf(def', j)
        OBVIOUS
    <3>1. CASE j = n + 1
      <4>1. end = IF j = 1 THEN 0 ELSE EndOf(places'[j - 1])
        <5>1. CASE n = 0  BY <5>1, <3>1, <2>1, <1>1
        <5>2. CASE n # 0
          <6>1. n \in 1 .. n /\ places # <<>>  BY <5>2, <1>1, <1>2
          <6> QED BY <6>1, <3>1, <2>1, <1>2, <1>11
        <5> QED BY <5>1, <5>2
      <4>2. places'[j].offset = here /\ AlignOf(def', j) = a  BY <3>1, <1>7, <1>11
      <4> QED BY <4>1, <4>2, <1>4
    <3>2. CASE j \in 1 .. n
      <4>1. j # 1 => j - 1 \in 1 .. n /\ EndOf(places'[j - 1]) = EndOf(places[j - 1])
            BY <3>2, <1>2, <1>11
      <4>2. places'[j].offset = places[j].offset /\ AlignOf(def', j) = AlignOf(def, j)
            BY <3>2, <1>7, <1>11
      <4>3. places[j].offset < (IF j = 1 THEN 0 ELSE EndOf(places[j - 1])) + AlignOf(def, j)
            BY <3>2, <2>1
      <4> QED BY <4>1, <4>2, <4>3
    <3> QED BY <3>1, <3>2, <1>2
  <2>4. end' = here + size /\ places' # <<>>  BY <1>2, <1>5, <1>7
  <2>5. end' = EndOf(places'[n + 1])  BY <2>4, <1>11
  <2> QED BY <2>2, <2>3, <2>4, <2>5, <1>1, <1>7 DEF OneAfterAnother
<1> QED BY <1>1, <1>10, <1>13, <1>14 DEF LayoutInv

LEMMA LayoutStutters ==
    ASSUME LayoutInv, UNCHANGED layoutVars
    PROVE  LayoutInv'
BY DEF layoutVars, LayoutInv, LayoutTypeOK, EachInPlace, OneAfterAnother, AlignOf, EndOf

\* The first pass starts with nothing placed.
LEMMA ParsingStarts ==
    ASSUME LayoutInv, NEW d, DefinitionShape(d), StructParse(d)
    PROVE  LayoutInv'
<1>1. /\ places = <<>> /\ end = 0 /\ align = 1 /\ def' = d /\ stage' = "placing"
      /\ places' = <<>> /\ end' = 0 /\ align' = 1 /\ FieldsAccepted(d)
      BY DEF LayoutInv, LayoutTypeOK, StructParse
<1>2. LayoutTypeOK'
      BY <1>1, DefinitionFields DEF LayoutTypeOK, Alignments
<1> QED BY <1>1, <1>2 DEF LayoutInv, EachInPlace, OneAfterAnother

LEMMA ParsingEnds ==
    ASSUME LayoutInv, ParseEnd
    PROVE  LayoutInv'
BY DEF ParseEnd, LayoutInv, LayoutTypeOK, Alignments

-----------------------------------------------------------------------------
(***************************************************************************)
(* The commands.  A struct that is nested has the size and alignment that  *)
(* its own definition was given, so that what fields are assumed to        *)
(* measure holds because all layouts before were well formed.              *)
(***************************************************************************)
LayoutGood(L) ==
    /\ L.size \in Nat \ {0} /\ L.align \in Alignments /\ L.varsize \in BOOLEAN
    /\ L.union => ~L.varsize
    /\ L.count \in 0 .. Len(L.fields) - 1
    /\ IsVLA(LastField(L)) = (L.count # 0)
    /\ L.count # 0 => L.fields[L.count].base.integer

\* The fields of a layout are aligned within its size, which may be repeated.
LayoutPlaced(L) ==
    /\ DefinitionShape(L)
    /\ \A i \in DOMAIN L.fields :
          /\ L.offsets[i] \in Nat
          /\ L.offsets[i] % FieldAlign(L.fields[i], L.pack) = 0
          /\ L.offsets[i] + FieldSize(L.fields[i]) <= L.size
          /\ FieldAlign(L.fields[i], L.pack) <= L.align
    /\ L.size % L.align = 0

\* Elements that are structs measure what those structs do.
NestsGood(d) ==
    \A i \in DOMAIN d.fields : d.fields[i].base.of \in StructName =>
        LET base == d.fields[i].base IN
        /\ LayoutGood(base.layout) /\ LayoutPlaced(base.layout)
        /\ base.size = base.layout.size /\ base.align = base.layout.align

LayoutsGood ==
    /\ DOMAIN structs = StructName
    /\ \A name \in StructName : structs[name] # None =>
          /\ LayoutGood(structs[name])
          /\ LayoutPlaced(structs[name])
          /\ NestsGood(structs[name])

TableInv ==
    /\ LayoutInv
    /\ LayoutsGood
    /\ stage = "placing" => target \in StructName /\ NestsGood(def)
    /\ stage = "idle" => target = None

\* What a name is resolved to has the shape of an element type.
LEMMA ResolvedShape ==
    ASSUME LayoutsGood, NEW name \in StructName, NEW source \in Sources[name],
           Resolvable(source)
    PROVE  DefinitionShape(Resolve(source)) /\ NestsGood(Resolve(source))
<1> DEFINE FieldOf(i) == [source.fields[i] EXCEPT !.base = Resolved(source.fields[i].base)]
           fields == [i \in DOMAIN source.fields |-> FieldOf(i)]
           d == Resolve(source)
<1>1. SourceShape(source)
      BY TableAssumption
<1>2. /\ d.union = source.union /\ d.pack = source.pack /\ d.fields = fields
      BY <1>1 DEF SourceShape, Resolve
<1>3. Len(source.fields) \in Nat \ {0} /\ DOMAIN source.fields = 1 .. Len(source.fields)
      BY <1>1 DEF SourceShape
<1>4. ASSUME NEW i \in DOMAIN source.fields
      PROVE  FieldShape(FieldOf(i))
  <2> DEFINE f == source.fields[i]
  <2>1. SourceFieldShape(f)
        BY <1>1 DEF SourceShape
  <2>2. /\ FieldOf(i).name = f.name /\ FieldOf(i).array = f.array /\ FieldOf(i).init = f.init
        /\ FieldOf(i).base = Resolved(f.base)
        BY <2>1 DEF SourceFieldShape
  <2>3. BaseShape(Resolved(f.base))
    <3>1. CASE f.base.of \notin StructName
          BY <3>1, <2>1 DEF SourceFieldShape, Resolved
    <3>2. CASE f.base.of \in StructName
      <4>1. LayoutGood(structs[f.base.of])
            BY <3>2 DEF Resolvable, LayoutsGood
      <4> QED BY <3>2, <4>1 DEF Resolved, BaseShape, LayoutGood
    <3> QED BY <3>1, <3>2
  <2> QED BY <2>1, <2>2, <2>3 DEF SourceFieldShape, FieldShape
<1>5. fields \in Seq({fields[i] : i \in DOMAIN fields}) /\ fields # <<>>
  <2> DEFINE n == Len(source.fields)
             F == {fields[i] : i \in DOMAIN fields}
  <2>1. fields \in [1 .. n -> F]
        BY <1>3
  <2>2. n \in Nat \ {0}
        BY <1>3
  <2> HIDE DEF fields, F, n
  <2>3. fields \in Seq(F) /\ Len(fields) = n
        BY <2>1, <2>2
  <2>4. fields # <<>>
        BY <2>2, <2>3
  <2> QED BY <2>3, <2>4 DEF F
<1>6. DOMAIN fields = DOMAIN source.fields
      OBVIOUS
<1>7. DefinitionShape(d)
      BY <1>1, <1>2, <1>4, <1>5, <1>6 DEF DefinitionShape, SourceShape
<1>8. ASSUME NEW i \in DOMAIN source.fields, FieldOf(i).base.of \in StructName
      PROVE  LET base == FieldOf(i).base IN
             /\ LayoutGood(base.layout) /\ LayoutPlaced(base.layout)
             /\ base.size = base.layout.size /\ base.align = base.layout.align
  <2> DEFINE was == source.fields[i].base
  <2>1. FieldOf(i).base = Resolved(was)
        BY <1>1 DEF SourceShape, SourceFieldShape
  <2>2. was.of \in StructName
        BY <1>8, <2>1 DEF Resolved
  <2>3. LayoutGood(structs[was.of]) /\ LayoutPlaced(structs[was.of])
        BY <2>2 DEF Resolvable, LayoutsGood
  <2> HIDE DEF FieldOf, was
  <2>4. /\ FieldOf(i).base.layout = structs[was.of]
        /\ FieldOf(i).base.size = structs[was.of].size
        /\ FieldOf(i).base.align = structs[was.of].align
        BY <2>1, <2>2 DEF Resolved
  <2> QED BY <2>3, <2>4
<1>9. \A i \in DOMAIN d.fields : d.fields[i] = FieldOf(i)
      BY <1>2
<1>10. NestsGood(d)
  <2> HIDE DEF d, FieldOf
  <2> QED BY <1>2, <1>6, <1>8, <1>9 DEF NestsGood
<1> QED BY <1>7, <1>10

\* The names of fields are distinct, so one field at most holds the count.
LEMMA CountFieldFound ==
    ASSUME NEW d, DefinitionShape(d), FieldsAccepted(d), TrailerAccepted(d)
    PROVE  /\ CountIndex(d) \in 0 .. Len(d.fields) - 1
           /\ IsVLA(LastField(d)) = (CountIndex(d) # 0)
           /\ CountIndex(d) # 0 => /\ d.fields[CountIndex(d)].base.integer
                                  /\ d.fields[CountIndex(d)].array = Scalar
<1>1. Len(d.fields) \in Nat \ {0} /\ DOMAIN d.fields = 1 .. Len(d.fields)
      BY DefinitionFields
<1>2. CASE ~IsVLA(LastField(d))
  <2>1. CountIndex(d) = 0
        BY <1>2 DEF CountIndex
  <2>2. IsVLA(LastField(d)) = (CountIndex(d) # 0)
        BY <1>2, <2>1 DEF IsVLA
  <2> QED BY <1>1, <2>1, <2>2
<1>3. CASE IsVLA(LastField(d))
  <2>1. CountFields(d) # {}
        BY <1>3 DEF TrailerAccepted, LastField, VariableSize
  <2>2. PICK k \in CountFields(d) : TRUE
        BY <2>1
  <2>3. /\ k \in 1 .. Len(d.fields) - 1
        /\ d.fields[k].base.integer /\ d.fields[k].array = Scalar
        /\ d.fields[k].name = LastField(d).count
        BY <2>2 DEF CountFields, LastField
  <2>4. ASSUME NEW i \in CountFields(d) PROVE i = k
    <3>1. i \in 1 .. Len(d.fields) - 1 /\ d.fields[i].name = LastField(d).count
          BY <2>4 DEF CountFields, LastField
    <3> QED BY <3>1, <2>3, <1>1 DEF FieldsAccepted
  <2>5. CountFields(d) \cup {0} = {k, 0}
        BY <2>2, <2>4
  <2>6. Max({k, 0}) = k
        BY <2>3, <1>1 DEF Max
  <2>7. CountIndex(d) = k
        BY <1>3, <2>5, <2>6 DEF CountIndex
  <2>8. k # 0 /\ k \in 0 .. Len(d.fields) - 1
        BY <1>1, <2>3
  <2>9. IsVLA(LastField(d)) = (CountIndex(d) # 0)
        BY <1>3, <2>7, <2>8
  <2> QED BY <2>3, <2>7, <2>8, <2>9
<1> QED BY <1>2, <1>3

\* What the second pass ends with is well formed.
LEMMA LayoutIsGood ==
    ASSUME LayoutInv, AllPlaced, TrailerAccepted(def)
    PROVE  LayoutGood(Layout) /\ LayoutPlaced(Layout)
<1>1. /\ DefinitionShape(def) /\ FieldsAccepted(def)
      /\ end \in Nat /\ align \in Alignments /\ places \in Seq(Place)
      /\ Len(places) = Len(def.fields) /\ (places # <<>> => end > 0)
      BY DEF LayoutInv, LayoutTypeOK, AllPlaced
<1>2. Len(def.fields) \in Nat \ {0} /\ DOMAIN def.fields = 1 .. Len(def.fields)
      BY <1>1, DefinitionFields
<1>3. StructSize \in Nat \ {0}
  <2>1. end > 0
        BY <1>1, <1>2
  <2> QED BY <1>1, <2>1, RoundUpFacts DEF StructSize
<1>4. VariableSize(LastField(def)) \in BOOLEAN
      BY DEF VariableSize, IsVLA
<1>5. def.union => ~VariableSize(LastField(def))
      BY <1>1, <1>2 DEF FieldsAccepted, LastField
<1>6. LastField(Layout) = LastField(def)
      BY DEF Layout, LastField
<1>7. /\ Layout.size = StructSize /\ Layout.align = align /\ Layout.union = def.union
      /\ Layout.varsize = VariableSize(LastField(def))
      /\ Layout.count = CountIndex(def) /\ Layout.fields = def.fields
      BY DEF Layout
<1>8. LayoutGood(Layout)
      BY <1>1, <1>3, <1>4, <1>5, <1>6, <1>7, CountFieldFound DEF LayoutGood
<1>9. Layout.pack = def.pack /\ Layout.offsets = [i \in DOMAIN places |-> places[i].offset]
      BY DEF Layout
<1>10. DefinitionShape(Layout)
      BY <1>1, <1>7, <1>9 DEF DefinitionShape
<1>11. StructSize >= end /\ StructSize % align = 0
      BY <1>1, RoundUpFacts DEF StructSize
<1>12. ASSUME NEW i \in DOMAIN Layout.fields
       PROVE  /\ Layout.offsets[i] \in Nat
              /\ Layout.offsets[i] % FieldAlign(Layout.fields[i], Layout.pack) = 0
              /\ Layout.offsets[i] + FieldSize(Layout.fields[i]) <= Layout.size
              /\ FieldAlign(Layout.fields[i], Layout.pack) <= Layout.align
  <2>1. i \in DOMAIN def.fields /\ i \in DOMAIN places /\ places[i] \in Place
        BY <1>1, <1>2, <1>7, <1>12
  <2>2. /\ places[i].offset % AlignOf(def, i) = 0
        /\ EndOf(places[i]) <= end
        /\ AlignOf(def, i) <= align
        /\ places[i].size = FieldSize(def.fields[i])
        BY <2>1 DEF LayoutInv, EachInPlace, AllPlaced
  <2>3. places[i].offset \in Nat /\ places[i].size \in Nat
        BY <2>1 DEF Place
  <2>4. places[i].offset + FieldSize(def.fields[i]) <= StructSize
        BY <1>1, <1>3, <1>11, <2>2, <2>3 DEF EndOf
  <2> QED BY <1>7, <1>9, <2>1, <2>2, <2>3, <2>4 DEF AlignOf
<1>13. LayoutPlaced(Layout)
      BY <1>7, <1>10, <1>11, <1>12 DEF LayoutPlaced
<1> QED BY <1>8, <1>13

LEMMA TableStep == TableInv /\ [TableNext]_tableVars => TableInv'
<1> SUFFICES ASSUME TableInv, [TableNext]_tableVars PROVE TableInv'
    OBVIOUS
<1>1. ASSUME NEW name \in StructName, NEW source \in Sources[name],
             StructCreate(name, source)
      PROVE  TableInv'
  <2>1. DefinitionShape(Resolve(source)) /\ NestsGood(Resolve(source))
        BY <1>1, ResolvedShape DEF TableInv, StructCreate
  <2>2. LayoutInv'
        BY <1>1, <2>1, ParsingStarts DEF TableInv, StructCreate
  <2>3. LayoutsGood'
        BY <1>1 DEF TableInv, StructCreate, LayoutsGood
  <2> QED BY <1>1, <2>1, <2>2, <2>3 DEF TableInv, StructCreate, StructParse
<1>2. CASE PlaceNext
  <2>1. LayoutInv'
        BY <1>2, PlacingPreserves DEF TableInv, PlaceNext
  <2>2. LayoutsGood'
        BY <1>2 DEF TableInv, PlaceNext, LayoutsGood
  <2> QED BY <1>2, <2>1, <2>2 DEF TableInv, PlaceNext, PlaceField
<1>3. CASE StructEnd
  <2>1. LayoutInv'
        BY <1>3, ParsingEnds DEF TableInv, StructEnd
  <2>2. target \in StructName
        BY <1>3 DEF TableInv, StructEnd, ParseEnd, AllPlaced
  <2>3. LayoutsGood'
    <3>1. CASE TrailerAccepted(def)
      <4>1. LayoutGood(Layout) /\ LayoutPlaced(Layout) /\ NestsGood(Layout)
        <5>1. NestsGood(def) /\ Layout.fields = def.fields
              BY <1>3 DEF TableInv, StructEnd, ParseEnd, AllPlaced, Layout
        <5>2. NestsGood(Layout)
              BY <5>1 DEF NestsGood
        <5> QED BY <1>3, <3>1, <5>2, LayoutIsGood DEF TableInv, StructEnd, ParseEnd
      <4>2. structs' = [structs EXCEPT ![target] = Layout]
            BY <1>3, <3>1 DEF StructEnd
      <4> QED BY <2>2, <4>1, <4>2 DEF TableInv, LayoutsGood
    <3>2. CASE ~TrailerAccepted(def)
          BY <1>3, <3>2 DEF TableInv, StructEnd, LayoutsGood
    <3> QED BY <3>1, <3>2
  <2> QED BY <1>3, <2>1, <2>3 DEF TableInv, StructEnd, ParseEnd
<1>4. ASSUME NEW name \in StructName, StructDestroy(name)
      PROVE  TableInv'
  <2>1. LayoutInv'
        BY <1>4, LayoutStutters DEF TableInv, StructDestroy
  <2>2. LayoutsGood'
        BY <1>4 DEF TableInv, StructDestroy, LayoutsGood
  <2> QED BY <1>4, <2>1, <2>2 DEF TableInv, StructDestroy, layoutVars
<1>5. CASE UNCHANGED tableVars
  <2>1. LayoutInv'
        BY <1>5, LayoutStutters DEF TableInv, tableVars, layoutVars
  <2> QED BY <1>5, <2>1 DEF TableInv, tableVars, LayoutsGood
<1> QED BY <1>1, <1>2, <1>3, <1>4, <1>5 DEF TableNext

\* In every state of the table of structs, whatever is defined, redefined and
\* destroyed, nested layouts included.
THEOREM TableInvariant == TableSpec => []TableInv
<1>1. TableInit => TableInv
      BY LayoutInitially DEF TableInit, TableInv, LayoutsGood, LayoutInit
<1> QED BY <1>1, TableStep, PTL DEF TableSpec

\* Every struct command holds a layout that others may nest: it is not empty, and one
\* with an array of variable length has the field that counts it (Struct.c:73).
THEOREM TableTypeCorrect == TableSpec => []TypeOK
<1>1. TableInv => TypeOK
      BY TableAssumption DEF TableInv, LayoutInv, LayoutTypeOK, LayoutsGood, LayoutGood, TypeOK
<1> QED BY <1>1, TableInvariant, PTL

\* Fields are aligned, disjoint and as close as alignment allows, for every
\* definition, packing and nesting (Struct.c:798-836).
THEOREM FieldsAlwaysInPlace == TableSpec => []FieldsInPlace
<1>1. TableInv => FieldsInPlace
      BY DEF TableInv, LayoutInv, FieldsInPlace, EachInPlace, OneAfterAnother, EndOf, AlignOf
<1> QED BY <1>1, TableInvariant, PTL

\* The fields of a nested struct lie within the outer one and keep
\* their alignment in every element, up to packing (Struct.c:808-836, 879).
LEMMA NestedFieldInPlace ==
    ASSUME NEW L, LayoutGood(L), LayoutPlaced(L), NestsGood(L),
           NEW i \in DOMAIN L.fields, L.fields[i].base.of \in StructName,
           NEW count,
           count = IF L.fields[i].array = Scalar THEN 1 ELSE L.fields[i].array,
           NEW e \in 0 .. count - 1,
           NEW k \in DOMAIN L.fields[i].base.layout.fields
    PROVE  LET inner == L.fields[i].base.layout
               at    == L.offsets[i] + e * inner.size + inner.offsets[k]
           IN  /\ at + FieldSize(inner.fields[k]) <= L.size
               /\ at % Limited(FieldAlign(inner.fields[k], inner.pack), L.pack) = 0
<1> DEFINE inner == L.fields[i].base.layout
           start == L.offsets[i]
           size  == inner.size
           off   == inner.offsets[k]
           own   == FieldAlign(inner.fields[k], inner.pack)
           a     == Limited(own, L.pack)
<1>1. /\ DefinitionShape(L) /\ L.size \in Nat
      /\ start \in Nat /\ start % FieldAlign(L.fields[i], L.pack) = 0
      /\ start + FieldSize(L.fields[i]) <= L.size
      BY DEF LayoutGood, LayoutPlaced
<1>2. /\ LayoutGood(inner) /\ LayoutPlaced(inner)
      /\ L.fields[i].base.size = size /\ L.fields[i].base.align = inner.align
      BY DEF NestsGood
<1>3. /\ DefinitionShape(inner) /\ size \in Nat \ {0} /\ inner.align \in Alignments
      /\ off \in Nat /\ off % own = 0 /\ own <= inner.align
      /\ off + FieldSize(inner.fields[k]) <= size /\ size % inner.align = 0
      BY <1>2 DEF LayoutGood, LayoutPlaced
<1>4. own \in Alignments /\ FieldSize(inner.fields[k]) \in Nat
      BY <1>3, FieldMeasures
<1>5. L.pack \in Alignments \cup {0} /\ L.fields[i].array \in Int /\ L.fields[i].array >= -1
      BY <1>1 DEF DefinitionShape, FieldShape, Scalar
<1>6. count \in Nat /\ FieldSize(L.fields[i]) = count * size
  <2>1. CASE L.fields[i].array = Scalar
    <3>1. count = 1 /\ FieldSize(L.fields[i]) = size
          BY <2>1, <1>2 DEF FieldSize
    <3> HIDE DEF size, inner
    <3>2. size \in Nat
          BY <1>3
    <3>3. 1 * size = size
          BY ONLY <3>2
    <3> QED BY <3>1, <3>3
  <2>2. CASE L.fields[i].array # Scalar
    <3>1. count = L.fields[i].array /\ FieldSize(L.fields[i]) = count * size
          BY <2>2, <1>2 DEF FieldSize
    <3> QED BY <2>2, <3>1, <1>5 DEF Scalar
  <2> QED BY <2>1, <2>2
<1>7. /\ e * size \in Nat
      /\ e * size + size <= count * size
      BY <1>3, <1>6, ElementWithin
<1>8. FieldAlign(L.fields[i], L.pack) = Limited(inner.align, L.pack)
      BY <1>2 DEF FieldAlign
<1>9. /\ a \in Alignments /\ a <= own
      /\ Limited(inner.align, L.pack) \in Alignments
      /\ a <= Limited(inner.align, L.pack)
      BY <1>3, <1>4, <1>5, LimitedFacts
<1> HIDE DEF inner, start, size, off, own, a
<1>10. own \in Nat /\ a \in Nat /\ inner.align \in Nat /\ a <= inner.align
  <2>1. Alignments \subseteq Nat
        BY DEF Alignments
  <2>2. own \in Nat /\ a \in Nat /\ inner.align \in Nat
        BY <2>1, <1>3, <1>4, <1>9
  <2>3. a <= own /\ own <= inner.align
        BY <1>3, <1>9
  <2> QED BY ONLY <2>2, <2>3
<1>11. start % a = 0 /\ off % a = 0 /\ size % a = 0
      BY <1>1, <1>3, <1>4, <1>8, <1>9, <1>10, MultiplesNest
<1>12. (e * size) % a = 0
  <2>1. e \in Nat /\ size \in Nat /\ a \in Alignments /\ size % a = 0
        BY <1>3, <1>6, <1>9, <1>11
  <2> QED BY ONLY <2>1, ProductKeeps
<1>13. (start + e * size + off) % a = 0
  <2> DEFINE es == e * size
             se == start + es
  <2>1. es \in Nat /\ es % a = 0
        BY <1>7, <1>12
  <2> HIDE DEF es
  <2>2. se \in Nat /\ se % a = 0
        BY <2>1, <1>1, <1>9, <1>11, SumKeeps
  <2> HIDE DEF se
  <2>3. (se + off) % a = 0
        BY <2>2, <1>3, <1>9, <1>11, SumKeeps
  <2> QED BY <2>3 DEF se, es
<1>14. start + e * size + off + FieldSize(inner.fields[k]) <= L.size
  <2> DEFINE es == e * size
             cs == count * size
  <2>1. es \in Nat /\ cs \in Nat
        BY <1>3, <1>6, <1>7
  <2>2. es + size <= cs /\ start + cs <= L.size
        BY <1>1, <1>6, <1>7
  <2> HIDE DEF es, cs
  <2>3. start + es + off + FieldSize(inner.fields[k]) <= L.size
        BY <2>1, <2>2, <1>1, <1>3, <1>4
  <2> QED BY <2>3 DEF es
<1> QED BY <1>13, <1>14 DEF inner, start, size, off, own, a

\* So structs may be repeated and nested, whatever is defined and in which order.
THEOREM StructsAlwaysCompose == TableSpec => []StructsCompose
<1>1. ASSUME TableInv PROVE StructsCompose
  <2>1. ASSUME NEW name \in StructName, structs[name] # None,
               NEW i \in DOMAIN structs[name].fields
        PROVE  LET L == structs[name] IN
               /\ L.offsets[i] + FieldSize(L.fields[i]) <= L.size
               /\ L.size % FieldAlign(L.fields[i], L.pack) = 0
    <3> DEFINE L == structs[name]
    <3>1. LayoutGood(L) /\ LayoutPlaced(L)
          BY <1>1, <2>1 DEF TableInv, LayoutsGood
    <3> HIDE DEF L
    <3>2. /\ L.size \in Nat /\ L.align \in Alignments /\ L.size % L.align = 0
          /\ FieldAlign(L.fields[i], L.pack) <= L.align
          /\ L.offsets[i] + FieldSize(L.fields[i]) <= L.size
          /\ DefinitionShape(L) /\ i \in DOMAIN L.fields
          BY <2>1, <3>1 DEF LayoutGood, LayoutPlaced, L
    <3>3. FieldAlign(L.fields[i], L.pack) \in Alignments
          BY <3>2, FieldMeasures
    <3>4. L.size % FieldAlign(L.fields[i], L.pack) = 0
          BY <3>2, <3>3, MultiplesNest
    <3> QED BY <3>2, <3>4 DEF L
  <2>2. \A name \in StructName : structs[name] # None =>
            /\ LayoutGood(structs[name]) /\ LayoutPlaced(structs[name])
            /\ NestsGood(structs[name])
        BY <1>1 DEF TableInv, LayoutsGood
  <2> QED BY <2>1, <2>2, NestedFieldInPlace DEF StructsCompose
<1> QED BY <1>1, TableInvariant, PTL

-----------------------------------------------------------------------------
(* Numbers.                                                                *)

\* Of numbers there is a least one.
LEMMA LeastOf ==
    ASSUME NEW S \in SUBSET Nat, S # {}
    PROVE  \E i \in S : \A j \in S : i <= j
<1>1. PICK i \in S : \A j \in S : ~ (<<j, i>> \in OpToRel(<, Nat))
      BY WFMin, NatLessThanWellFounded
<1>2. \A j \in S : ~(j < i)
      BY <1>1 DEF OpToRel
<1> QED BY <1>2

\* Functions that are defined by recursion on the numbers exist.
Steps(V, first, step) == first \in V /\ step \in [Nat -> [V -> V]]

Recurs(f, V, first, step) ==
    /\ f \in [Nat -> V]
    /\ f[0] = first
    /\ \A k \in Nat : f[k + 1] = step[k][f[k]]

LEMMA RecursionExists ==
    ASSUME NEW V, NEW first, NEW step, Steps(V, first, step)
    PROVE  \E f : Recurs(f, V, first, step)
<1> DEFINE Upto(n, g) == /\ g \in [0 .. n -> V] /\ g[0] = first
                         /\ \A k \in 0 .. n - 1 : g[k + 1] = step[k][g[k]]
           Missing == {n \in Nat : ~\E g : Upto(n, g)}
<1> USE DEF Steps
<1>1. \A n \in Nat : \E g : Upto(n, g)
  <2> SUFFICES ASSUME Missing # {} PROVE FALSE
      OBVIOUS
  <2>1. PICK n \in Missing : \A m \in Missing : n <= m
    <3>1. Missing \in SUBSET Nat
          OBVIOUS
    <3> HIDE DEF Missing
    <3> QED BY <3>1, LeastOf
  <2>2. n # 0
    <3>1. [k \in 0 .. 0 |-> first] \in [0 .. 0 -> V] /\ [k \in 0 .. 0 |-> first][0] = first
          OBVIOUS
    <3>2. \A k \in 0 .. 0 - 1 : FALSE
          OBVIOUS
    <3>3. Upto(0, [k \in 0 .. 0 |-> first])
          BY <3>1, <3>2
    <3> QED BY <2>1, <3>3
  <2>3. n - 1 \in Nat /\ n \in Nat
        BY <2>1, <2>2
  <2>4. n - 1 \notin Missing
    <3> HIDE DEF Missing
    <3> QED BY <2>1, <2>3
  <2>5. PICK g : Upto(n - 1, g)
        BY <2>3, <2>4
  <2> DEFINE more == [k \in 0 .. n |-> IF k = n THEN step[n - 1][g[n - 1]] ELSE g[k]]
  <2>6. g[n - 1] \in V
        BY <2>3, <2>5
  <2>7. more \in [0 .. n -> V]
    <3>1. \A k \in 0 .. n : k # n => g[k] \in V
          BY <2>3, <2>5
    <3>2. step[n - 1][g[n - 1]] \in V
          BY <2>3, <2>6
    <3> QED BY <3>1, <3>2
  <2>8. more[0] = first
        BY <2>2, <2>3, <2>5
  <2>9. ASSUME NEW k \in 0 .. n - 1
        PROVE  more[k + 1] = step[k][more[k]]
    <3>1. CASE k = n - 1
          BY <3>1, <2>3
    <3>2. CASE k # n - 1
      <4>1. k \in 0 .. n - 1 - 1 /\ k + 1 # n /\ k # n /\ k \in 0 .. n /\ k + 1 \in 0 .. n
            BY <3>2, <2>3
      <4> QED BY <4>1, <2>5
    <3> QED BY <3>1, <3>2
  <2>10. Upto(n, more)
    <3> HIDE DEF more
    <3> QED BY <2>7, <2>8, <2>9
  <2> HIDE DEF Upto
  <2> QED BY <2>1, <2>10
<1> DEFINE part(n) == CHOOSE g : Upto(n, g)
<1>2. \A n \in Nat : Upto(n, part(n))
  <2> HIDE DEF Upto
  <2> QED BY <1>1
<1>3. ASSUME NEW n \in Nat
      PROVE  part(n + 1)[n] = part(n)[n]
  <2> DEFINE g == part(n)
             h == part(n + 1)
             Differ == {k \in 0 .. n : g[k] # h[k]}
  <2>1. Upto(n, g) /\ Upto(n + 1, h)
    <3> HIDE DEF Upto, part
    <3>1. n + 1 \in Nat
          OBVIOUS
    <3> QED BY <3>1, <1>2
  <2> HIDE DEF part, g, h
  <2> SUFFICES ASSUME Differ # {} PROVE FALSE
      BY DEF g, h
  <2>2. PICK k \in Differ : \A m \in Differ : k <= m
    <3>1. Differ \in SUBSET Nat
          OBVIOUS
    <3> HIDE DEF Differ
    <3> QED BY <3>1, LeastOf
  <2>3. k # 0
        BY <2>1, <2>2
  <2>4. k \in 1 .. n /\ k - 1 \in 0 .. n /\ k - 1 \in 0 .. n - 1 /\ k - 1 \in 0 .. n + 1 - 1
        BY <2>2, <2>3
  <2>5. g[k - 1] = h[k - 1]
    <3>1. k - 1 \notin Differ
      <4> HIDE DEF Differ
      <4> QED BY <2>2, <2>4
    <3> QED BY <3>1, <2>4
  <2>6. g[k - 1 + 1] = step[k - 1][g[k - 1]] /\ h[k - 1 + 1] = step[k - 1][h[k - 1]]
        BY <2>1, <2>4
  <2>7. k - 1 + 1 = k
        BY <2>4
  <2> QED BY <2>2, <2>5, <2>6, <2>7
<1> DEFINE f == [n \in Nat |-> part(n)[n]]
<1>4. f \in [Nat -> V]
  <2>1. \A n \in Nat : part(n)[n] \in V
    <3> HIDE DEF part
    <3> QED BY <1>2
  <2> HIDE DEF part
  <2> QED BY <2>1
<1>5. f[0] = first
  <2> HIDE DEF part
  <2> QED BY <1>2
<1>6. ASSUME NEW k \in Nat
      PROVE  f[k + 1] = step[k][f[k]]
  <2>1. Upto(k + 1, part(k + 1)) /\ part(k + 1)[k] = part(k)[k]
    <3> HIDE DEF Upto, part
    <3>1. k + 1 \in Nat
          OBVIOUS
    <3> QED BY <3>1, <1>2, <1>3
  <2> HIDE DEF part
  <2>2. part(k + 1)[k + 1] = step[k][part(k + 1)[k]]
        BY <2>1
  <2> QED BY <2>1, <2>2
<1>7. Recurs(f, V, first, step)
  <2> HIDE DEF f
  <2> QED BY <1>4, <1>5, <1>6 DEF Recurs
<1> HIDE DEF f
<1> QED BY <1>7

\* The powers of the radix.
LEMMA Powers ==
    /\ Power \in [Nat -> Nat \ {0}]
    /\ Power[0] = 1
    /\ \A k \in Nat : Power[k + 1] = Radix * Power[k]
<1>1. Radix \in Nat \ {0}
      BY StructAssumption
<1> DEFINE V == Nat \ {0}
           step == [k \in Nat |-> [x \in V |-> Radix * x]]
           P(p) == p = [k \in Nat |-> IF k = 0 THEN 1 ELSE Radix * p[k - 1]]
<1>2. \A x \in V : Radix * x \in V
      BY <1>1
<1>3. step \in [Nat -> [V -> V]] /\ 1 \in V
      BY <1>2
<1>4. PICK f : Recurs(f, V, 1, step)
  <2>1. Steps(V, 1, step)
        BY <1>3 DEF Steps
  <2> QED BY ONLY <2>1, RecursionExists
<1>5. f \in [Nat -> V] /\ f[0] = 1 /\ \A k \in Nat : f[k + 1] = Radix * f[k]
      BY <1>4 DEF Recurs
<1>6. P(f)
  <2>1. ASSUME NEW k \in Nat
        PROVE  f[k] = IF k = 0 THEN 1 ELSE Radix * f[k - 1]
    <3>1. CASE k = 0
          BY <3>1, <1>5
    <3>2. CASE k # 0
      <4>1. k - 1 \in Nat /\ k - 1 + 1 = k
            BY <3>2
      <4> QED BY <4>1, <3>2, <1>5
    <3> QED BY <3>1, <3>2
  <2> QED BY <2>1, <1>5
<1>7. P(Power)
  <2>1. Power = CHOOSE p : P(p)
        BY DEF Power
  <2> HIDE DEF P
  <2> QED BY <2>1, <1>6
<1>8. Power[0] = 1 /\ \A k \in Nat : Power[k + 1] = Radix * Power[k]
  <2>1. \A k \in Nat : k + 1 \in Nat /\ k + 1 # 0 /\ k + 1 - 1 = k
        OBVIOUS
  <2> QED BY <1>7, <2>1
<1>9. \A k \in Nat : Power[k] \in V
  <2> DEFINE Bad == {k \in Nat : Power[k] \notin V}
  <2> SUFFICES ASSUME Bad # {} PROVE FALSE
      OBVIOUS
  <2>1. PICK k \in Bad : \A m \in Bad : k <= m
    <3>1. Bad \in SUBSET Nat
          OBVIOUS
    <3> HIDE DEF Bad
    <3> QED BY <3>1, LeastOf
  <2>2. k # 0
        BY <2>1, <1>8
  <2>3. k - 1 \in Nat /\ k - 1 + 1 = k
        BY <2>1, <2>2
  <2>4. Power[k - 1] \in V
    <3>1. k - 1 \notin Bad
      <4> HIDE DEF Bad
      <4> QED BY <2>1, <2>3
    <3> QED BY <3>1, <2>3
  <2>5. Power[k] = Radix * Power[k - 1]
        BY <1>8, <2>3
  <2> HIDE DEF V
  <2>6. Power[k] \in V
        BY <1>2, <2>4, <2>5
  <2> QED BY <2>1, <2>6
<1> QED BY <1>7, <1>8, <1>9

\* Induction, on the set of numbers of which something holds.
LEMMA InductionOn ==
    ASSUME NEW S, 0 \in S, \A k \in Nat : k \in S => k + 1 \in S
    PROVE  \A k \in Nat : k \in S
<1> DEFINE Bad == {k \in Nat : k \notin S}
<1> SUFFICES ASSUME Bad # {} PROVE FALSE
    OBVIOUS
<1>1. PICK k \in Bad : \A m \in Bad : k <= m
  <2>1. Bad \in SUBSET Nat
        OBVIOUS
  <2> HIDE DEF Bad
  <2> QED BY <2>1, LeastOf
<1>2. k # 0
      BY <1>1
<1>3. k - 1 \in Nat /\ k - 1 + 1 = k
      BY <1>1, <1>2
<1>4. k - 1 \notin Bad
  <2> HIDE DEF Bad
  <2> QED BY <1>1, <1>3
<1> QED BY <1>1, <1>3, <1>4

LEMMA RadixFacts == Radix \in Nat /\ Radix >= 2
BY StructAssumption

\* Quotients and remainders.
LEMMA Division ==
    ASSUME NEW n \in Int, NEW s \in Nat \ {0}
    PROVE  /\ n \div s \in Int /\ n % s \in 0 .. s - 1
           /\ n = s * (n \div s) + (n % s)
OBVIOUS

LEMMA DivisionUnique ==
    ASSUME NEW e \in Int, NEW s \in Nat \ {0}, NEW r \in 0 .. s - 1
    PROVE  (e * s + r) \div s = e /\ (e * s + r) % s = r
<1> DEFINE n == e * s + r
           q == n \div s
           m == n % s
           d == e - q
<1>1. n \in Int
      OBVIOUS
<1>2. n = s * q + m /\ m \in 0 .. s - 1 /\ q \in Int
  <2> HIDE DEF n
  <2> QED BY <1>1, Division
<1> HIDE DEF n, q, m
<1>3. d \in Int
      BY <1>2
<1>4. s * d = m - r
      BY <1>2 DEF n
<1>5. m - r < s /\ m - r > -s
      BY <1>2
<1>6. e = d + q
      BY <1>2
<1> HIDE DEF d
<1>7. d <= 0
  <2> SUFFICES ASSUME d >= 1 PROVE FALSE
      BY <1>3
  <2>1. s * d >= s
        BY <1>3
  <2> QED BY <2>1, <1>2, <1>4, <1>5
<1>8. d >= 0
  <2> SUFFICES ASSUME d <= -1 PROVE FALSE
      BY <1>3
  <2>1. s * d <= -s
        BY <1>3
  <2> QED BY <2>1, <1>2, <1>4, <1>5
<1>9. d = 0
      BY <1>3, <1>7, <1>8
<1>10. m = r
      BY <1>2, <1>4, <1>9
<1> QED BY <1>2, <1>6, <1>9, <1>10 DEF n, q, m

\* What an int keeps of a number.
LEMMA ToIntFacts ==
    ASSUME NEW n \in Nat
    PROVE  /\ ToInt(n) \in Int /\ ToInt(n) <= n
           /\ ToInt(n) >= -(IntMax + 1) /\ ToInt(n) <= IntMax
           /\ n <= IntMax => ToInt(n) = n
<1> DEFINE values == 2 * (IntMax + 1)
           low    == n % values
<1>1. IntMax \in Nat /\ values \in Nat \ {0} /\ values = 2 * IntMax + 2
      BY StructAssumption
<1>2. ToInt(n) = IF low > IntMax THEN low - values ELSE low
      BY DEF ToInt
<1> HIDE DEF values
<1>3. low \in 0 .. values - 1
      BY <1>1, Division
<1>4. n < values => low = n
  <2> HAVE n < values
  <2>1. n \in 0 .. values - 1 /\ 0 \in Int /\ 0 * values + n = n
        BY <1>1
  <2>2. (0 * values + n) % values = n
        BY <1>1, <2>1, DivisionUnique
  <2> QED BY <2>1, <2>2
<1> HIDE DEF low
<1> QED BY <1>1, <1>2, <1>3, <1>4

LEMMA SizeOfRoom ==
    ASSUME NEW L, NEW room \in Nat
    PROVE  /\ AsInt(L, room) \in Int /\ AsInt(L, room) <= room /\ AsInt(L, room) # Fails
           /\ (L.varsize => room <= IntMax) => AsInt(L, room) = room
<1>1. IntMax \in Nat /\ room # Fails
      BY StructAssumption DEF Fails
<1>2. CASE L.varsize
  <2>1. AsInt(L, room) = ToInt(room)
        BY <1>1, <1>2 DEF AsInt
  <2>2. ToInt(room) # Fails
        BY <1>1, ToIntFacts DEF Fails
  <2> QED BY <1>2, <2>1, <2>2, ToIntFacts
<1>3. CASE ~L.varsize
  <2>1. AsInt(L, room) = room
        BY <1>3 DEF AsInt
  <2> QED BY <1>1, <2>1
<1> QED BY <1>2, <1>3

\* What is left of a number when its digits are taken one after the other.
Rests(rest, n) ==
    /\ rest \in [Nat -> Int] /\ rest[0] = n
    /\ \A k \in Nat : rest[k + 1] = rest[k] \div Radix

LEMMA DigitsOfRests ==
    ASSUME NEW n \in Int, NEW size \in Nat
    PROVE  \E rest : /\ Rests(rest, n)
                     /\ Digits(n, size) = [k \in 0 .. size - 1 |-> rest[k] % Radix]
<1> DEFINE step == [k \in Nat |-> [x \in Int |-> x \div Radix]]
           P(p) == p = [k \in Nat |-> IF k = 0 THEN n ELSE p[k - 1] \div Radix]
           rest == CHOOSE p : P(p)
<1>1. Steps(Int, n, step)
      BY RadixFacts DEF Steps
<1>2. PICK f : Recurs(f, Int, n, step)
      BY ONLY <1>1, RecursionExists
<1>3. f \in [Nat -> Int] /\ f[0] = n /\ \A k \in Nat : f[k + 1] = f[k] \div Radix
      BY <1>2 DEF Recurs
<1>4. P(f)
  <2>1. ASSUME NEW k \in Nat
        PROVE  f[k] = IF k = 0 THEN n ELSE f[k - 1] \div Radix
    <3>1. CASE k = 0
          BY <3>1, <1>3
    <3>2. CASE k # 0
      <4>1. k - 1 \in Nat /\ k - 1 + 1 = k
            BY <3>2
      <4> QED BY <4>1, <3>2, <1>3
    <3> QED BY <3>1, <3>2
  <2> QED BY <2>1, <1>3
<1>5. P(rest)
  <2> HIDE DEF P
  <2> QED BY <1>4
<1>6. Digits(n, size) = [k \in 0 .. size - 1 |-> rest[k] % Radix]
      BY DEF Digits
<1> HIDE DEF rest
<1>7. rest[0] = n /\ \A k \in Nat : rest[k + 1] = rest[k] \div Radix
  <2>1. \A k \in Nat : k + 1 \in Nat /\ k + 1 # 0 /\ k + 1 - 1 = k
        OBVIOUS
  <2> QED BY <1>5, <2>1
<1>8. \A k \in Nat : rest[k] \in Int
  <2> DEFINE S == {k \in Nat : rest[k] \in Int}
  <2>1. 0 \in S
        BY <1>7
  <2>2. \A k \in Nat : k \in S => k + 1 \in S
        BY <1>7, RadixFacts
  <2>3. \A k \in Nat : k \in S
    <3> HIDE DEF S
    <3> QED BY <2>1, <2>2, InductionOn
  <2> QED BY <2>3
<1>9. Rests(rest, n)
      BY <1>5, <1>7, <1>8 DEF Rests
<1> QED BY <1>6, <1>9

\* What is read from bytes that are written.
Values(value, size, bytes, at) ==
    /\ value[0] = 0
    /\ \A k \in 0 .. size - 1 :
          value[k + 1] = value[k] * Radix + bytes[at + size - (k + 1)]

LEMMA NumberOfValues ==
    ASSUME NEW base, base.size \in Nat, NEW bytes, NEW at \in Int,
           \A k \in 0 .. base.size - 1 : at + k \in DOMAIN bytes /\ bytes[at + k] \in Int
    PROVE  \E value : /\ Values(value, base.size, bytes, at)
                      /\ Number(base, bytes, at) = Signed(base, value[base.size])
<1> DEFINE size == base.size
           Part(k) == bytes[at + size - k]
           step == [k \in Nat |-> [x \in Int |->
                       x * Radix + (IF k < size THEN Part(k + 1) ELSE 0)]]
           P(p) == p = [k \in 0 .. size |-> IF k = 0 THEN 0
                                            ELSE p[k - 1] * Radix + bytes[at + size - k]]
           value == CHOOSE p : P(p)
<1>1. ASSUME NEW k \in 1 .. size
      PROVE  Part(k) \in Int
  <2>1. size - k \in 0 .. size - 1 /\ at + (size - k) = at + size - k
        OBVIOUS
  <2> QED BY <2>1
<1>2. Steps(Int, 0, step)
  <2>1. ASSUME NEW k \in Nat, NEW x \in Int
        PROVE  x * Radix + (IF k < size THEN Part(k + 1) ELSE 0) \in Int
    <3>1. k < size => Part(k + 1) \in Int
      <4>1. k < size => k + 1 \in 1 .. size
            OBVIOUS
      <4> HIDE DEF Part
      <4> QED BY <4>1, <1>1
    <3> HIDE DEF Part
    <3>2. x * Radix \in Int
          BY RadixFacts
    <3> QED BY <3>1, <3>2
  <2> HIDE DEF Part
  <2> QED BY <2>1 DEF Steps
<1>3. PICK f : Recurs(f, Int, 0, step)
      BY ONLY <1>2, RecursionExists
<1>4. /\ f \in [Nat -> Int] /\ f[0] = 0
      /\ \A k \in 0 .. size - 1 : f[k + 1] = f[k] * Radix + Part(k + 1)
  <2>1. f \in [Nat -> Int] /\ f[0] = 0 /\ \A k \in Nat : f[k + 1] = step[k][f[k]]
    <3> HIDE DEF step
    <3> QED BY <1>3 DEF Recurs
  <2>2. ASSUME NEW k \in 0 .. size - 1
        PROVE  f[k + 1] = f[k] * Radix + Part(k + 1)
    <3> HIDE DEF Part
    <3>1. k \in Nat /\ k < size /\ f[k] \in Int
          BY <2>1
    <3>2. f[k + 1] = step[k][f[k]]
          BY <2>1, <3>1
    <3> QED BY <3>1, <3>2
  <2> HIDE DEF Part, step
  <2> QED BY <2>1, <2>2
<1> DEFINE g == [k \in 0 .. size |-> f[k]]
<1>5. P(g)
  <2>1. ASSUME NEW k \in 0 .. size
        PROVE  g[k] = IF k = 0 THEN 0 ELSE g[k - 1] * Radix + bytes[at + size - k]
    <3>1. CASE k = 0
          BY <3>1, <1>4
    <3>2. CASE k # 0
      <4>1. k - 1 \in 0 .. size - 1 /\ k - 1 + 1 = k
            BY <3>2
      <4>2. f[k] = f[k - 1] * Radix + Part(k)
        <5> HIDE DEF Part
        <5> QED BY <4>1, <1>4
      <4>3. g[k] = f[k] /\ g[k - 1] = f[k - 1]
            BY <4>1
      <4> HIDE DEF g
      <4> QED BY <4>2, <4>3, <3>2
    <3> QED BY <3>1, <3>2
  <2>2. g = [k \in 0 .. size |-> g[k]]
        OBVIOUS
  <2> HIDE DEF g
  <2> QED BY <2>1, <2>2
<1>6. P(value)
  <2> HIDE DEF P, g
  <2> QED BY <1>5
<1>7. Number(base, bytes, at) = Signed(base, value[size])
  <2>1. ~ \E k \in at .. at + size - 1 : k \notin DOMAIN bytes \/ bytes[k] \in {Junk, Fence}
    <3> SUFFICES ASSUME NEW k \in at .. at + size - 1
                 PROVE  k \in DOMAIN bytes /\ bytes[k] \notin {Junk, Fence}
        OBVIOUS
    <3>1. k - at \in 0 .. size - 1 /\ at + (k - at) = k
          OBVIOUS
    <3>2. k \in DOMAIN bytes /\ bytes[k] \in Int
          BY <3>1
    <3> QED BY <3>2, StructAssumption
  <2> QED BY <2>1 DEF Number
<1> HIDE DEF value
<1>8. Values(value, size, bytes, at)
  <2>1. \A k \in 0 .. size - 1 : k + 1 \in 0 .. size /\ k + 1 # 0 /\ k + 1 - 1 = k
        OBVIOUS
  <2> QED BY <1>6, <2>1 DEF Values
<1> QED BY <1>7, <1>8

\* The bytes from an offset on are those of an image.
Holds(bytes, at, image) ==
    \A k \in DOMAIN image : at + k \in DOMAIN bytes /\ bytes[at + k] = image[k]

LEMMA DigitsAreBytes ==
    ASSUME NEW n \in Int, NEW size \in Nat
    PROVE  /\ DOMAIN Digits(n, size) = 0 .. size - 1
           /\ \A k \in 0 .. size - 1 : Digits(n, size)[k] \in Byte
<1>1. PICK rest : /\ Rests(rest, n)
                  /\ Digits(n, size) = [k \in 0 .. size - 1 |-> rest[k] % Radix]
      BY DigitsOfRests
<1>2. \A k \in Nat : rest[k] % Radix \in Byte
  <2>1. \A k \in Nat : rest[k] \in Int
        BY <1>1 DEF Rests
  <2> QED BY <2>1, RadixFacts DEF Byte
<1> QED BY <1>1, <1>2

\* A number that is read has the value of its digits up to a power of the radix.
LEMMA NumberOfDigits ==
    ASSUME NEW base, base.size \in Nat, NEW n \in Int, NEW bytes, NEW at \in Int,
           Holds(bytes, at, Digits(n, base.size))
    PROVE  Number(base, bytes, at) = Signed(base, n % Power[base.size])
<1> DEFINE size == base.size
<1>1. PICK rest : /\ Rests(rest, n)
                  /\ Digits(n, size) = [k \in 0 .. size - 1 |-> rest[k] % Radix]
      BY DigitsOfRests
<1>2. \A k \in 0 .. size - 1 : at + k \in DOMAIN bytes /\ bytes[at + k] = rest[k] % Radix
      BY <1>1 DEF Holds
<1>3. /\ rest \in [Nat -> Int] /\ rest[0] = n
      /\ \A k \in Nat : rest[k + 1] = rest[k] \div Radix
      BY <1>1 DEF Rests
<1>4. \A k \in Nat : rest[k] % Radix \in 0 .. Radix - 1
      BY <1>3, RadixFacts
<1>5. PICK value : /\ Values(value, size, bytes, at)
                   /\ Number(base, bytes, at) = Signed(base, value[size])
  <2>1. \A k \in 0 .. size - 1 : at + k \in DOMAIN bytes /\ bytes[at + k] \in Int
        BY <1>2, <1>4
  <2> QED BY <2>1, NumberOfValues
<1> DEFINE q == rest[size]
           S == {k \in Nat : k <= size =>
                    /\ value[k] \in 0 .. Power[k] - 1
                    /\ value[k] = rest[size - k] - Power[k] * q}
<1>6. q \in Int
      BY <1>3
<1>7. 0 \in S
  <2>1. value[0] = 0 /\ Power[0] = 1
        BY <1>5, Powers DEF Values
  <2>2. rest[size - 0] = q
        OBVIOUS
  <2> HIDE DEF q
  <2> QED BY <2>1, <2>2, <1>6
<1>8. ASSUME NEW k \in Nat, k \in S, k + 1 <= size
      PROVE  k + 1 \in S
  <2> DEFINE x == value[k]
             p == Power[k]
             i == size - (k + 1)
             d == rest[i] % Radix
             r == rest[i]
             s == rest[i + 1]
  <2>1. /\ k \in 0 .. size - 1 /\ i \in 0 .. size - 1 /\ i \in Nat /\ i + 1 = size - k
        /\ at + size - (k + 1) = at + i /\ k <= size
        BY <1>8
  <2>2. x \in 0 .. p - 1 /\ x = s - p * q
        BY <1>8, <2>1
  <2>3. p \in Nat \ {0} /\ Power[k + 1] = Radix * p
        BY Powers
  <2>4. r \in Int /\ s \in Int /\ d \in 0 .. Radix - 1 /\ s = r \div Radix
        BY <2>1, <1>3, <1>4
  <2>5. r = Radix * s + d
    <3>1. Radix \in Nat \ {0}
          BY RadixFacts
    <3> HIDE DEF r
    <3>2. r = Radix * (r \div Radix) + (r % Radix)
          BY ONLY <3>1, <2>4, Division
    <3> QED BY <3>2, <2>4 DEF r
  <2>6. value[k + 1] = x * Radix + d
    <3>1. value[k + 1] = value[k] * Radix + bytes[at + size - (k + 1)]
          BY <2>1, <1>5 DEF Values
    <3>2. bytes[at + i] = d
          BY <2>1, <1>2
    <3> QED BY <3>1, <3>2, <2>1
  <2> HIDE DEF x, p, i, d, r, s, q
  <2>7. x * Radix + d \in 0 .. Radix * p - 1
    <3> DEFINE y == p - 1 - x
    <3>1. y \in Nat /\ p = y + 1 + x /\ x \in Nat
          BY <2>2, <2>3
    <3> HIDE DEF y
    <3>2. Radix * p = Radix * y + Radix + x * Radix /\ Radix * y \in Nat /\ x * Radix \in Nat
          BY <3>1, RadixFacts
    <3> QED BY <3>2, <2>4, RadixFacts
  <2>8. x * Radix + d = r - (Radix * p) * q
    <3> DEFINE pq == p * q
    <3>1. pq \in Int /\ (Radix * p) * q = Radix * pq
          BY <2>3, <1>6, RadixFacts
    <3>2. x = s - pq
          BY <2>2
    <3> HIDE DEF pq
    <3>3. x * Radix = Radix * s - Radix * pq
          BY <3>1, <3>2, <2>4, RadixFacts
    <3>4. Radix * s \in Int /\ Radix * pq \in Int /\ d \in Int
          BY <3>1, <2>4, RadixFacts
    <3> QED BY <3>1, <3>3, <3>4, <2>5
  <2>9. /\ value[k + 1] \in 0 .. Power[k + 1] - 1
        /\ value[k + 1] = rest[size - (k + 1)] - Power[k + 1] * q
        BY <2>3, <2>6, <2>7, <2>8 DEF r, i
  <2> QED BY <2>9
<1>9. \A k \in Nat : k \in S
  <2>1. \A k \in Nat : ~(k + 1 <= size) => k + 1 \in S
        OBVIOUS
  <2>2. \A k \in Nat : k \in S => k + 1 \in S
    <3> HIDE DEF S
    <3> QED BY <1>8, <2>1
  <2> HIDE DEF S
  <2> QED BY <1>7, <2>2, InductionOn
<1>10. value[size] \in 0 .. Power[size] - 1 /\ value[size] = n - Power[size] * q
  <2>1. size \in S /\ size <= size /\ size - size = 0
        BY <1>9
  <2> HIDE DEF q
  <2> QED BY <2>1, <1>3
<1>11. value[size] = n % Power[size]
  <2> DEFINE p == Power[size]
             x == value[size]
  <2>1. p \in Nat \ {0}
        BY Powers
  <2>2. x \in 0 .. p - 1 /\ x = n - p * q
        BY <1>10
  <2> HIDE DEF p, x, q
  <2>3. n = q * p + x
        BY <2>1, <2>2, <1>6
  <2>4. (q * p + x) % p = x
        BY <2>1, <2>2, <1>6, DivisionUnique
  <2> QED BY <2>3, <2>4 DEF p, x
<1> QED BY <1>5, <1>11

\* The radix is even, and so are its powers.
LEMMA PowerHalves ==
    ASSUME NEW size \in Nat \ {0}
    PROVE  /\ Power[size] \div 2 \in Nat \ {0}
           /\ Power[size] = 2 * (Power[size] \div 2)
<1> DEFINE r == Radix \div 2
           p == Power[size - 1]
<1>1. r \in Nat /\ Radix = 2 * r /\ r >= 1
      BY StructAssumption
<1>2. p \in Nat \ {0} /\ Power[size] = Radix * p
  <2>1. size - 1 \in Nat /\ size - 1 + 1 = size
        OBVIOUS
  <2> QED BY <2>1, Powers
<1> DEFINE h == r * p
<1> HIDE DEF r, p
<1>3. h \in Nat \ {0}
      BY <1>1, <1>2
<1>4. Power[size] = 2 * h
      BY <1>1, <1>2
<1> HIDE DEF h
<1>5. Power[size] \div 2 = h
      BY <1>3, <1>4
<1> QED BY <1>3, <1>4, <1>5

\* A number that is in range is what its digits stand for.
LEMMA SignedInRange ==
    ASSUME NEW base, base.size \in Nat \ {0}, base.signed \in BOOLEAN,
           NEW n \in Int, InRange(base, n)
    PROVE  Signed(base, n % Power[base.size]) = n
<1> DEFINE p == Power[base.size]
           h == p \div 2
<1>1. p \in Nat \ {0} /\ h \in Nat \ {0} /\ p = 2 * h
      BY PowerHalves, Powers
<1>2. IF base.signed THEN n >= -h /\ n < h ELSE n >= 0 /\ n < p
      BY DEF InRange
<1>3. Signed(base, n % Power[base.size]) = IF base.signed /\ n % p >= h THEN (n % p) - p ELSE n % p
      BY DEF Signed
<1> HIDE DEF p, h
<1>4. CASE n >= 0
  <2>1. n < p
        BY <1>1, <1>2
  <2>2. (0 * p + n) % p = n
        BY <1>1, <1>4, <2>1, DivisionUnique
  <2>3. n % p = n
        BY <1>1, <2>2
  <2> QED BY <1>1, <1>2, <1>3, <1>4, <2>3
<1>5. CASE n < 0
  <2>1. n + p \in 0 .. p - 1 /\ n + p >= h
        BY <1>1, <1>2, <1>5
  <2> DEFINE e == -1
             r == n + p
  <2>2. e \in Int /\ e = -1 /\ r \in 0 .. p - 1 /\ r = n + p
        BY <2>1
  <2> HIDE DEF e, r
  <2>3. (e * p + r) % p = r
        BY <1>1, <2>2, DivisionUnique
  <2>4. e * p + r = n
        BY <1>1, <2>2
  <2>5. n % p = n + p
        BY <2>2, <2>3, <2>4
  <2> QED BY <1>1, <1>2, <1>3, <1>5, <2>1, <2>5
<1> QED BY <1>4, <1>5

\* The digits of zero are zero.
LEMMA ZeroDigits ==
    ASSUME NEW size \in Nat
    PROVE  Digits(0, size) = [k \in 0 .. size - 1 |-> 0]
<1>1. PICK rest : /\ Rests(rest, 0)
                  /\ Digits(0, size) = [k \in 0 .. size - 1 |-> rest[k] % Radix]
      BY DigitsOfRests
<1> DEFINE S == {k \in Nat : rest[k] = 0}
<1>2. 0 \div Radix = 0 /\ 0 % Radix = 0
      BY RadixFacts
<1>3. 0 \in S
      BY <1>1 DEF Rests
<1>4. \A k \in Nat : k \in S => k + 1 \in S
      BY <1>1, <1>2 DEF Rests
<1>5. \A k \in Nat : k \in S
  <2> HIDE DEF S
  <2> QED BY <1>3, <1>4, InductionOn
<1>6. \A k \in 0 .. size - 1 : rest[k] % Radix = 0
      BY <1>2, <1>5
<1> QED BY <1>1, <1>6

LEMMA ZeroInRange ==
    ASSUME NEW base, base.size \in Nat \ {0}, base.signed \in BOOLEAN
    PROVE  InRange(base, 0)
<1>1. /\ Power[base.size] \in Nat \ {0} /\ Power[base.size] \div 2 \in Nat \ {0}
      BY PowerHalves, Powers
<1> QED BY <1>1 DEF InRange

-----------------------------------------------------------------------------
(***************************************************************************)
(* Conversions.  What the conversions of a struct promise, Faithful, is    *)
(* what those of the structs that nest it rely on.                         *)
(***************************************************************************)

\* What is called for a nested struct is what is called for a struct.
Alike(L) ==
    /\ \A n : NestedRoomForVLACount(L, n) = RoomForVLACount(L, n)
    /\ \A v : /\ NestedRoomForObj(L, v) = RoomForObj(L, v)
              /\ NestedAccepts(L, v) <=> Accepts(L, v)
              /\ NestedImage(L, v) = Image(L, v)
              /\ NestedNormal(L, v) = Normal(L, v)
    /\ \A bytes, at : /\ NestedRoomForNative(L, bytes, at) = RoomForNative(L, bytes, at)
                      /\ NestedToObj(L, bytes, at) = ToObj(L, bytes, at)
    /\ NestedZeroStruct(L) = ZeroStruct(L)

Zeroed(bytes, at, n) ==
    \A k \in 0 .. n - 1 : at + k \in DOMAIN bytes /\ bytes[at + k] = 0

Within(image, n, values) == \A k \in DOMAIN image : k \in 0 .. n - 1 /\ image[k] \in values

SizeOK(size, least, varsize) ==
    size \in Nat /\ size >= least /\ (~varsize => size = least)

ReadsImage(L, v) ==
    \A bytes : \A at \in Nat : Holds(bytes, at, Image(L, v)) =>
        /\ FitsInt(L, v) => ToObj(L, bytes, at) = Normal(L, v)
        /\ RoomForNative(L, bytes, at) = RoomForObj(L, v)

ReadsZeros(L) ==
    \A bytes : \A at \in Nat : Zeroed(bytes, at, L.size) => ToObj(L, bytes, at) = ZeroStruct(L)

Faithful(L) ==
    /\ \A v : Accepts(L, v) => /\ SizeOK(RoomForObj(L, v), L.size, L.varsize)
                               /\ Within(Image(L, v), RoomForObj(L, v), Byte)
                               /\ ReadsImage(L, v)
    /\ ~L.varsize => ReadsZeros(L)
    /\ \A n \in Nat : SizeOK(RoomForVLACount(L, n), L.size, L.varsize)

NumberBase(base) == base.of = "num" /\ base.signed \in BOOLEAN /\ ~base.varsize

StructBase(base) ==
    /\ base.of # "num"
    /\ base.size = base.layout.size /\ base.varsize = base.layout.varsize
    /\ Alike(base.layout) /\ Faithful(base.layout)

BaseFaithful(base) ==
    /\ base.size \in Nat \ {0}
    /\ NumberBase(base) \/ StructBase(base)

ElemSize(base, x) == IF base.of = "num" THEN base.size ELSE NestedRoomForObj(base.layout, x)

LEMMA ElemMeasures ==
    ASSUME NEW base, BaseFaithful(base), NEW x, ElemAccepts(base, x)
    PROVE  SizeOK(ElemSize(base, x), base.size, base.varsize)
<1>1. base.size \in Nat
      BY DEF BaseFaithful
<1>2. CASE NumberBase(base)
      BY <1>1, <1>2 DEF NumberBase, ElemSize, SizeOK
<1>3. CASE StructBase(base)
  <2>1. Accepts(base.layout, x) /\ ElemSize(base, x) = RoomForObj(base.layout, x)
        BY <1>3 DEF Alike, StructBase, ElemAccepts, ElemSize
  <2> QED BY <1>3, <2>1 DEF StructBase, Faithful
<1> QED BY <1>2, <1>3 DEF BaseFaithful

LEMMA ElemWritten ==
    ASSUME NEW base, BaseFaithful(base), NEW x, ElemAccepts(base, x), NEW temp
    PROVE  /\ Within(ElemImage(base, x, temp), ElemSize(base, x), Byte \cup {Junk})
           /\ ~temp => Within(ElemImage(base, x, temp), ElemSize(base, x), Byte)
<1>1. base.size \in Nat
      BY DEF BaseFaithful
<1>2. CASE NumberBase(base)
  <2>1. /\ ElemImage(base, x, temp) = Digits(x.num, base.size)
        /\ ElemSize(base, x) = base.size /\ x.num \in Int
        BY <1>2 DEF NumberBase, ElemImage, ElemSize, ElemAccepts, IsNum
  <2> QED BY <1>1, <2>1, DigitsAreBytes DEF Within
<1>3. CASE StructBase(base)
  <2> DEFINE L == base.layout
  <2>1. /\ Accepts(L, x) /\ ElemSize(base, x) = RoomForObj(L, x)
        /\ ElemImage(base, x, temp) = IF temp
                                      THEN Over(Image(L, x), Fill(base.size, Junk))
                                      ELSE Image(L, x)
        BY <1>3 DEF Alike, StructBase, ElemAccepts, ElemSize, ElemImage
  <2>2. Within(Image(L, x), RoomForObj(L, x), Byte)
        BY <1>3, <2>1 DEF StructBase, Faithful
  <2>5. RoomForObj(L, x) \in Nat /\ base.size <= RoomForObj(L, x)
        BY <2>1, ElemMeasures DEF SizeOK
  <2> HIDE DEF L
  <2>3. CASE temp
    <3>1. Within(Over(Image(L, x), Fill(base.size, Junk)), RoomForObj(L, x), Byte \cup {Junk})
          BY <1>1, <2>2, <2>5 DEF Within, Over, Fill
    <3> QED BY <2>1, <2>3, <3>1
  <2>4. CASE ~temp
        BY <2>1, <2>2, <2>4 DEF Within
  <2> QED BY <2>3, <2>4
<1> QED BY <1>2, <1>3 DEF BaseFaithful

LEMMA HoldsOver ==
    ASSUME NEW image, NEW old, NEW bytes, NEW at, Holds(bytes, at, Over(image, old))
    PROVE  Holds(bytes, at, image)
BY DEF Holds, Over

\* A value whose size fits an int, if it is one to be computed.
ElemFits(base, x) == base.varsize => ElemSize(base, x) <= IntMax

LEMMA ElemReads ==
    ASSUME NEW base, BaseFaithful(base), NEW x, ElemAccepts(base, x), ElemFits(base, x),
           NEW temp,
           NEW bytes, NEW at \in Nat, Holds(bytes, at, ElemImage(base, x, temp))
    PROVE  ElemToObj(base, bytes, at) = NormalElem(base, x)
<1>1. CASE NumberBase(base)
  <2>1. /\ ElemImage(base, x, temp) = Digits(x.num, base.size)
        /\ x \in [num : Int] /\ x.num \in Int /\ InRange(base, x.num)
        BY <1>1 DEF NumberBase, ElemImage, ElemAccepts, IsNum
  <2>2. base.size \in Nat \ {0} /\ base.signed \in BOOLEAN
        BY <1>1 DEF BaseFaithful, NumberBase
  <2>3. Number(base, bytes, at) = x.num
        BY <2>1, <2>2, NumberOfDigits, SignedInRange
  <2>4. Num(x.num) = x
        BY <2>1 DEF Num
  <2> QED BY <1>1, <2>3, <2>4 DEF NumberBase, ElemToObj, NormalElem
<1>2. CASE StructBase(base)
  <2> DEFINE L == base.layout
  <2>1. Accepts(L, x) /\ Holds(bytes, at, Image(L, x))
    <3>1. Accepts(L, x)
          BY <1>2 DEF Alike, StructBase, ElemAccepts
    <3>2. ElemImage(base, x, temp) = IF temp
                                     THEN Over(Image(L, x), Fill(base.size, Junk))
                                     ELSE Image(L, x)
          BY <1>2 DEF Alike, StructBase, ElemImage
    <3> QED BY <3>1, <3>2, HoldsOver
  <2>3. FitsInt(L, x)
        BY <1>2 DEF StructBase, Alike, ElemFits, ElemSize, FitsInt
  <2>2. ToObj(L, bytes, at) = Normal(L, x)
        BY <1>2, <2>1, <2>3 DEF StructBase, Faithful, ReadsImage
  <2> QED BY <1>2, <2>2 DEF Alike, StructBase, ElemToObj, NormalElem
<1> QED BY <1>1, <1>2 DEF BaseFaithful

LEMMA ElemReadsZeros ==
    ASSUME NEW base, BaseFaithful(base), ~base.varsize,
           NEW bytes, NEW at \in Nat, Zeroed(bytes, at, base.size)
    PROVE  ElemToObj(base, bytes, at) = ZeroElem(base)
<1>1. CASE NumberBase(base)
  <2>1. base.size \in Nat \ {0} /\ base.signed \in BOOLEAN
        BY <1>1 DEF BaseFaithful, NumberBase
  <2>2. Holds(bytes, at, Digits(0, base.size))
        BY <2>1, ZeroDigits DEF Holds, Zeroed
  <2>3. InRange(base, 0)
        BY <2>1, ZeroInRange
  <2>4. Number(base, bytes, at) = 0
        BY <2>1, <2>2, <2>3, NumberOfDigits, SignedInRange
  <2> QED BY <1>1, <2>4 DEF NumberBase, ElemToObj, ZeroElem
<1>2. CASE StructBase(base)
  <2>1. ToObj(base.layout, bytes, at) = ZeroStruct(base.layout)
        BY <1>2 DEF StructBase, Faithful, ReadsZeros
  <2> QED BY <1>2, <2>1 DEF Alike, StructBase, ElemToObj, ZeroElem
<1> QED BY <1>1, <1>2 DEF BaseFaithful

\* Elements lie one after the other.
LEMMA TiledFacts ==
    ASSUME NEW size \in Nat \ {0}, NEW m \in Nat, NEW images, DOMAIN images = 1 .. m,
           NEW V, \A j \in 1 .. m : Within(images[j], size, V)
    PROVE  /\ Within(Tiled(images, size), m * size, V)
           /\ \A j \in 1 .. m : \A k \in DOMAIN images[j] :
                 /\ (j - 1) * size + k \in DOMAIN Tiled(images, size)
                 /\ Tiled(images, size)[(j - 1) * size + k] = images[j][k]
<1> DEFINE Bytes(j) == {(j - 1) * size + k : k \in DOMAIN images[j]}
           all == UNION {Bytes(j) : j \in DOMAIN images}
           tiled == [k \in all |-> images[k \div size + 1][k % size]]
<1>1. Tiled(images, size) = tiled
      BY DEF Tiled
<1>2. ASSUME NEW j \in 1 .. m, NEW k \in DOMAIN images[j]
      PROVE  /\ (j - 1) * size + k \in all
             /\ tiled[(j - 1) * size + k] = images[j][k]
             /\ (j - 1) * size + k \in 0 .. m * size - 1
             /\ images[j][k] \in V
  <2> DEFINE x == (j - 1) * size + k
             e == j - 1
  <2>1. k \in 0 .. size - 1 /\ images[j][k] \in V
        BY DEF Within
  <2>2. x \in all
        OBVIOUS
  <2>3. e \in Int /\ e \in 0 .. m - 1 /\ x = e * size + k /\ e + 1 = j
        OBVIOUS
  <2> HIDE DEF x, e, all
  <2>4. x \div size = e /\ x % size = k
        BY <2>1, <2>3, DivisionUnique
  <2>5. tiled[x] = images[j][k]
        BY <2>2, <2>3, <2>4
  <2>6. e * size \in Nat /\ e * size + size <= m * size
        BY <2>3, ElementWithin
  <2>7. m * size \in Nat
        OBVIOUS
  <2>8. x \in 0 .. m * size - 1
        BY <2>1, <2>3, <2>6, <2>7
  <2> HIDE DEF tiled
  <2> QED BY <2>1, <2>2, <2>5, <2>8 DEF x
<1>3. ASSUME NEW x \in all
      PROVE  \E j \in 1 .. m : \E k \in DOMAIN images[j] : x = (j - 1) * size + k
      OBVIOUS
<1>4. DOMAIN tiled = all
      OBVIOUS
<1> HIDE DEF tiled, all
<1> QED BY <1>1, <1>2, <1>3, <1>4 DEF Within

FieldFaithful(f) ==
    /\ f.array \in Int /\ f.array >= Scalar
    /\ BaseFaithful(f.base)
    /\ f.base.varsize => f.array = Scalar

\* The number of elements that a field is converted with.
ElementCount(f, n) == f.array # Scalar => n \in Nat

FieldExtent(f, v, n) == IF f.array = Scalar THEN ElemSize(f.base, v) ELSE n * f.base.size

\* What is written for the elements of an array, and where.
LEMMA ArrayWritten ==
    ASSUME NEW f, FieldFaithful(f), f.array # Scalar, NEW n \in Nat \ {0},
           NEW v, FieldAccepts(f, v, n), NEW temp,
           NEW V, \A x : ElemAccepts(f.base, x) =>
                            Within(ElemImage(f.base, x, temp), ElemSize(f.base, x), V),
           0 \in V
    PROVE  LET size == f.base.size
               image == FieldImage(f, v, n, temp)
           IN  /\ Within(image, n * size, V)
               /\ \A j \in 1 .. n :
                     IF j <= Len(v.list)
                     THEN /\ ElemAccepts(f.base, v.list[j])
                          /\ \A k \in DOMAIN ElemImage(f.base, v.list[j], temp) :
                                /\ (j - 1) * size + k \in DOMAIN image
                                /\ image[(j - 1) * size + k]
                                       = ElemImage(f.base, v.list[j], temp)[k]
                     ELSE \A k \in 0 .. size - 1 :
                             /\ (j - 1) * size + k \in DOMAIN image
                             /\ image[(j - 1) * size + k] = 0
<1> DEFINE size == f.base.size
           given == Elements(v, n)
           images == [j \in 1 .. given |-> ElemImage(f.base, v.list[j], temp)]
           tiled == Tiled(images, size)
           rest == [k \in given * size .. n * size - 1 |-> 0]
           image == FieldImage(f, v, n, temp)
<1>1. size \in Nat \ {0} /\ ~f.base.varsize
      BY DEF FieldFaithful, BaseFaithful
<1>2. IsList(v) /\ \A j \in 1 .. given : ElemAccepts(f.base, v.list[j])
      BY DEF FieldAccepts
<1>3. Len(v.list) \in Nat
      BY <1>2 DEF IsList
<1>4. given \in 0 .. n /\ \A j \in 1 .. n : j <= given <=> j <= Len(v.list)
      BY <1>3 DEF Elements
<1>5. image = Over(tiled, rest)
      BY DEF FieldImage
<1> HIDE DEF given
<1>6. \A j \in 1 .. given : Within(images[j], size, V)
  <2>1. \A j \in 1 .. given : ElemSize(f.base, v.list[j]) = size
        BY <1>1, <1>2, ElemMeasures DEF FieldFaithful, SizeOK
  <2> QED BY <1>2, <2>1
<1>7. /\ Within(tiled, given * size, V)
      /\ \A j \in 1 .. given : \A k \in DOMAIN images[j] :
            /\ (j - 1) * size + k \in DOMAIN tiled
            /\ tiled[(j - 1) * size + k] = images[j][k]
  <2>1. given \in Nat /\ DOMAIN images = 1 .. given
        BY <1>4
  <2> HIDE DEF images, size
  <2> QED BY <1>1, <1>6, <2>1, TiledFacts
<1> HIDE DEF tiled
<1>8. /\ given * size \in Nat /\ n * size \in Nat /\ given * size <= n * size
  <2> DEFINE d == n - given
  <2>1. d \in Nat /\ n = given + d
        BY <1>4
  <2> HIDE DEF d, size
  <2>2. n * size = given * size + d * size /\ d * size \in Nat /\ given * size \in Nat
        BY <1>1, <1>4, <2>1
  <2> QED BY <2>2
<1>9. Within(image, n * size, V)
  <2> DEFINE gs == given * size
             ns == n * size
  <2>1. Within(tiled, gs, V) /\ gs \in Nat /\ ns \in Nat /\ gs <= ns
        BY <1>7, <1>8
  <2>2. image = Over(tiled, [k \in gs .. ns - 1 |-> 0])
        BY <1>5
  <2> HIDE DEF gs, ns, image
  <2>3. Within(image, ns, V)
        BY <2>1, <2>2 DEF Within, Over
  <2> QED BY <2>3 DEF ns
<1>10. ASSUME NEW j \in 1 .. n, j <= Len(v.list)
       PROVE  /\ ElemAccepts(f.base, v.list[j])
              /\ \A k \in DOMAIN ElemImage(f.base, v.list[j], temp) :
                    /\ (j - 1) * size + k \in DOMAIN image
                    /\ image[(j - 1) * size + k] = ElemImage(f.base, v.list[j], temp)[k]
  <2>1. j \in 1 .. given
        BY <1>4, <1>10
  <2>2. images[j] = ElemImage(f.base, v.list[j], temp)
        BY <2>1
  <2> HIDE DEF images, image, rest, size
  <2>3. \A k \in DOMAIN images[j] : /\ (j - 1) * size + k \in DOMAIN image
                                    /\ image[(j - 1) * size + k] = images[j][k]
        BY <1>5, <1>7, <2>1 DEF Over
  <2> QED BY <1>2, <2>1, <2>2, <2>3
<1>11. ASSUME NEW j \in 1 .. n, ~(j <= Len(v.list)), NEW k \in 0 .. size - 1
       PROVE  /\ (j - 1) * size + k \in DOMAIN image
              /\ image[(j - 1) * size + k] = 0
  <2> DEFINE x == (j - 1) * size + k
             js == (j - 1) * size
             gs == given * size
             ns == n * size
  <2>1. j - 1 \in 0 .. n - 1 /\ j - 1 >= given
        BY <1>4, <1>11
  <2>2. js \in Nat /\ js + size <= ns
        BY <1>1, <2>1, ElementWithin
  <2>3. gs <= js /\ gs \in Nat /\ ns \in Nat
    <3> DEFINE d == j - 1 - given
    <3>1. d \in Nat /\ j - 1 = given + d
          BY <1>4, <2>1
    <3> HIDE DEF d, size
    <3>2. js = given * size + d * size /\ d * size \in Nat
          BY <1>1, <1>4, <3>1
    <3> QED BY <3>2, <1>8
  <2>4. x = js + k
        OBVIOUS
  <2>5. Within(tiled, gs, V) /\ image = Over(tiled, [i \in gs .. ns - 1 |-> 0])
        BY <1>5, <1>7
  <2> HIDE DEF js, gs, ns, x, image
  <2>6. x \in gs .. ns - 1 /\ x \notin 0 .. gs - 1
        BY <1>1, <2>2, <2>3, <2>4
  <2>7. x \in DOMAIN image /\ image[x] = 0
        BY <2>5, <2>6 DEF Within, Over
  <2> QED BY <2>7 DEF x
<1> HIDE DEF image, size
<1>12. ASSUME NEW j \in 1 .. n
       PROVE  IF j <= Len(v.list)
              THEN /\ ElemAccepts(f.base, v.list[j])
                   /\ \A k \in DOMAIN ElemImage(f.base, v.list[j], temp) :
                         /\ (j - 1) * size + k \in DOMAIN image
                         /\ image[(j - 1) * size + k]
                                = ElemImage(f.base, v.list[j], temp)[k]
              ELSE \A k \in 0 .. size - 1 :
                      /\ (j - 1) * size + k \in DOMAIN image
                      /\ image[(j - 1) * size + k] = 0
      BY <1>10, <1>11
<1> QED BY <1>9, <1>12 DEF image, size

LEMMA FieldWritten ==
    ASSUME NEW f, FieldFaithful(f), NEW n, ElementCount(f, n),
           NEW v, FieldAccepts(f, v, n), NEW temp
    PROVE  /\ FieldExtent(f, v, n) \in Nat
           /\ Within(FieldImage(f, v, n, temp), FieldExtent(f, v, n), Byte \cup {Junk})
           /\ ~temp => Within(FieldImage(f, v, n, temp), FieldExtent(f, v, n), Byte)
<1>1. BaseFaithful(f.base) /\ f.base.size \in Nat
      BY DEF FieldFaithful, BaseFaithful
<1>2. 0 \in Byte
      BY RadixFacts DEF Byte
<1>3. CASE f.array = Scalar
  <2>1. /\ ElemAccepts(f.base, v) /\ FieldExtent(f, v, n) = ElemSize(f.base, v)
        /\ FieldImage(f, v, n, temp) = ElemImage(f.base, v, temp)
        BY <1>3 DEF FieldAccepts, FieldExtent, FieldImage
  <2> QED BY <1>1, <2>1, ElemMeasures, ElemWritten DEF SizeOK
<1>4. CASE f.array # Scalar /\ n = 0
  <2>1. FieldExtent(f, v, n) = 0 * f.base.size /\ FieldImage(f, v, n, temp) = <<>>
        BY <1>4 DEF FieldExtent, FieldImage
  <2>2. FieldExtent(f, v, n) = 0 /\ DOMAIN FieldImage(f, v, n, temp) = {}
        BY <1>1, <2>1
  <2> QED BY <2>2 DEF Within
<1>5. CASE f.array # Scalar /\ n # 0
  <2>1. n \in Nat \ {0} /\ FieldExtent(f, v, n) = n * f.base.size
        BY <1>5 DEF ElementCount, FieldExtent
  <2>2. n * f.base.size \in Nat
        BY <1>1, <2>1
  <2>3. Within(FieldImage(f, v, n, temp), n * f.base.size, Byte \cup {Junk})
    <3>1. \A x : ElemAccepts(f.base, x) =>
             Within(ElemImage(f.base, x, temp), ElemSize(f.base, x), Byte \cup {Junk})
          BY <1>1, ElemWritten
    <3>2. 0 \in Byte \cup {Junk}
          BY <1>2
    <3> QED BY <1>5, <2>1, <3>1, <3>2, ArrayWritten
  <2>4. ~temp => Within(FieldImage(f, v, n, temp), n * f.base.size, Byte)
    <3> SUFFICES ASSUME ~temp PROVE Within(FieldImage(f, v, n, temp), n * f.base.size, Byte)
        OBVIOUS
    <3>1. \A x : ElemAccepts(f.base, x) =>
             Within(ElemImage(f.base, x, temp), ElemSize(f.base, x), Byte)
          BY <1>1, ElemWritten
    <3> QED BY <1>2, <1>5, <2>1, <3>1, ArrayWritten
  <2> QED BY <2>1, <2>2, <2>3, <2>4
<1> QED BY <1>3, <1>4, <1>5

\* What is read from the bytes that were written for a value is the value.
LEMMA FieldReads ==
    ASSUME NEW f, FieldFaithful(f), NEW n, ElementCount(f, n),
           NEW v, FieldAccepts(f, v, n), f.array = Scalar => ElemFits(f.base, v), NEW temp,
           NEW bytes, NEW at \in Nat, Holds(bytes, at, FieldImage(f, v, n, temp))
    PROVE  FieldToObj(f, bytes, at, n) = NormalField(f, v, n)
<1>1. BaseFaithful(f.base) /\ f.base.size \in Nat \ {0}
      BY DEF FieldFaithful, BaseFaithful
<1>2. CASE f.array = Scalar
  <2>1. ElemAccepts(f.base, v) /\ Holds(bytes, at, ElemImage(f.base, v, temp))
        BY <1>2 DEF FieldAccepts, FieldImage
  <2>2. ElemToObj(f.base, bytes, at) = NormalElem(f.base, v)
        BY <1>1, <1>2, <2>1, ElemReads
  <2> QED BY <1>2, <2>2 DEF FieldToObj, NormalField
<1>3. CASE f.array # Scalar
  <2> DEFINE size == f.base.size
             image == FieldImage(f, v, n, temp)
             Read(j) == ElemToObj(f.base, bytes, at + (j - 1) * size)
             Was(j) == IF j <= Len(v.list) THEN NormalElem(f.base, v.list[j])
                       ELSE ZeroElem(f.base)
  <2>1. n \in Nat /\ ~f.base.varsize
        BY <1>3 DEF ElementCount, FieldFaithful
  <2>2. ASSUME NEW j \in 1 .. n
        PROVE  Read(j) = Was(j)
    <3> DEFINE js == (j - 1) * size
               x == v.list[j]
    <3>1. n \in Nat \ {0} /\ j - 1 \in Nat
          BY <2>1
    <3>2. js \in Nat /\ at + js \in Nat
          BY <1>1, <3>1
    <3>3. IF j <= Len(v.list)
          THEN /\ ElemAccepts(f.base, x)
               /\ \A k \in DOMAIN ElemImage(f.base, x, temp) :
                     /\ js + k \in DOMAIN image
                     /\ image[js + k] = ElemImage(f.base, x, temp)[k]
          ELSE \A k \in 0 .. size - 1 : js + k \in DOMAIN image /\ image[js + k] = 0
      <4>1. \A y : ElemAccepts(f.base, y) =>
               Within(ElemImage(f.base, y, temp), ElemSize(f.base, y), Byte \cup {Junk})
            BY <1>1, ElemWritten
      <4>2. 0 \in Byte \cup {Junk}
            BY RadixFacts DEF Byte
      <4> QED BY <1>3, <3>1, <4>1, <4>2, ArrayWritten
    <3>4. \A k \in DOMAIN image : at + k \in DOMAIN bytes /\ bytes[at + k] = image[k]
          BY DEF Holds
    <3> HIDE DEF js, image, size
    <3>5. CASE j <= Len(v.list)
      <4>1. ASSUME NEW k \in DOMAIN ElemImage(f.base, x, temp)
            PROVE  /\ at + js + k \in DOMAIN bytes
                   /\ bytes[at + js + k] = ElemImage(f.base, x, temp)[k]
        <5>1. k \in Int
          <6>1. Within(ElemImage(f.base, x, temp), ElemSize(f.base, x), Byte \cup {Junk})
                BY <1>1, <3>3, <3>5, ElemWritten
          <6>2. ElemSize(f.base, x) \in Nat
                BY <1>1, <3>3, <3>5, ElemMeasures DEF SizeOK
          <6> QED BY <6>1, <6>2 DEF Within
        <5>2. at + js + k = at + (js + k)
              BY <3>2, <5>1
        <5> QED BY <3>3, <3>4, <3>5, <5>2
      <4>2. Holds(bytes, at + js, ElemImage(f.base, x, temp))
            BY <4>1 DEF Holds
      <4>3. ElemAccepts(f.base, x)
            BY <3>3, <3>5
      <4>5. ElemFits(f.base, x)
            BY <2>1 DEF ElemFits
      <4>4. ElemToObj(f.base, bytes, at + js) = NormalElem(f.base, x)
            BY <1>1, <3>2, <4>2, <4>3, <4>5, ElemReads
      <4> QED BY <3>5, <4>4 DEF js
    <3>6. CASE ~(j <= Len(v.list))
      <4>1. ASSUME NEW k \in 0 .. size - 1
            PROVE  at + js + k \in DOMAIN bytes /\ bytes[at + js + k] = 0
        <5>1. at + js + k = at + (js + k)
              BY <3>2
        <5> QED BY <3>3, <3>4, <3>6, <5>1
      <4>2. Zeroed(bytes, at + js, f.base.size)
            BY <4>1 DEF Zeroed, size
      <4>3. ElemToObj(f.base, bytes, at + js) = ZeroElem(f.base)
            BY <1>1, <2>1, <3>2, <4>2, ElemReadsZeros
      <4> QED BY <3>6, <4>3 DEF js
    <3> QED BY <3>5, <3>6
  <2>3. FieldToObj(f, bytes, at, n) = List([j \in 1 .. n |-> Read(j)])
        BY <1>3 DEF FieldToObj
  <2>4. NormalField(f, v, n) = List([j \in 1 .. n |-> Was(j)])
        BY <1>3 DEF NormalField
  <2> HIDE DEF Read, Was
  <2>5. [j \in 1 .. n |-> Read(j)] = [j \in 1 .. n |-> Was(j)]
        BY <2>2
  <2> QED BY <2>3, <2>4, <2>5
<1> QED BY <1>2, <1>3

\* Where nothing was given there are zeros.
LEMMA FieldReadsZeros ==
    ASSUME NEW f, FieldFaithful(f), ~f.base.varsize, NEW n, ElementCount(f, n),
           NEW bytes, NEW at \in Nat,
           Zeroed(bytes, at, IF f.array = Scalar THEN f.base.size ELSE n * f.base.size)
    PROVE  FieldToObj(f, bytes, at, n) = ZeroField(f, n)
<1>1. BaseFaithful(f.base) /\ f.base.size \in Nat \ {0}
      BY DEF FieldFaithful, BaseFaithful
<1>2. CASE f.array = Scalar
      BY <1>1, <1>2, ElemReadsZeros DEF FieldToObj, ZeroField
<1>3. CASE f.array # Scalar
  <2> DEFINE size == f.base.size
             Read(j) == ElemToObj(f.base, bytes, at + (j - 1) * size)
  <2>1. n \in Nat
        BY <1>3 DEF ElementCount
  <2>2. ASSUME NEW j \in 1 .. n
        PROVE  Read(j) = ZeroElem(f.base)
    <3> DEFINE js == (j - 1) * size
               ns == n * size
    <3>1. js \in Nat /\ js + size <= ns /\ ns \in Nat
      <4>1. j - 1 \in 0 .. n - 1
            BY <2>1
      <4> QED BY <1>1, <2>1, <4>1, ElementWithin
    <3>2. Zeroed(bytes, at, ns)
          BY <1>3
    <3> HIDE DEF js, ns, size
    <3>3. ASSUME NEW k \in 0 .. size - 1
          PROVE  at + js + k \in DOMAIN bytes /\ bytes[at + js + k] = 0
      <4>1. js + k \in 0 .. ns - 1 /\ at + js + k = at + (js + k)
            BY <1>1, <3>1 DEF size
      <4> QED BY <3>2, <4>1 DEF Zeroed
    <3>4. Zeroed(bytes, at + js, f.base.size)
          BY <3>3 DEF Zeroed, size
    <3>5. at + js \in Nat
          BY <3>1
    <3>6. ElemToObj(f.base, bytes, at + js) = ZeroElem(f.base)
          BY <1>1, <3>4, <3>5, ElemReadsZeros
    <3> QED BY <3>6 DEF js
  <2>3. FieldToObj(f, bytes, at, n) = List([j \in 1 .. n |-> Read(j)])
        BY <1>3 DEF FieldToObj
  <2>4. ZeroField(f, n) = List([j \in 1 .. n |-> ZeroElem(f.base)])
        BY <1>3 DEF ZeroField
  <2> HIDE DEF Read
  <2>5. [j \in 1 .. n |-> Read(j)] = [j \in 1 .. n |-> ZeroElem(f.base)]
        BY <2>2
  <2> QED BY <2>3, <2>4, <2>5
<1> QED BY <1>2, <1>3

-----------------------------------------------------------------------------
(* The conversions of a layout.                                            *)

\* What the commands make: names are distinct, fields are apart, only the last one has
\* variable size, and the structs nested in it are well made.
WellMade(L) ==
    /\ LayoutGood(L) /\ LayoutPlaced(L)
    /\ L.varsize = VariableSize(LastField(L))
    /\ \A i, j \in DOMAIN L.fields : i # j => L.fields[i].name # L.fields[j].name
    /\ L.union => \A i \in DOMAIN L.fields : L.offsets[i] = 0
    /\ ~L.union => \A i, j \in DOMAIN L.fields :
                      i < j => L.offsets[i] + FieldSize(L.fields[i]) <= L.offsets[j]
    /\ \A i \in DOMAIN L.fields : VariableSize(L.fields[i]) => i = Len(L.fields) /\ ~L.union
    /\ L.count # 0 => L.fields[L.count].array = Scalar /\ NumberBase(L.fields[L.count].base)
    /\ \A i \in DOMAIN L.fields :
          /\ FieldFaithful(L.fields[i])
          /\ L.fields[i].init = "structsize" =>
                L.fields[i].array = Scalar /\ NumberBase(L.fields[i].base)

LEMMA WellMadeFacts ==
    ASSUME NEW L, WellMade(L)
    PROVE  /\ Len(L.fields) \in Nat \ {0} /\ DOMAIN L.fields = 1 .. Len(L.fields)
           /\ Len(L.fields) \in DOMAIN L.fields /\ LastField(L) = L.fields[Len(L.fields)]
           /\ L.size \in Nat \ {0} /\ L.align \in Alignments
           /\ L.varsize \in BOOLEAN
           /\ L.count \in 0 .. Len(L.fields) - 1
           /\ L.count # 0 => L.count \in DOMAIN L.fields /\ L.count # Len(L.fields)
           /\ L.count # 0 <=> IsVLA(LastField(L))
           /\ L.count # 0 => L.varsize
           /\ L.union => ~L.varsize
           /\ L.varsize /\ L.count = 0 => LastField(L).base.varsize /\ LastField(L).array = Scalar
           /\ \A i \in DOMAIN L.fields :
                 /\ L.offsets[i] \in Nat
                 /\ FieldSize(L.fields[i]) \in Nat
                 /\ L.offsets[i] + FieldSize(L.fields[i]) <= L.size
                 /\ L.fields[i].base.size \in Nat \ {0}
                 /\ L.fields[i].array \in Int /\ L.fields[i].array >= Scalar
                 /\ VariableSize(L.fields[i]) => L.varsize
<1>1. LayoutGood(L) /\ LayoutPlaced(L) /\ DefinitionShape(L)
      BY DEF WellMade, LayoutPlaced
<1>2. Len(L.fields) \in Nat \ {0} /\ DOMAIN L.fields = 1 .. Len(L.fields)
      BY <1>1, DefinitionFields
<1>3. Len(L.fields) \in DOMAIN L.fields
      BY <1>2
<1>4. /\ L.size \in Nat \ {0} /\ L.align \in Alignments /\ L.varsize \in BOOLEAN
      /\ L.count \in 0 .. Len(L.fields) - 1 /\ (L.union => ~L.varsize)
      /\ IsVLA(LastField(L)) = (L.count # 0)
      BY <1>1 DEF LayoutGood
<1>5. L.count # 0 <=> IsVLA(LastField(L))
      BY <1>4
<1>6. L.count # 0 => L.varsize
      BY <1>5 DEF WellMade, VariableSize
<1>7. L.varsize /\ L.count = 0 => LastField(L).base.varsize /\ LastField(L).array = Scalar
  <2>1. FieldFaithful(LastField(L))
        BY <1>3 DEF WellMade, LastField
  <2> QED BY <1>5, <2>1 DEF WellMade, VariableSize, FieldFaithful
<1>8. \A i \in DOMAIN L.fields :
          /\ L.offsets[i] \in Nat
          /\ FieldSize(L.fields[i]) \in Nat
          /\ L.offsets[i] + FieldSize(L.fields[i]) <= L.size
      BY <1>1, FieldMeasures DEF LayoutPlaced
<1>9. \A i \in DOMAIN L.fields :
          /\ L.fields[i].base.size \in Nat \ {0}
          /\ L.fields[i].array \in Int /\ L.fields[i].array >= Scalar
          /\ VariableSize(L.fields[i]) => L.varsize
      BY DEF WellMade, FieldFaithful, BaseFaithful, LastField
<1>10. L.count # 0 => L.count \in DOMAIN L.fields /\ L.count # Len(L.fields)
      BY <1>2, <1>4
<1>11. LastField(L) = L.fields[Len(L.fields)]
      BY DEF LastField
<1> QED BY <1>2, <1>3, <1>4, <1>5, <1>6, <1>7, <1>8, <1>9, <1>10, <1>11

LEMMA ExtendedFacts ==
    ASSUME NEW L, WellMade(L), NEW tail \in Nat
    PROVE  Extended(L, tail) \in Nat /\ L.size + tail <= Extended(L, tail)
<1>1. L.size \in Nat /\ L.align \in Alignments /\ L.size + tail \in Nat
      BY WellMadeFacts
<1> QED BY <1>1, RoundUpFacts DEF Extended

LEMMA AcceptedParts ==
    ASSUME NEW L, NEW v, Accepts(L, v), ~L.union
    PROVE  /\ IsDict(v) /\ RoomForObj(L, v) # Fails
           /\ \A i \in DOMAIN L.fields :
                 IF Given(L, i, v)
                 THEN FieldAccepts(L.fields[i], FieldObj(L, i, v), ArrayCount(L, i, v))
                 ELSE L.fields[i].init = "structsize" \/ L.clear
BY DEF Accepts, SizeForObj, AsInt

\* The counts and sizes of an accepted value.
LEMMA AcceptedCount ==
    ASSUME NEW L, WellMade(L), NEW v, Accepts(L, v), ~L.union, L.count # 0
    PROVE  /\ ObjCount(L, v) \in Nat /\ ObjCount(L, v) <= IntMax
           /\ L.fields[L.count].name \in DOMAIN v.dict
           /\ v.dict[L.fields[L.count].name] = Num(ObjCount(L, v))
           /\ RoomForObj(L, v) = Extended(L, ObjCount(L, v) * LastField(L).base.size)
<1>1. L.varsize
      BY WellMadeFacts
<1>2. RoomForObj(L, v) # Fails
      BY AcceptedParts
<1>3. /\ ObjCount(L, v) # Fails
      /\ RoomForObj(L, v) = Extended(L, ObjCount(L, v) * LastField(L).base.size)
      BY <1>1, <1>2 DEF RoomForObj
<1> DEFINE name == L.fields[L.count].name
<1>4. /\ name \in DOMAIN v.dict /\ IsNum(v.dict[name]) /\ v.dict[name].num \in 0 .. IntMax
      /\ ObjCount(L, v) = v.dict[name].num
      BY <1>3, ZenonT(30) DEF ObjCount
<1>5. v.dict[name].num \in Int /\ v.dict[name] = Num(v.dict[name].num)
      BY <1>4 DEF IsNum, Num
<1>6. ObjCount(L, v) \in Nat /\ ObjCount(L, v) <= IntMax
  <2> HIDE DEF name
  <2> QED BY <1>4, <1>5, StructAssumption
<1>7. name \in DOMAIN v.dict /\ v.dict[name] = Num(ObjCount(L, v))
  <2> HIDE DEF name
  <2> QED BY <1>4, <1>5
<1> QED BY <1>3, <1>6, <1>7

LEMMA AcceptedTail ==
    ASSUME NEW L, WellMade(L), NEW v, Accepts(L, v), ~L.union,
           L.varsize, L.count = 0
    PROVE  LET last  == LastField(L)
               inner == NestedRoomForObj(last.base.layout, v.dict[last.name])
           IN  /\ last.name \in DOMAIN v.dict
               /\ StructBase(last.base) /\ ElemAccepts(last.base, v.dict[last.name])
               /\ inner \in Nat /\ inner >= last.base.size
               /\ RoomForObj(L, v) = Extended(L, inner - last.base.size)
<1> DEFINE last == LastField(L)
           n == Len(L.fields)
           inner == NestedRoomForObj(last.base.layout, v.dict[last.name])
<1>1. last = L.fields[n] /\ n \in DOMAIN L.fields /\ last.base.varsize /\ last.array = Scalar
      BY WellMadeFacts
<1>2. FieldFaithful(last)
      BY <1>1 DEF WellMade
<1>3. BaseFaithful(last.base) /\ StructBase(last.base)
      BY <1>1, <1>2 DEF FieldFaithful, BaseFaithful, NumberBase
<1>4. RoomForObj(L, v) # Fails
      BY AcceptedParts
<1>5. last.name \in DOMAIN v.dict /\ RoomForObj(L, v) = Extended(L, inner - last.base.size)
      BY <1>4 DEF RoomForObj
<1>6. ElemAccepts(last.base, v.dict[last.name])
  <2>1. Given(L, n, v) /\ FieldObj(L, n, v) = v.dict[last.name]
        BY <1>1, <1>5 DEF Given, FieldObj
  <2>2. FieldAccepts(last, v.dict[last.name], ArrayCount(L, n, v))
        BY <1>1, <2>1, AcceptedParts
  <2> QED BY <1>1, <2>2 DEF FieldAccepts
<1>7. SizeOK(inner, last.base.size, last.base.varsize)
  <2>1. ElemSize(last.base, v.dict[last.name]) = inner
        BY <1>3 DEF ElemSize, StructBase
  <2> QED BY <1>3, <1>6, <2>1, ElemMeasures
<1> QED BY <1>3, <1>5, <1>6, <1>7 DEF SizeOK

LEMMA SizeOfAccepted ==
    ASSUME NEW L, WellMade(L), NEW v, Accepts(L, v)
    PROVE  SizeOK(RoomForObj(L, v), L.size, L.varsize)
<1>1. L.size \in Nat /\ L.varsize \in BOOLEAN /\ (L.union => ~L.varsize)
      BY WellMadeFacts
<1>2. CASE ~L.varsize
  <2>1. RoomForObj(L, v) = L.size
        BY <1>2 DEF RoomForObj
  <2> QED BY <1>1, <2>1 DEF SizeOK
<1>3. CASE L.varsize
  <2>1. PICK tail \in Nat : RoomForObj(L, v) = Extended(L, tail)
    <3>1. CASE L.count # 0
      <4>1. LastField(L).base.size \in Nat
            BY WellMadeFacts
      <4>2. ObjCount(L, v) \in Nat
            BY <1>1, <1>3, <3>1, AcceptedCount
      <4>3. ObjCount(L, v) * LastField(L).base.size \in Nat
            BY <4>1, <4>2
      <4> QED BY <1>1, <1>3, <3>1, <4>3, AcceptedCount
    <3>2. CASE L.count = 0
      <4> DEFINE last == LastField(L)
                 inner == NestedRoomForObj(last.base.layout, v.dict[last.name])
      <4>1. /\ inner \in Nat /\ inner >= last.base.size
            /\ RoomForObj(L, v) = Extended(L, inner - last.base.size)
            BY <1>1, <1>3, <3>2, AcceptedTail
      <4>2. last.base.size \in Nat
            BY WellMadeFacts
      <4> HIDE DEF inner, last
      <4>3. inner - last.base.size \in Nat
            BY <4>1, <4>2
      <4> QED BY <4>1, <4>3
    <3> QED BY <3>1, <3>2
  <2>2. Extended(L, tail) \in Nat /\ L.size + tail <= Extended(L, tail)
        BY ExtendedFacts
  <2> QED BY <1>1, <1>3, <2>1, <2>2 DEF SizeOK
<1> QED BY <1>1, <1>2, <1>3

\* The bytes a field is read from when a struct was written: those of its value, its
\* size or zeros.
Stated(L, i, v) == Given(L, i, v) \/ L.fields[i].init = "structsize"

Room(L, i, v) ==
    IF Given(L, i, v) THEN FieldExtent(L.fields[i], FieldObj(L, i, v), ArrayCount(L, i, v))
    ELSE IF L.fields[i].array = Scalar THEN L.fields[i].base.size
    ELSE ArrayCount(L, i, v) * L.fields[i].base.size

FieldBytes(L, i, v) ==
    IF Stated(L, i, v) THEN Written(L, i, v) ELSE [k \in 0 .. Room(L, i, v) - 1 |-> 0]

LEMMA ElementsCounted ==
    ASSUME NEW L, WellMade(L), NEW v, Accepts(L, v), ~L.union, NEW i \in DOMAIN L.fields
    PROVE  /\ ElementCount(L.fields[i], ArrayCount(L, i, v))
           /\ ~IsVLA(L.fields[i]) => ArrayCount(L, i, v) = L.fields[i].array
           /\ IsVLA(L.fields[i]) => /\ i = Len(L.fields) /\ L.count # 0
                                    /\ ArrayCount(L, i, v) = ObjCount(L, v)
<1>1. CASE IsVLA(L.fields[i])
  <2>1. i = Len(L.fields)
        BY <1>1 DEF WellMade, VariableSize
  <2>2. L.count # 0
        BY <1>1, <2>1, WellMadeFacts
  <2>3. ObjCount(L, v) \in Nat
        BY <2>2, AcceptedCount
  <2> QED BY <1>1, <2>1, <2>2, <2>3 DEF ElementCount, ArrayCount
<1>2. CASE ~IsVLA(L.fields[i])
  <2>1. ArrayCount(L, i, v) = L.fields[i].array
        BY <1>2 DEF ArrayCount
  <2>2. L.fields[i].array \in Int /\ L.fields[i].array >= -1
        BY WellMadeFacts DEF Scalar
  <2> QED BY <1>2, <2>1, <2>2 DEF ElementCount, Scalar
<1> QED BY <1>1, <1>2

\* Each field has its room within the size of the struct.
LEMMA FieldRooms ==
    ASSUME NEW L, WellMade(L), NEW v, Accepts(L, v), ~L.union,
           NEW i \in DOMAIN L.fields
    PROVE  /\ Room(L, i, v) \in Nat
           /\ ~VariableSize(L.fields[i]) => Room(L, i, v) = FieldSize(L.fields[i])
           /\ L.offsets[i] + Room(L, i, v) <= RoomForObj(L, v)
           /\ ~Given(L, i, v) => ~L.fields[i].base.varsize
<1> DEFINE f == L.fields[i]
           n == ArrayCount(L, i, v)
           room == Room(L, i, v)
<1>1. /\ FieldFaithful(f) /\ BaseFaithful(f.base) /\ f.base.size \in Nat
      /\ f.base.varsize => f.array = Scalar
      BY DEF WellMade, FieldFaithful, BaseFaithful
<1>2. ElementCount(f, n)
      BY ElementsCounted
<1>3. /\ L.offsets[i] \in Nat /\ FieldSize(f) \in Nat
      /\ L.offsets[i] + FieldSize(f) <= L.size /\ L.size \in Nat
      /\ f.array \in Int /\ f.array >= Scalar
      BY WellMadeFacts
<1>4. SizeOK(RoomForObj(L, v), L.size, L.varsize)
      BY SizeOfAccepted
<1>5. Given(L, i, v) => FieldAccepts(f, FieldObj(L, i, v), n)
      BY AcceptedParts
<1>6. CASE ~VariableSize(f)
  <2>1. n = f.array /\ ~f.base.varsize
        BY <1>6, ElementsCounted DEF VariableSize
  <2>2. room = FieldSize(f)
    <3>1. CASE f.array = Scalar
      <4>1. Given(L, i, v) => ElemAccepts(f.base, FieldObj(L, i, v))
            BY <1>5, <3>1 DEF FieldAccepts
      <4>2. Given(L, i, v) => ElemSize(f.base, FieldObj(L, i, v)) = f.base.size
            BY <1>1, <2>1, <4>1, ElemMeasures DEF SizeOK
      <4> QED BY <3>1, <4>2 DEF Room, FieldExtent, FieldSize
    <3>2. CASE f.array # Scalar
          BY <2>1, <3>2 DEF Room, FieldExtent, FieldSize
    <3> QED BY <3>1, <3>2
  <2>3. L.offsets[i] + FieldSize(f) <= RoomForObj(L, v)
    <3> HIDE DEF f
    <3> QED BY <1>3, <1>4 DEF SizeOK
  <2> QED BY <1>3, <1>6, <2>1, <2>2, <2>3
<1>7. CASE IsVLA(f)
  <2> DEFINE tail == n * f.base.size
  <2>1. /\ i = Len(L.fields) /\ L.count # 0 /\ n = ObjCount(L, v) /\ f = LastField(L)
        BY <1>7, ElementsCounted DEF LastField
  <2>2. n \in Nat /\ RoomForObj(L, v) = Extended(L, tail)
        BY <2>1, AcceptedCount
  <2>3. f.array # Scalar /\ FieldSize(f) = 0 /\ VariableSize(f)
        BY <1>1, <1>7 DEF IsVLA, VLA, Scalar, FieldSize, VariableSize
  <2>4. room = tail
        BY <2>3 DEF Room, FieldExtent
  <2>5. tail \in Nat
        BY <1>1, <2>2
  <2>6. Extended(L, tail) \in Nat /\ L.size + tail <= Extended(L, tail)
        BY <2>5, ExtendedFacts
  <2>7. ~f.base.varsize
        BY <1>1, <2>3
  <2> HIDE DEF tail, room, f
  <2>8. L.offsets[i] + room <= RoomForObj(L, v)
        BY <1>3, <2>2, <2>4, <2>5, <2>6
  <2> QED BY <2>3, <2>4, <2>5, <2>7, <2>8 DEF room, f
<1>8. CASE f.base.varsize
  <2> DEFINE inner == NestedRoomForObj(f.base.layout, v.dict[f.name])
  <2>1. f.array = Scalar /\ VariableSize(f) /\ ~IsVLA(f)
        BY <1>1, <1>8 DEF VariableSize, IsVLA, VLA, Scalar
  <2>2. i = Len(L.fields) /\ f = LastField(L) /\ L.varsize /\ L.count = 0
    <3>1. i = Len(L.fields)
          BY <2>1 DEF WellMade
    <3> QED BY <2>1, <3>1, WellMadeFacts DEF LastField
  <2>3. /\ f.name \in DOMAIN v.dict
        /\ StructBase(f.base) /\ inner \in Nat /\ inner >= f.base.size
        /\ RoomForObj(L, v) = Extended(L, inner - f.base.size)
        BY <2>2, AcceptedTail
  <2>4. Given(L, i, v) /\ FieldObj(L, i, v) = v.dict[f.name]
        BY <2>3 DEF Given, FieldObj
  <2>5. room = inner
        BY <2>1, <2>3, <2>4 DEF Room, FieldExtent, ElemSize, StructBase
  <2>6. FieldSize(f) = f.base.size
        BY <2>1 DEF FieldSize
  <2> HIDE DEF inner
  <2>7. inner - f.base.size \in Nat
        BY <1>1, <2>3
  <2>8. /\ Extended(L, inner - f.base.size) \in Nat
        /\ L.size + (inner - f.base.size) <= Extended(L, inner - f.base.size)
        BY <2>7, ExtendedFacts
  <2> DEFINE s == f.base.size
  <2>9. L.offsets[i] + inner <= RoomForObj(L, v)
    <3>1. s \in Nat /\ L.offsets[i] + s <= L.size /\ L.size + (inner - s) <= RoomForObj(L, v)
          BY <1>1, <1>3, <2>3, <2>6, <2>8
    <3>2. RoomForObj(L, v) \in Nat
          BY <1>4 DEF SizeOK
    <3> HIDE DEF s, f
    <3> QED BY <1>3, <2>3, <3>1, <3>2
  <2> QED BY <2>1, <2>3, <2>4, <2>5, <2>9
<1> QED BY <1>6, <1>7, <1>8 DEF VariableSize

LEMMA FieldBytesWithin ==
    ASSUME NEW L, WellMade(L), NEW v, Accepts(L, v), ~L.union,
           NEW i \in DOMAIN L.fields
    PROVE  Within(FieldBytes(L, i, v), Room(L, i, v), Byte)
<1> DEFINE f == L.fields[i]
           n == ArrayCount(L, i, v)
<1>1. FieldFaithful(f)
      BY DEF WellMade
<1>2. ElementCount(f, n)
      BY ElementsCounted
<1>3. CASE Given(L, i, v)
  <2>1. FieldAccepts(f, FieldObj(L, i, v), n)
        BY <1>3, AcceptedParts
  <2>2. Within(FieldImage(f, FieldObj(L, i, v), n, FALSE), FieldExtent(f, FieldObj(L, i, v), n), Byte)
        BY <1>1, <1>2, <2>1, FieldWritten
  <2> QED BY <1>3, <2>2 DEF FieldBytes, Stated, Written, Room
<1>4. CASE ~Given(L, i, v) /\ f.init = "structsize"
  <2>1. f.array = Scalar /\ f.base.size \in Nat /\ L.size \in Int
        BY <1>4, WellMadeFacts DEF WellMade
  <2>2. FieldBytes(L, i, v) = Digits(L.size, f.base.size) /\ Room(L, i, v) = f.base.size
        BY <1>4, <2>1 DEF FieldBytes, Stated, Written, Room
  <2> QED BY <2>1, <2>2, DigitsAreBytes DEF Within
<1>5. CASE ~Given(L, i, v) /\ f.init # "structsize"
  <2>1. FieldBytes(L, i, v) = [k \in 0 .. Room(L, i, v) - 1 |-> 0]
        BY <1>5 DEF FieldBytes, Stated
  <2>2. 0 \in Byte
        BY RadixFacts DEF Byte
  <2> QED BY <2>1, <2>2 DEF Within
<1> QED BY <1>3, <1>4, <1>5

\* No byte is in the room of two fields.
LEMMA RoomsApart ==
    ASSUME NEW L, WellMade(L), NEW v, Accepts(L, v), ~L.union,
           NEW i \in DOMAIN L.fields, NEW j \in DOMAIN L.fields, NEW x \in Int,
           x - L.offsets[i] \in 0 .. Room(L, i, v) - 1,
           x - L.offsets[j] \in 0 .. Room(L, j, v) - 1
    PROVE  i = j
<1>1. \A a, b \in DOMAIN L.fields : a < b => L.offsets[a] + Room(L, a, v) <= L.offsets[b]
  <2> SUFFICES ASSUME NEW a \in DOMAIN L.fields, NEW b \in DOMAIN L.fields, a < b
               PROVE  L.offsets[a] + Room(L, a, v) <= L.offsets[b]
      OBVIOUS
  <2>1. a # Len(L.fields)
        BY WellMadeFacts
  <2>2. ~VariableSize(L.fields[a])
        BY <2>1 DEF WellMade
  <2>3. Room(L, a, v) = FieldSize(L.fields[a])
        BY <2>2, FieldRooms
  <2> QED BY <2>3 DEF WellMade
<1>2. /\ L.offsets[i] \in Nat /\ L.offsets[j] \in Nat
      /\ Room(L, i, v) \in Nat /\ Room(L, j, v) \in Nat
      BY WellMadeFacts, FieldRooms
<1>3. i \in Int /\ j \in Int
      BY WellMadeFacts
<1>4. ~(i < j)
      BY <1>1, <1>2
<1>5. ~(j < i)
      BY <1>1, <1>2
<1> QED BY <1>3, <1>4, <1>5

\* What a struct is written as: its fields, each in its room.
LEMMA ImageOfFields ==
    ASSUME NEW L, WellMade(L), NEW v, Accepts(L, v), ~L.union
    PROVE  /\ Within(Image(L, v), RoomForObj(L, v), Byte)
           /\ \A i \in DOMAIN L.fields : \A k \in DOMAIN FieldBytes(L, i, v) :
                 Stated(L, i, v) \/ FitsInt(L, v) =>
                 /\ L.offsets[i] + k \in DOMAIN Image(L, v)
                 /\ Image(L, v)[L.offsets[i] + k] = FieldBytes(L, i, v)[k]
<1> DEFINE size == RoomForObj(L, v)
           written == [i \in DOMAIN L.fields |-> Written(L, i, v)]
           cleared == SizeForObj(L, v)
           clear == IF L.clear THEN Fill(cleared, 0) ELSE <<>>
           Writers(k) == {i \in DOMAIN L.fields : k - L.offsets[i] \in DOMAIN written[i]}
           Spots(i) == {L.offsets[i] + k : k \in DOMAIN written[i]}
           spots == UNION {Spots(i) : i \in DOMAIN L.fields}
           fields == [k \in spots |-> LET i == Max(Writers(k)) IN written[i][k - L.offsets[i]]]
           image == Image(L, v)
<1>1. image = Over(fields, clear)
      BY DEF Image
<1>2. size \in Nat
      BY SizeOfAccepted DEF SizeOK
<1>10. cleared \in Int /\ cleared <= size /\ (FitsInt(L, v) => cleared = size)
  <2>1. cleared = AsInt(L, size)
        BY DEF SizeForObj
  <2> QED BY <1>2, <2>1, SizeOfRoom DEF FitsInt
<1>3. ASSUME NEW i \in DOMAIN L.fields
      PROVE  /\ L.offsets[i] \in Nat /\ Room(L, i, v) \in Nat
             /\ L.offsets[i] + Room(L, i, v) <= size
             /\ \A k \in DOMAIN written[i] : k \in 0 .. Room(L, i, v) - 1 /\ written[i][k] \in Byte
  <2>1. L.offsets[i] \in Nat /\ Room(L, i, v) \in Nat /\ L.offsets[i] + Room(L, i, v) <= size
        BY WellMadeFacts, FieldRooms
  <2>2. CASE Stated(L, i, v)
    <3>1. written[i] = FieldBytes(L, i, v)
          BY <2>2 DEF FieldBytes
    <3> QED BY <2>1, <3>1, FieldBytesWithin DEF Within
  <2>3. CASE ~Stated(L, i, v)
    <3>1. written[i] = <<>>
          BY <2>3 DEF Stated, Written
    <3> QED BY <2>1, <3>1
  <2> QED BY <2>2, <2>3
<1> HIDE DEF written, size, cleared
<1>4. ASSUME NEW i \in DOMAIN L.fields, NEW k \in DOMAIN written[i]
      PROVE  /\ L.offsets[i] + k \in spots
             /\ fields[L.offsets[i] + k] = written[i][k]
             /\ L.offsets[i] + k \in 0 .. size - 1
  <2> DEFINE x == L.offsets[i] + k
  <2>1. k \in 0 .. Room(L, i, v) - 1 /\ L.offsets[i] \in Nat /\ Room(L, i, v) \in Nat
        BY <1>3
  <2>2. x \in Int /\ x - L.offsets[i] = k
        BY <2>1
  <2>3. x \in spots
        OBVIOUS
  <2>4. x \in 0 .. size - 1
        BY <2>1, <1>2, <1>3
  <2> HIDE DEF x
  <2>5. Writers(x) = {i}
    <3>1. i \in Writers(x)
          BY <2>2
    <3>2. ASSUME NEW j \in Writers(x)
          PROVE  j = i
      <4>1. j \in DOMAIN L.fields /\ x - L.offsets[j] \in 0 .. Room(L, j, v) - 1
            BY <1>3
      <4>2. x - L.offsets[i] \in 0 .. Room(L, i, v) - 1
            BY <2>1, <2>2
      <4> QED BY <2>2, <4>1, <4>2, RoomsApart
    <3> HIDE DEF Writers
    <3> QED BY <3>1, <3>2
  <2>6. Max({i}) = i
    <3>1. i \in Int
          BY WellMadeFacts
    <3> QED BY <3>1 DEF Max
  <2> HIDE DEF spots, Writers
  <2>7. fields[x] = written[i][k]
        BY <2>2, <2>3, <2>5, <2>6
  <2> QED BY <2>3, <2>4, <2>7 DEF x
<1>5. ASSUME NEW x \in spots
      PROVE  \E i \in DOMAIN L.fields : \E k \in DOMAIN written[i] : x = L.offsets[i] + k
      OBVIOUS
<1>6. DOMAIN fields = spots
      OBVIOUS
<1>7. DOMAIN clear \subseteq 0 .. size - 1 /\ \A k \in DOMAIN clear : clear[k] = 0
      BY <1>2, <1>10 DEF Fill
<1> HIDE DEF fields, spots, clear, Writers
<1>8. Within(image, size, Byte)
  <2>1. \A k \in spots : k \in 0 .. size - 1 /\ fields[k] \in Byte
        BY <1>3, <1>4, <1>5
  <2>2. 0 \in Byte
        BY RadixFacts DEF Byte
  <2> HIDE DEF image
  <2> QED BY <1>1, <1>6, <1>7, <2>1, <2>2 DEF Within, Over
<1>9. ASSUME NEW i \in DOMAIN L.fields, NEW k \in DOMAIN FieldBytes(L, i, v),
             Stated(L, i, v) \/ FitsInt(L, v)
      PROVE  /\ L.offsets[i] + k \in DOMAIN image
             /\ image[L.offsets[i] + k] = FieldBytes(L, i, v)[k]
  <2>1. CASE Stated(L, i, v)
    <3>1. FieldBytes(L, i, v) = written[i]
          BY <2>1 DEF FieldBytes, written
    <3> HIDE DEF image
    <3> QED BY <1>1, <1>4, <1>6, <3>1 DEF Over
  <2>2. CASE ~Stated(L, i, v)
    <3> DEFINE x == L.offsets[i] + k
    <3>1. FieldBytes(L, i, v) = [j \in 0 .. Room(L, i, v) - 1 |-> 0]
          BY <2>2 DEF FieldBytes
    <3>2. k \in 0 .. Room(L, i, v) - 1 /\ FieldBytes(L, i, v)[k] = 0
          BY <3>1
    <3>3. written[i] = <<>>
          BY <2>2 DEF Stated, Written, written
    <3>4. x \in Int /\ x - L.offsets[i] = k /\ x \in 0 .. size - 1
          BY <1>2, <1>3, <3>2
    <3> HIDE DEF x
    <3>5. x \notin spots
      <4> SUFFICES ASSUME x \in spots PROVE FALSE
          OBVIOUS
      <4>1. PICK j \in DOMAIN L.fields : \E l \in DOMAIN written[j] : x = L.offsets[j] + l
            BY <1>5
      <4>2. x - L.offsets[j] \in DOMAIN written[j]
        <5>1. PICK l \in DOMAIN written[j] : x = L.offsets[j] + l
              BY <4>1
        <5>2. l \in Int /\ L.offsets[j] \in Int
              BY <1>3
        <5>3. x - L.offsets[j] = l
              BY <5>1, <5>2
        <5> QED BY <5>3
      <4>3. x - L.offsets[j] \in 0 .. Room(L, j, v) - 1
            BY <1>3, <4>2
      <4>4. i = j
            BY <3>2, <3>4, <4>3, RoomsApart
      <4> QED BY <3>3, <4>2, <4>4
    <3>6. L.clear
          BY <2>2, AcceptedParts DEF Stated
    <3>7. x \in DOMAIN clear /\ clear[x] = 0
          BY <1>9, <1>10, <2>2, <3>4, <3>6 DEF clear, Fill
    <3> HIDE DEF image
    <3>8. x \in DOMAIN image /\ image[x] = 0
          BY <1>1, <1>6, <3>5, <3>7 DEF Over
    <3> QED BY <3>2, <3>8 DEF x
  <2> QED BY <2>1, <2>2
<1> QED BY <1>8, <1>9 DEF size

\* What should be read for a field.
NormalValue(L, i, v) ==
    LET f == L.fields[i] IN
    IF Given(L, i, v) THEN NormalField(f, FieldObj(L, i, v), ArrayCount(L, i, v))
    ELSE IF f.init = "structsize" THEN Num(Signed(f.base, L.size % Power[f.base.size]))
    ELSE ZeroField(f, ArrayCount(L, i, v))

LEMMA FieldReadBack ==
    ASSUME NEW L, WellMade(L), NEW v, Accepts(L, v), ~L.union,
           NEW i \in DOMAIN L.fields, FitsInt(L, v) \/ ~L.fields[i].base.varsize,
           NEW bytes, NEW at \in Nat, Holds(bytes, at, FieldBytes(L, i, v))
    PROVE  FieldToObj(L.fields[i], bytes, at, ArrayCount(L, i, v)) = NormalValue(L, i, v)
<1> DEFINE f == L.fields[i]
           n == ArrayCount(L, i, v)
<1>1. FieldFaithful(f) /\ ElementCount(f, n)
      BY ElementsCounted DEF WellMade
<1>2. CASE Given(L, i, v)
  <2>1. FieldAccepts(f, FieldObj(L, i, v), n)
        BY <1>2, AcceptedParts
  <2>2. FieldBytes(L, i, v) = FieldImage(f, FieldObj(L, i, v), n, FALSE)
        BY <1>2 DEF FieldBytes, Stated, Written
  <2>4. f.array = Scalar => ElemFits(f.base, FieldObj(L, i, v))
    <3> SUFFICES ASSUME f.array = Scalar, f.base.varsize
                 PROVE  ElemSize(f.base, FieldObj(L, i, v)) <= IntMax
        BY DEF ElemFits
    <3>1. Room(L, i, v) = ElemSize(f.base, FieldObj(L, i, v))
          BY <1>2 DEF Room, FieldExtent
    <3>2. L.varsize /\ L.offsets[i] \in Nat
          BY WellMadeFacts DEF VariableSize
    <3>3. RoomForObj(L, v) <= IntMax
          BY <3>2 DEF FitsInt
    <3>4. /\ Room(L, i, v) \in Nat /\ L.offsets[i] + Room(L, i, v) <= RoomForObj(L, v)
          /\ RoomForObj(L, v) \in Nat /\ IntMax \in Nat
          BY FieldRooms, SizeOfAccepted, StructAssumption DEF SizeOK
    <3> HIDE DEF f
    <3> QED BY <3>1, <3>2, <3>3, <3>4
  <2>3. FieldToObj(f, bytes, at, n) = NormalField(f, FieldObj(L, i, v), n)
        BY <1>1, <2>1, <2>2, <2>4, FieldReads
  <2> QED BY <1>2, <2>3 DEF NormalValue
<1>3. CASE ~Given(L, i, v) /\ f.init = "structsize"
  <2>1. f.array = Scalar /\ f.base.of = "num" /\ f.base.size \in Nat /\ L.size \in Int
        BY <1>3, WellMadeFacts DEF WellMade, NumberBase
  <2>2. FieldBytes(L, i, v) = Digits(L.size, f.base.size)
        BY <1>3 DEF FieldBytes, Stated, Written
  <2>3. Number(f.base, bytes, at) = Signed(f.base, L.size % Power[f.base.size])
        BY <2>1, <2>2, NumberOfDigits
  <2> QED BY <1>3, <2>1, <2>3 DEF NormalValue, FieldToObj, ElemToObj
<1>4. CASE ~Given(L, i, v) /\ f.init # "structsize"
  <2>1. ~f.base.varsize
        BY <1>4, FieldRooms
  <2>2. FieldBytes(L, i, v) = [k \in 0 .. Room(L, i, v) - 1 |-> 0]
        BY <1>4 DEF FieldBytes, Stated
  <2>3. Zeroed(bytes, at, Room(L, i, v))
        BY <2>2 DEF Holds, Zeroed
  <2>4. Room(L, i, v) = IF f.array = Scalar THEN f.base.size ELSE n * f.base.size
        BY <1>4 DEF Room
  <2>5. FieldToObj(f, bytes, at, n) = ZeroField(f, n)
        BY <1>1, <2>1, <2>3, <2>4, FieldReadsZeros
  <2> QED BY <1>4, <2>5 DEF NormalValue
<1> QED BY <1>2, <1>3, <1>4

\* The field that says how large a struct is: the count of its trailing array, or the
\* struct that is nested last.
KeyField(L) == IF L.count # 0 THEN L.count ELSE Len(L.fields)

LEMMA SizeReadBack ==
    ASSUME NEW L, WellMade(L), NEW v, Accepts(L, v), ~L.union,
           NEW bytes, NEW at \in Nat,
           L.varsize => Holds(bytes, at + L.offsets[KeyField(L)], FieldBytes(L, KeyField(L), v))
    PROVE  /\ RoomForNative(L, bytes, at) = RoomForObj(L, v)
           /\ L.count # 0 => NativeCount(L, bytes, at) = ObjCount(L, v)
<1>1. CASE ~L.varsize
  <2>1. L.count = 0
        BY <1>1, WellMadeFacts
  <2> QED BY <1>1, <2>1 DEF RoomForNative, RoomForObj
<1>2. CASE L.count # 0
  <2> DEFINE c == L.count
             f == L.fields[c]
             n == ObjCount(L, v)
  <2>1. /\ c \in DOMAIN L.fields /\ L.varsize /\ f.array = Scalar /\ f.base.of = "num"
        /\ ~f.base.varsize
        BY <1>2, WellMadeFacts DEF WellMade, NumberBase
  <2>2. n \in Nat /\ n <= IntMax /\ f.name \in DOMAIN v.dict /\ v.dict[f.name] = Num(n)
        BY <1>2, AcceptedCount
  <2>3. L.offsets[c] \in Nat /\ at + L.offsets[c] \in Nat
        BY <2>1, WellMadeFacts
  <2>4. Holds(bytes, at + L.offsets[c], FieldBytes(L, c, v))
        BY <1>2, <2>1 DEF KeyField
  <2>5. FieldToObj(f, bytes, at + L.offsets[c], ArrayCount(L, c, v)) = NormalValue(L, c, v)
        BY <2>1, <2>3, <2>4, FieldReadBack
  <2>6. NormalValue(L, c, v) = Num(n)
        BY <2>1, <2>2 DEF NormalValue, Given, FieldObj, NormalField, NormalElem
  <2>7. Number(f.base, bytes, at + L.offsets[c]) = n
        BY <2>1, <2>5, <2>6 DEF FieldToObj, ElemToObj, Num
  <2>8. NativeCount(L, bytes, at) = n
    <3>1. n # Junk /\ ToInt(n) = n /\ ~(n < 0)
          BY <2>2, ToIntFacts, StructAssumption
    <3> HIDE DEF n
    <3> QED BY <2>7, <3>1 DEF NativeCount
  <2>9. n # Fails
        BY <2>2, StructAssumption DEF Fails
  <2>10. RoomForNative(L, bytes, at) = Extended(L, n * LastField(L).base.size)
        BY <1>2, <2>1, <2>8, <2>9 DEF RoomForNative
  <2> QED BY <1>2, <2>8, <2>10, AcceptedCount
<1>3. CASE L.varsize /\ L.count = 0
  <2> DEFINE last == LastField(L)
             n == Len(L.fields)
             x == v.dict[last.name]
             inner == NestedRoomForObj(last.base.layout, x)
  <2>1. n \in DOMAIN L.fields /\ last = L.fields[n] /\ last.array = Scalar
        BY <1>3, WellMadeFacts
  <2>2. /\ last.name \in DOMAIN v.dict
        /\ StructBase(last.base) /\ ElemAccepts(last.base, x)
        /\ inner \in Nat
        /\ RoomForObj(L, v) = Extended(L, inner - last.base.size)
        BY <1>3, AcceptedTail
  <2>3. at + L.offsets[n] \in Nat
        BY <2>1, WellMadeFacts
  <2>4. FieldBytes(L, n, v) = Image(last.base.layout, x)
    <3>1. Given(L, n, v) /\ FieldObj(L, n, v) = x
          BY <2>1, <2>2 DEF Given, FieldObj
    <3>2. FieldBytes(L, n, v) = FieldImage(last, x, ArrayCount(L, n, v), FALSE)
          BY <2>1, <3>1 DEF FieldBytes, Stated, Written
    <3>3. FieldImage(last, x, ArrayCount(L, n, v), FALSE) = NestedImage(last.base.layout, x)
          BY <2>1, <2>2 DEF FieldImage, ElemImage, StructBase
    <3> QED BY <2>2, <3>2, <3>3 DEF StructBase, Alike
  <2>5. Holds(bytes, at + L.offsets[n], Image(last.base.layout, x))
        BY <1>3, <2>4 DEF KeyField
  <2>6. Accepts(last.base.layout, x)
        BY <2>2 DEF ElemAccepts, StructBase, Alike
  <2>7. RoomForNative(last.base.layout, bytes, at + L.offsets[n])
            = RoomForObj(last.base.layout, x)
        BY <2>2, <2>3, <2>5, <2>6 DEF StructBase, Faithful, ReadsImage
  <2>8. NestedRoomForNative(last.base.layout, bytes, at + L.offsets[n]) = inner
        BY <2>2, <2>7 DEF StructBase, Alike
  <2>9. inner # Fails
        BY <2>2, StructAssumption DEF Fails
  <2> HIDE DEF inner, x
  <2>10. RoomForNative(L, bytes, at) = Extended(L, inner - last.base.size)
        BY <1>3, <2>8, <2>9 DEF RoomForNative
  <2> QED BY <1>3, <2>2, <2>10
<1> QED BY <1>1, <1>2, <1>3

LEMMA NativeArrayCountReadBack ==
    ASSUME NEW L, WellMade(L), NEW v, Accepts(L, v), ~L.union,
           NEW bytes, NEW at \in Nat, NEW i \in DOMAIN L.fields,
           L.count # 0 => NativeCount(L, bytes, at) = ObjCount(L, v)
    PROVE  NativeArrayCount(L, i, bytes, at) = ArrayCount(L, i, v)
BY ElementsCounted DEF NativeArrayCount

LEMMA FieldFound ==
    ASSUME NEW L, NEW name \in Names(L)
    PROVE  FindField(L, name) \in DOMAIN L.fields /\ L.fields[FindField(L, name)].name = name
BY DEF Names, FindField

LEMMA KeyFieldStated ==
    ASSUME NEW L, WellMade(L), NEW v, Accepts(L, v), ~L.union
    PROVE  /\ KeyField(L) \in DOMAIN L.fields
           /\ L.varsize => Stated(L, KeyField(L), v)
<1>1. KeyField(L) \in DOMAIN L.fields
      BY WellMadeFacts DEF KeyField
<1>2. CASE L.count # 0
      BY <1>1, <1>2, AcceptedCount DEF KeyField, Stated, Given
<1>3. CASE L.varsize /\ L.count = 0
  <2>1. LastField(L).name \in DOMAIN v.dict
        BY <1>3, AcceptedTail
  <2> QED BY <1>1, <1>3, <2>1 DEF KeyField, Stated, Given, LastField
<1> QED BY <1>1, <1>2, <1>3

\* Where the bytes of a struct are, there are those of its fields.
LEMMA FieldBytesHeld ==
    ASSUME NEW L, WellMade(L), NEW v, Accepts(L, v), ~L.union,
           NEW bytes, NEW at \in Nat, Holds(bytes, at, Image(L, v)),
           NEW i \in DOMAIN L.fields, Stated(L, i, v) \/ FitsInt(L, v)
    PROVE  /\ at + L.offsets[i] \in Nat
           /\ Holds(bytes, at + L.offsets[i], FieldBytes(L, i, v))
<1>1. L.offsets[i] \in Nat
      BY WellMadeFacts
<1>2. ASSUME NEW k \in DOMAIN FieldBytes(L, i, v)
      PROVE  /\ at + L.offsets[i] + k \in DOMAIN bytes
             /\ bytes[at + L.offsets[i] + k] = FieldBytes(L, i, v)[k]
  <2>1. k \in Int
    <3>1. Room(L, i, v) \in Nat
          BY FieldRooms
    <3> QED BY <3>1, FieldBytesWithin DEF Within
  <2>2. at + L.offsets[i] + k = at + (L.offsets[i] + k)
        BY <1>1, <2>1
  <2>3. /\ L.offsets[i] + k \in DOMAIN Image(L, v)
        /\ Image(L, v)[L.offsets[i] + k] = FieldBytes(L, i, v)[k]
        BY ImageOfFields
  <2> QED BY <2>2, <2>3 DEF Holds
<1> QED BY <1>1, <1>2 DEF Holds

\* A struct reads back as the value it was written for, and has the size it had.
LEMMA ImageReadBack ==
    ASSUME NEW L, WellMade(L), NEW v, Accepts(L, v)
    PROVE  ReadsImage(L, v)
<1> SUFFICES ASSUME NEW bytes, NEW at \in Nat, Holds(bytes, at, Image(L, v))
             PROVE  /\ FitsInt(L, v) => ToObj(L, bytes, at) = Normal(L, v)
                    /\ RoomForNative(L, bytes, at) = RoomForObj(L, v)
    BY DEF ReadsImage
<1>1. CASE L.union
  <2>1. v \in [bytes : Seq(Byte)] /\ Len(v.bytes) = L.size
        BY <1>1 DEF Accepts, IsBin
  <2>2. Image(L, v) = [k \in 0 .. L.size - 1 |-> v.bytes[k + 1]]
        BY <1>1 DEF Image
  <2>3. L.size \in Nat /\ ~L.varsize
        BY <1>1, WellMadeFacts
  <2>4. \A k \in 1 .. L.size : bytes[at + k - 1] = v.bytes[k]
    <3> TAKE k \in 1 .. L.size
    <3>1. k - 1 \in 0 .. L.size - 1 /\ k - 1 + 1 = k /\ at + (k - 1) = at + k - 1
          BY <2>3
    <3>2. k - 1 \in DOMAIN Image(L, v) /\ Image(L, v)[k - 1] = v.bytes[k]
          BY <2>2, <3>1
    <3>3. bytes[at + (k - 1)] = Image(L, v)[k - 1]
          BY <3>2 DEF Holds
    <3> QED BY <3>1, <3>2, <3>3
  <2>5. v.bytes \in Seq(Byte) /\ v = [bytes |-> v.bytes]
        BY <2>1
  <2>6. v.bytes = [k \in 1 .. L.size |-> v.bytes[k]]
        BY <2>1, <2>5
  <2>7. [k \in 1 .. L.size |-> bytes[at + k - 1]] = [k \in 1 .. L.size |-> v.bytes[k]]
        BY <2>4
  <2>8. ToObj(L, bytes, at) = Bin([k \in 1 .. L.size |-> bytes[at + k - 1]])
        BY <1>1 DEF ToObj
  <2>9. ToObj(L, bytes, at) = v
        BY <2>5, <2>6, <2>7, <2>8 DEF Bin
  <2> QED BY <1>1, <2>3, <2>9 DEF Normal, RoomForNative, RoomForObj
<1>2. CASE ~L.union
  <2>1. ASSUME NEW i \in DOMAIN L.fields, Stated(L, i, v) \/ FitsInt(L, v)
        PROVE  /\ at + L.offsets[i] \in Nat
               /\ Holds(bytes, at + L.offsets[i], FieldBytes(L, i, v))
        BY <1>2, <2>1, FieldBytesHeld
  <2>2. KeyField(L) \in DOMAIN L.fields /\ (L.varsize => Stated(L, KeyField(L), v))
        BY <1>2, KeyFieldStated
  <2>3. /\ RoomForNative(L, bytes, at) = RoomForObj(L, v)
        /\ L.count # 0 => NativeCount(L, bytes, at) = ObjCount(L, v)
        BY <1>2, <2>1, <2>2, SizeReadBack
  <2> DEFINE Value(i) == FieldToObj(L.fields[i], bytes, at + L.offsets[i],
                                    NativeArrayCount(L, i, bytes, at))
  <2>4. ASSUME FitsInt(L, v), NEW i \in DOMAIN L.fields
        PROVE  Value(i) = NormalValue(L, i, v)
    <3>1. NativeArrayCount(L, i, bytes, at) = ArrayCount(L, i, v)
          BY <1>2, <2>3, NativeArrayCountReadBack
    <3> QED BY <1>2, <2>1, <2>4, <3>1, FieldReadBack
  <2>5. ToObj(L, bytes, at) = Dict([name \in Names(L) |-> Value(FindField(L, name))])
        BY <1>2 DEF ToObj
  <2>6. Normal(L, v) = Dict([name \in Names(L) |-> NormalValue(L, FindField(L, name), v)])
        BY <1>2 DEF Normal, NormalValue
  <2> HIDE DEF Value
  <2>7. FitsInt(L, v) => [name \in Names(L) |-> Value(FindField(L, name))]
            = [name \in Names(L) |-> NormalValue(L, FindField(L, name), v)]
        BY <2>4, FieldFound
  <2> QED BY <2>3, <2>5, <2>6, <2>7
<1> QED BY <1>1, <1>2

LEMMA ZerosReadBack ==
    ASSUME NEW L, WellMade(L), ~L.varsize
    PROVE  ReadsZeros(L)
<1> SUFFICES ASSUME NEW bytes, NEW at \in Nat, Zeroed(bytes, at, L.size)
             PROVE  ToObj(L, bytes, at) = ZeroStruct(L)
    BY DEF ReadsZeros
<1>1. CASE L.union
  <2>1. \A k \in 1 .. L.size : bytes[at + k - 1] = 0
    <3> TAKE k \in 1 .. L.size
    <3>1. L.size \in Nat
          BY WellMadeFacts
    <3>2. k - 1 \in 0 .. L.size - 1 /\ at + (k - 1) = at + k - 1
          BY <3>1
    <3>3. bytes[at + (k - 1)] = 0
          BY <3>2 DEF Zeroed
    <3> QED BY <3>2, <3>3
  <2>2. [k \in 1 .. L.size |-> bytes[at + k - 1]] = [k \in 1 .. L.size |-> 0]
        BY <2>1
  <2> QED BY <1>1, <2>2 DEF ToObj, ZeroStruct
<1>2. CASE ~L.union
  <2> DEFINE Value(i) == FieldToObj(L.fields[i], bytes, at + L.offsets[i],
                                    NativeArrayCount(L, i, bytes, at))
             Zero(i) == ZeroField(L.fields[i], L.fields[i].array)
  <2>1. ASSUME NEW i \in DOMAIN L.fields
        PROVE  Value(i) = Zero(i)
    <3> DEFINE f == L.fields[i]
    <3>1. ~VariableSize(f)
          BY WellMadeFacts
    <3>2. NativeArrayCount(L, i, bytes, at) = f.array /\ ~f.base.varsize
          BY <3>1 DEF NativeArrayCount, VariableSize
    <3>3. /\ L.offsets[i] \in Nat /\ FieldSize(f) \in Nat
          /\ L.offsets[i] + FieldSize(f) <= L.size /\ L.size \in Nat
          /\ f.array \in Int /\ f.array >= -1
          BY WellMadeFacts DEF Scalar
    <3>4. ElementCount(f, f.array)
          BY <3>3 DEF ElementCount, Scalar
    <3>5. Zeroed(bytes, at + L.offsets[i], FieldSize(f))
      <4> SUFFICES ASSUME NEW k \in 0 .. FieldSize(f) - 1
                   PROVE  /\ at + L.offsets[i] + k \in DOMAIN bytes
                          /\ bytes[at + L.offsets[i] + k] = 0
          BY DEF Zeroed
      <4> HIDE DEF f
      <4>1. L.offsets[i] + k \in 0 .. L.size - 1
            BY <3>3
      <4>2. at + L.offsets[i] + k = at + (L.offsets[i] + k)
            BY <3>3
      <4> QED BY <4>1, <4>2 DEF Zeroed
    <3>6. Zeroed(bytes, at + L.offsets[i],
                 IF f.array = Scalar THEN f.base.size ELSE f.array * f.base.size)
          BY <3>5 DEF FieldSize
    <3>7. FieldFaithful(f) /\ at + L.offsets[i] \in Nat
          BY <3>3 DEF WellMade
    <3>8. FieldToObj(f, bytes, at + L.offsets[i], f.array) = ZeroField(f, f.array)
          BY <3>2, <3>4, <3>6, <3>7, FieldReadsZeros
    <3> QED BY <3>2, <3>8
  <2>2. ToObj(L, bytes, at) = Dict([name \in Names(L) |-> Value(FindField(L, name))])
        BY <1>2 DEF ToObj
  <2>3. ZeroStruct(L) = Dict([name \in Names(L) |-> Zero(FindField(L, name))])
        BY <1>2 DEF ZeroStruct
  <2> HIDE DEF Value, Zero
  <2>4. [name \in Names(L) |-> Value(FindField(L, name))]
            = [name \in Names(L) |-> Zero(FindField(L, name))]
        BY <2>1, FieldFound
  <2> QED BY <2>2, <2>3, <2>4
<1> QED BY <1>1, <1>2

LEMMA SizeOfCount ==
    ASSUME NEW L, WellMade(L), NEW n \in Nat
    PROVE  SizeOK(RoomForVLACount(L, n), L.size, L.varsize)
<1>1. L.size \in Nat /\ L.varsize \in BOOLEAN
      BY WellMadeFacts
<1>2. CASE ~L.varsize
      BY <1>1, <1>2 DEF RoomForVLACount, SizeOK
<1>3. CASE L.varsize
  <2> DEFINE base == LastField(L).base
  <2>1. base.size \in Nat
        BY WellMadeFacts
  <2>2. PICK tail \in Nat : RoomForVLACount(L, n) = Extended(L, tail)
    <3>1. CASE L.count # 0
      <4>1. RoomForVLACount(L, n) = Extended(L, n * base.size)
            BY <1>3, <3>1 DEF RoomForVLACount
      <4> HIDE DEF base
      <4>2. n * base.size \in Nat
            BY <2>1
      <4> QED BY <4>1, <4>2
    <3>2. CASE L.count = 0
      <4> DEFINE inner == NestedRoomForVLACount(base.layout, n)
      <4>1. base.varsize /\ BaseFaithful(base)
            BY <1>3, <3>2, WellMadeFacts DEF WellMade, FieldFaithful
      <4>2. StructBase(base)
            BY <4>1 DEF BaseFaithful, NumberBase
      <4>3. SizeOK(RoomForVLACount(base.layout, n), base.size, base.varsize)
            BY <4>2 DEF StructBase, Faithful
      <4>4. inner \in Nat /\ inner >= base.size
            BY <4>2, <4>3 DEF StructBase, Alike, SizeOK
      <4>5. RoomForVLACount(L, n) = Extended(L, inner - base.size)
            BY <1>3, <3>2 DEF RoomForVLACount
      <4> HIDE DEF inner, base
      <4>6. inner - base.size \in Nat
            BY <2>1, <4>4
      <4> QED BY <4>5, <4>6
    <3> QED BY <3>1, <3>2
  <2>3. Extended(L, tail) \in Nat /\ L.size + tail <= Extended(L, tail)
        BY ExtendedFacts
  <2> QED BY <1>1, <1>3, <2>2, <2>3 DEF SizeOK
<1> QED BY <1>1, <1>2, <1>3

\* So the conversions of a layout keep their promise, if those of the structs nested in
\* it do.
LEMMA WellMadeIsFaithful ==
    ASSUME NEW L, WellMade(L)
    PROVE  Faithful(L)
<1>1. ASSUME NEW v, Accepts(L, v)
      PROVE  /\ SizeOK(RoomForObj(L, v), L.size, L.varsize)
             /\ Within(Image(L, v), RoomForObj(L, v), Byte)
             /\ ReadsImage(L, v)
  <2>1. SizeOK(RoomForObj(L, v), L.size, L.varsize) /\ ReadsImage(L, v)
        BY <1>1, SizeOfAccepted, ImageReadBack
  <2>2. CASE ~L.union
        BY <1>1, <2>1, <2>2, ImageOfFields
  <2>3. CASE L.union
    <3>1. v.bytes \in Seq(Byte) /\ Len(v.bytes) = L.size
          BY <1>1, <2>3 DEF Accepts, IsBin
    <3>2. Image(L, v) = [k \in 0 .. L.size - 1 |-> v.bytes[k + 1]]
          BY <2>3 DEF Image
    <3>3. RoomForObj(L, v) = L.size /\ L.size \in Nat
          BY <2>3, WellMadeFacts DEF RoomForObj
    <3>4. \A k \in 0 .. L.size - 1 : v.bytes[k + 1] \in Byte
          BY <3>1, <3>3
    <3> QED BY <2>1, <3>2, <3>3, <3>4 DEF Within
  <2> QED BY <2>2, <2>3
<1> QED BY <1>1, ZerosReadBack, SizeOfCount DEF Faithful

-----------------------------------------------------------------------------
(***************************************************************************)
(* The commands.  Layouts are well made in every state, since one refers   *)
(* only to those that were there before it.                                *)
(***************************************************************************)
\* What the code calls for the structs nested in the layouts that the commands make.
NestedAlike == \A L : WellMade(L) => Alike(L)

FieldMade(f) ==
    /\ FieldFaithful(f)
    /\ f.base.integer => NumberBase(f.base)
    /\ f.init = "structsize" => f.array = Scalar /\ NumberBase(f.base)

FieldsMade(d) == \A i \in DOMAIN d.fields : FieldMade(d.fields[i])

MadeInv ==
    /\ TableInv
    /\ \A name \in StructName : structs[name] # None => WellMade(structs[name])
    /\ stage = "placing" => FieldsMade(def)

LEMMA ResolvedMade ==
    ASSUME NestedAlike, MadeInv, NEW name \in StructName, NEW source \in Sources[name],
           Resolvable(source)
    PROVE  FieldsMade(Resolve(source))
<1> DEFINE FieldOf(i) == [source.fields[i] EXCEPT !.base = Resolved(source.fields[i].base)]
<1>1. SourceShape(source)
      BY TableAssumption
<1>2. \A i \in DOMAIN source.fields : FieldConverts(source.fields[i])
      BY StructAssumption
<1>3. ASSUME NEW i \in DOMAIN source.fields
      PROVE  FieldMade(FieldOf(i))
  <2> DEFINE f == source.fields[i]
             base == f.base
             g == FieldOf(i)
  <2>1. SourceFieldShape(f) /\ FieldConverts(f)
        BY <1>1, <1>2 DEF SourceShape
  <2>2. g.array = f.array /\ g.init = f.init /\ g.base = Resolved(base)
        BY <2>1 DEF SourceFieldShape
  <2>3. g.array \in Int /\ g.array >= Scalar
        BY <2>1, <2>2 DEF SourceFieldShape
  <2>4. CASE base.of \notin StructName
    <3>1. g.base = base
          BY <2>2, <2>4 DEF Resolved
    <3>2. /\ base.of = "num" /\ base.signed \in BOOLEAN /\ ~base.varsize
          /\ base.size \in Nat \ {0}
          BY <2>1, <2>4 DEF SourceFieldShape, FieldConverts, BaseShape
    <3>3. NumberBase(g.base) /\ g.base.size \in Nat \ {0} /\ ~g.base.varsize
          BY <3>1, <3>2 DEF NumberBase
    <3>4. g.init = "structsize" => g.array = Scalar
          BY <2>1, <2>2 DEF FieldConverts
    <3> HIDE DEF g
    <3> QED BY <2>3, <3>3, <3>4 DEF FieldMade, FieldFaithful, BaseFaithful, g
  <2>5. CASE base.of \in StructName
    <3> DEFINE L == structs[base.of]
    <3>1. /\ g.base.of = base.of /\ g.base.size = L.size /\ g.base.varsize = L.varsize
          /\ g.base.integer = FALSE /\ g.base.layout = L
          BY <2>2, <2>5 DEF Resolved
    <3>2. L # None /\ (L.varsize => f.array = Scalar)
          BY <2>5 DEF Resolvable
    <3>3. WellMade(L)
          BY <2>5, <3>2 DEF MadeInv
    <3>4. Alike(L) /\ Faithful(L) /\ L.size \in Nat \ {0}
          BY <3>3, WellMadeIsFaithful, WellMadeFacts DEF NestedAlike
    <3>5. base.of # "num"
          BY <2>5, StructAssumption
    <3>6. f.init # "structsize"
          BY <2>1, <3>5 DEF FieldConverts
    <3> HIDE DEF g, L, f
    <3>7. StructBase(g.base) /\ g.base.size \in Nat \ {0}
          BY <3>1, <3>4, <3>5 DEF StructBase
    <3> QED BY <2>2, <2>3, <3>1, <3>2, <3>6, <3>7
            DEF FieldMade, FieldFaithful, BaseFaithful, g
  <2> QED BY <2>4, <2>5
<1>4. Resolve(source).fields = [i \in DOMAIN source.fields |-> FieldOf(i)]
      BY <1>1 DEF SourceShape, Resolve
<1> HIDE DEF FieldOf
<1> QED BY <1>3, <1>4 DEF FieldsMade

LEMMA LayoutIsWellMade ==
    ASSUME LayoutInv, AllPlaced, TrailerAccepted(def), FieldsMade(def)
    PROVE  WellMade(Layout)
<1> DEFINE L == Layout
<1>1. /\ LayoutGood(L) /\ LayoutPlaced(L)
      BY LayoutIsGood
<1>2. /\ L.union = def.union /\ L.fields = def.fields /\ L.count = CountIndex(def)
      /\ L.varsize = VariableSize(LastField(def))
      /\ L.offsets = [i \in DOMAIN places |-> places[i].offset]
      BY DEF Layout
<1>3. DefinitionShape(def) /\ FieldsAccepted(def) /\ places \in Seq(Place)
      BY DEF LayoutInv, LayoutTypeOK, AllPlaced
<1>4. /\ Len(places) = Len(def.fields)
      /\ DOMAIN def.fields = 1 .. Len(def.fields) /\ DOMAIN places = DOMAIN def.fields
      BY <1>3, DefinitionFields DEF AllPlaced
<1>5. L.varsize = VariableSize(LastField(L))
      BY <1>2 DEF LastField
<1>6. \A i, j \in DOMAIN L.fields : i # j => L.fields[i].name # L.fields[j].name
      BY <1>2, <1>3 DEF FieldsAccepted
<1>7. \A i \in DOMAIN L.fields :
          /\ L.offsets[i] = places[i].offset
          /\ L.union => L.offsets[i] = 0
          /\ EndOf(places[i]) = L.offsets[i] + FieldSize(L.fields[i])
      BY <1>2, <1>4 DEF LayoutInv, AllPlaced, EachInPlace, EndOf
<1>8. ~L.union => \A i, j \in DOMAIN L.fields :
                     i < j => L.offsets[i] + FieldSize(L.fields[i]) <= L.offsets[j]
  <2> SUFFICES ASSUME ~L.union, NEW i \in DOMAIN L.fields, NEW j \in DOMAIN L.fields, i < j
               PROVE  L.offsets[i] + FieldSize(L.fields[i]) <= L.offsets[j]
      OBVIOUS
  <2>1. EndOf(places[i]) <= places[j].offset
        BY <1>2, <1>4 DEF LayoutInv, AllPlaced, OneAfterAnother
  <2>2. EndOf(places[i]) = L.offsets[i] + FieldSize(L.fields[i]) /\ L.offsets[j] = places[j].offset
        BY <1>7
  <2> HIDE DEF L
  <2> QED BY <2>1, <2>2
<1>9. \A i \in DOMAIN L.fields : VariableSize(L.fields[i]) => i = Len(L.fields) /\ ~L.union
      BY <1>2, <1>3 DEF FieldsAccepted
<1>10. \A i \in DOMAIN L.fields :
          /\ FieldFaithful(L.fields[i])
          /\ L.fields[i].base.integer => NumberBase(L.fields[i].base)
          /\ L.fields[i].init = "structsize" =>
                L.fields[i].array = Scalar /\ NumberBase(L.fields[i].base)
      BY <1>2 DEF FieldsMade, FieldMade
<1>11. L.count # 0 => L.fields[L.count].array = Scalar /\ NumberBase(L.fields[L.count].base)
  <2> SUFFICES ASSUME CountIndex(def) # 0
               PROVE  /\ def.fields[CountIndex(def)].array = Scalar
                      /\ NumberBase(def.fields[CountIndex(def)].base)
      BY <1>2
  <2>1. /\ CountIndex(def) \in 0 .. Len(def.fields) - 1
        /\ def.fields[CountIndex(def)].base.integer
        /\ def.fields[CountIndex(def)].array = Scalar
        BY <1>3, CountFieldFound
  <2>2. CountIndex(def) \in DOMAIN def.fields
        BY <1>3, <1>4, <2>1, DefinitionFields
  <2> QED BY <2>1, <2>2 DEF FieldsMade, FieldMade
<1> HIDE DEF L
<1>12. WellMade(L)
      BY <1>1, <1>5, <1>6, <1>7, <1>8, <1>9, <1>10, <1>11 DEF WellMade
<1> QED BY <1>12 DEF L

LEMMA MadeStep ==
    ASSUME NestedAlike, MadeInv, [TableNext]_tableVars
    PROVE  MadeInv'
<1>1. TableInv'
      BY TableStep DEF MadeInv
<1>2. ASSUME NEW name \in StructName, NEW source \in Sources[name],
             StructCreate(name, source)
      PROVE  MadeInv'
  <2>1. FieldsMade(Resolve(source))
        BY <1>2, ResolvedMade DEF StructCreate
  <2>2. def' = Resolve(source) /\ structs' = structs
        BY <1>2 DEF StructCreate, StructParse
  <2> QED BY <1>1, <2>1, <2>2 DEF MadeInv, FieldsMade
<1>3. CASE PlaceNext
      BY <1>1, <1>3 DEF MadeInv, PlaceNext, PlaceField, FieldsMade
<1>4. CASE StructEnd
  <2>1. stage' = "idle" /\ AllPlaced /\ stage = "placing"
        BY <1>4 DEF StructEnd, ParseEnd, AllPlaced
  <2>2. target \in StructName /\ LayoutInv /\ FieldsMade(def) /\ DOMAIN structs = StructName
        BY <2>1 DEF MadeInv, TableInv, LayoutsGood
  <2>3. CASE TrailerAccepted(def)
    <3>1. WellMade(Layout)
          BY <2>1, <2>2, <2>3, LayoutIsWellMade
    <3>2. structs' = [structs EXCEPT ![target] = Layout]
          BY <1>4, <2>3 DEF StructEnd
    <3> QED BY <1>1, <2>1, <2>2, <3>1, <3>2 DEF MadeInv
  <2>4. CASE ~TrailerAccepted(def)
    <3>1. structs' = structs
          BY <1>4, <2>4 DEF StructEnd
    <3> QED BY <1>1, <2>1, <3>1 DEF MadeInv
  <2> QED BY <2>3, <2>4
<1>5. ASSUME NEW name \in StructName, StructDestroy(name)
      PROVE  MadeInv'
  <2>1. /\ stage' = stage /\ def' = def /\ structs' = [structs EXCEPT ![name] = None]
        /\ DOMAIN structs = StructName
        BY <1>5 DEF StructDestroy, layoutVars, MadeInv, TableInv, LayoutsGood
  <2> QED BY <1>1, <2>1 DEF MadeInv, FieldsMade
<1>6. CASE UNCHANGED tableVars
      BY <1>1, <1>6 DEF tableVars, MadeInv, FieldsMade
<1> QED BY <1>2, <1>3, <1>4, <1>5, <1>6 DEF TableNext

\* A value is converted to a binary and back, and a field of a union is.
LEMMA StructBinary ==
    ASSUME NEW L, WellMade(L), ~L.union, NEW v, Accepts(L, v)
    PROVE  LET b    == ToBinary(L, v)
               size == SizeForObj(L, v)
           IN  /\ L.count # 0 => size = SizeForVLACount(L, ObjCount(L, v))
               /\ SizeForNative(L, b, 0) = size
               /\ FitsInt(L, v) =>
                     /\ DOMAIN b = 0 .. size - 1
                     /\ \A len \in 0 .. size : FromBinaryAccepts(L, b, len) <=> len = size
                     /\ ToObj(L, b, 0) = Normal(L, v)
<1> DEFINE b == ToBinary(L, v)
           size == SizeForObj(L, v)
           room == RoomForObj(L, v)
<1>1. Faithful(L)
      BY WellMadeIsFaithful
<1>2. SizeOK(room, L.size, L.varsize) /\ Within(Image(L, v), room, Byte) /\ ReadsImage(L, v)
      BY <1>1 DEF Faithful
<1>3. size = AsInt(L, room) /\ (FitsInt(L, v) => size = room)
  <2>1. room \in Nat
        BY <1>2 DEF SizeOK
  <2>2. (L.varsize => room <= IntMax) => AsInt(L, room) = room
    <3> HIDE DEF room
    <3> QED BY <2>1, SizeOfRoom
  <2> QED BY <2>2 DEF SizeForObj, FitsInt
<1>4. Holds(b, 0, Image(L, v))
  <2>1. \A k \in DOMAIN Image(L, v) : k \in Int /\ 0 + k = k
        BY <1>2 DEF Within, SizeOK
  <2> QED BY <2>1 DEF ToBinary, Over, Holds
<1>5. RoomForNative(L, b, 0) = room /\ (FitsInt(L, v) => ToObj(L, b, 0) = Normal(L, v))
      BY <1>2, <1>4 DEF ReadsImage
<1>6. SizeForNative(L, b, 0) = size
  <2> HIDE DEF b, size, room
  <2> QED BY <1>3, <1>5 DEF SizeForNative
<1>7. L.count # 0 => size = SizeForVLACount(L, ObjCount(L, v))
  <2> SUFFICES ASSUME L.count # 0 PROVE room = RoomForVLACount(L, ObjCount(L, v))
      BY <1>3 DEF SizeForVLACount
  <2>1. ObjCount(L, v) \in Nat /\ L.varsize
        BY AcceptedCount, WellMadeFacts
  <2>2. room = Extended(L, ObjCount(L, v) * LastField(L).base.size)
        BY AcceptedCount
  <2> QED BY <2>1, <2>2 DEF RoomForVLACount
<1>8. ASSUME FitsInt(L, v)
      PROVE  /\ DOMAIN b = 0 .. size - 1
             /\ \A len \in 0 .. size : FromBinaryAccepts(L, b, len) <=> len = size
  <2>1. size \in Nat /\ size >= L.size /\ L.size \in Nat /\ size # Fails
        /\ Within(Image(L, v), size, Byte)
        BY <1>2, <1>3, <1>8, WellMadeFacts, StructAssumption DEF SizeOK, Fails
  <2>2. DOMAIN b = 0 .. size - 1
    <3>1. \A k \in DOMAIN Image(L, v) : k \in 0 .. size - 1
          BY <2>1 DEF Within
    <3>2. DOMAIN b = DOMAIN Image(L, v) \cup (0 .. size - 1)
          BY DEF ToBinary, Over, Fill
    <3> HIDE DEF b, size
    <3> QED BY <3>1, <3>2
  <2>3. \A len \in 0 .. size : FromBinaryAccepts(L, b, len) <=> len = size
    <3> HIDE DEF size, b
    <3> QED BY <1>6, <2>1 DEF FromBinaryAccepts
  <2> QED BY <2>2, <2>3
<1> QED BY <1>5, <1>6, <1>7, <1>8

LEMMA UnionBinary ==
    ASSUME NEW L, WellMade(L), L.union, NEW i \in DOMAIN L.fields,
           NEW v, FieldAccepts(L.fields[i], v, L.fields[i].array)
    PROVE  /\ DOMAIN UnionEncode(L, i, v) = 0 .. L.size - 1
           /\ UnionDecode(L, i, UnionEncode(L, i, v))
                  = NormalField(L.fields[i], v, L.fields[i].array)
<1> DEFINE f == L.fields[i]
           image == FieldImage(f, v, f.array, FALSE)
           b == UnionEncode(L, i, v)
<1>1. FieldFaithful(f) /\ L.offsets[i] = 0 /\ ~VariableSize(f)
      BY DEF WellMade
<1>2. /\ FieldSize(f) \in Nat /\ L.offsets[i] + FieldSize(f) <= L.size
      /\ L.size \in Nat /\ f.array \in Int /\ f.array >= -1
      BY WellMadeFacts DEF Scalar
<1>3. ElementCount(f, f.array)
      BY <1>2 DEF ElementCount, Scalar
<1>4. Within(image, FieldExtent(f, v, f.array), Byte)
      BY <1>1, <1>3, FieldWritten
<1>5. FieldExtent(f, v, f.array) = FieldSize(f)
  <2>1. CASE f.array = Scalar
    <3>1. ElemAccepts(f.base, v) /\ BaseFaithful(f.base) /\ ~f.base.varsize
          BY <1>1, <2>1 DEF FieldAccepts, FieldFaithful, VariableSize
    <3>2. ElemSize(f.base, v) = f.base.size
          BY <3>1, ElemMeasures DEF SizeOK
    <3> QED BY <2>1, <3>2 DEF FieldExtent, FieldSize
  <2>2. CASE f.array # Scalar
        BY <2>2 DEF FieldExtent, FieldSize
  <2> QED BY <2>1, <2>2
<1>6. \A k \in DOMAIN image : k \in 0 .. L.size - 1
  <2> HIDE DEF image, f
  <2>1. \A k \in DOMAIN image : k \in 0 .. FieldSize(f) - 1
        BY <1>4, <1>5 DEF Within
  <2> QED BY <1>1, <1>2, <2>1
<1>7. b = Over(image, Fill(L.size, Junk))
      BY DEF UnionEncode
<1> HIDE DEF b, image
<1>8. DOMAIN b = 0 .. L.size - 1
      BY <1>6, <1>7 DEF Over, Fill
<1>9. Holds(b, 0, image)
  <2>1. \A k \in DOMAIN image : 0 + k = k
        BY <1>2, <1>6
  <2> QED BY <1>7, <2>1 DEF Over, Holds
<1>10. FieldToObj(f, b, 0, f.array) = NormalField(f, v, f.array)
  <2> DEFINE temp == FALSE
  <2>1. Holds(b, 0, FieldImage(f, v, f.array, temp)) /\ 0 \in Nat
        BY <1>9 DEF image
  <2>2. f.array = Scalar => ElemFits(f.base, v)
        BY <1>1 DEF VariableSize, ElemFits
  <2> HIDE DEF temp, f
  <2> QED BY <1>1, <1>3, <2>1, <2>2, FieldReads DEF f
<1> QED BY <1>1, <1>8, <1>10 DEF UnionDecode, b

LEMMA MadeInitially == StructInit => MadeInv
<1>1. TableInit => TableInv
      BY LayoutInitially DEF TableInit, TableInv, LayoutsGood, LayoutInit
<1> QED BY <1>1 DEF StructInit, TableInit, LayoutInit, MadeInv

LEMMA MadeKept ==
    ASSUME NestedAlike, MadeInv, [StructNext]_structVars
    PROVE  MadeInv'
<1>1. [TableNext]_tableVars
      BY DEF StructNext, Define, StructNewCmd, StructAllocateCmd, ToNative, SetNative,
             CalleeFills, StructFreeCmd, structVars
<1> QED BY <1>1, MadeStep

\* Binaries are inverse to the dictionaries they are made from, have exactly their size
\* and are taken only whole, for every definition and nesting and for every value whose
\* size is a number that fits an int.  The ways to compute that size agree for every value
\* (CffiStructToBinaryCmd, CffiStructFromBinaryCmd, CffiStructSizeForVLACount).
THEOREM BinariesRoundTrip ==
    ASSUME NestedAlike
    PROVE  StructSpec => []BinaryRoundTrip
<1>1. ASSUME MadeInv PROVE BinaryRoundTrip
  <2>1. \A name \in {s \in StructName : structs[s] # None} : WellMade(structs[name])
        BY <1>1 DEF MadeInv
  <2> QED BY <2>1, StructBinary, UnionBinary DEF BinaryRoundTrip
<1> QED BY <1>1, MadeInitially, MadeKept, PTL DEF StructSpec

\* The bytes that a struct of variable size has beyond its fixed part: the elements of its
\* trailing array, or what the struct nested last has beyond its own.
TailSize(L, n) ==
    LET base == LastField(L).base
    IN  IF L.count # 0 THEN n * base.size
        ELSE NestedRoomForVLACount(base.layout, n) - base.size

\* The size computed for n trailing elements holds the fixed part and the tail exactly when
\* the bytes they need, rounded up to the alignment, are a number that fits an int: the
\* code adds and multiplies ints without a check.  For every definition, nesting and n that
\* a script can give (CffiStructSizeForVLACount, Struct.c:257-287).
TailsHeld ==
    \A name \in StructName : structs[name] # None /\ structs[name].varsize =>
        LET L == structs[name] IN
        \A n \in 0 .. IntMax :
            /\ L.size + TailSize(L, n) <= SizeForVLACount(L, n)
                   <=> RoomForVLACount(L, n) <= IntMax
            /\ RoomForVLACount(L, n) % L.align = 0

\* Rounding an int up to an alignment leads at most one beyond the largest int.
LEMMA RoundedToInt ==
    ASSUME NEW n \in Nat, n <= IntMax, NEW a \in Alignments
    PROVE  RoundUp(n, a) <= IntMax + 1
<1> DEFINE m == IntMax + 1
           r == RoundUp(n, a)
<1>1. m \in Nat /\ n < m /\ m % 16 = 0
      BY StructAssumption
<1>2. m % a = 0
      BY <1>1, MultiplesNest DEF Alignments
<1>3. r \in Nat /\ r % a = 0 /\ r < n + a
      BY RoundUpFacts
<1> HIDE DEF m, r
<1>4. r < m + a
      BY <1>1, <1>3 DEF Alignments
<1>5. r <= m
  <2>1. CASE a = 1   BY <1>1, <1>2, <1>3, <1>4, <2>1
  <2>2. CASE a = 2   BY <1>1, <1>2, <1>3, <1>4, <2>2
  <2>3. CASE a = 4   BY <1>1, <1>2, <1>3, <1>4, <2>3
  <2>4. CASE a = 8   BY <1>1, <1>2, <1>3, <1>4, <2>4
  <2>5. CASE a = 16  BY <1>1, <1>2, <1>3, <1>4, <2>5
  <2> QED BY <2>1, <2>2, <2>3, <2>4, <2>5 DEF Alignments
<1> QED BY <1>5 DEF m, r

\* A room that is just too large for an int becomes the smallest int, and every other
\* that is too large loses more than the rounding added.
LEMMA HeldIffInt ==
    ASSUME NEW L, WellMade(L), NEW tail \in Nat
    PROVE  L.size + tail <= ToInt(Extended(L, tail)) <=> Extended(L, tail) <= IntMax
<1> DEFINE x == L.size + tail
           room == Extended(L, tail)
<1>1. x \in Nat /\ room \in Nat /\ x <= room /\ room = RoundUp(x, L.align)
      /\ L.align \in Alignments /\ IntMax \in Nat
  <2>1. L.size \in Nat /\ L.align \in Alignments
        BY WellMadeFacts
  <2> QED BY <2>1, ExtendedFacts, StructAssumption DEF Extended
<1> HIDE DEF x, room
<1>2. CASE room <= IntMax
  <2>1. ToInt(room) = room
        BY <1>1, <1>2, ToIntFacts
  <2> QED BY <1>1, <1>2, <2>1 DEF x, room
<1>3. CASE ~(room <= IntMax)
  <2>1. CASE x <= IntMax
    <3>1. room = IntMax + 1
          BY <1>1, <1>3, <2>1, RoundedToInt
    <3>2. ToInt(room) < 0
      <4> DEFINE values == 2 * (IntMax + 1)
      <4>1. values \in Nat \ {0} /\ room < values /\ room > IntMax /\ room - values < 0
            BY <1>1, <3>1
      <4>2. ToInt(room) = IF room % values > IntMax THEN (room % values) - values ELSE room % values
            BY DEF ToInt
      <4> HIDE DEF values
      <4>3. room % values = room
        <5>1. (0 * values + room) % values = room
              BY <1>1, <4>1, DivisionUnique
        <5>2. 0 * values + room = room
              BY <1>1, <4>1
        <5> QED BY <5>1, <5>2
      <4> QED BY <4>1, <4>2, <4>3
    <3>3. ToInt(room) \in Int
          BY <1>1, ToIntFacts
    <3> QED BY <1>1, <1>3, <3>2, <3>3 DEF x, room
  <2>2. CASE ~(x <= IntMax)
    <3>1. ToInt(room) \in Int /\ ToInt(room) <= IntMax
          BY <1>1, ToIntFacts
    <3> QED BY <1>1, <1>3, <2>2, <3>1 DEF x, room
  <2> QED BY <2>1, <2>2
<1> QED BY <1>2, <1>3

LEMMA TailOfCount ==
    ASSUME NEW L, WellMade(L), L.varsize, NEW n \in Nat
    PROVE  /\ TailSize(L, n) \in Nat
           /\ RoomForVLACount(L, n) = Extended(L, TailSize(L, n))
<1> DEFINE base == LastField(L).base
<1>1. base.size \in Nat
      BY WellMadeFacts
<1>2. CASE L.count # 0
  <2>1. /\ TailSize(L, n) = n * base.size
        /\ RoomForVLACount(L, n) = Extended(L, n * base.size)
        BY <1>2 DEF TailSize, RoomForVLACount
  <2> HIDE DEF base
  <2>2. n * base.size \in Nat
        BY <1>1
  <2> QED BY <2>1, <2>2
<1>3. CASE L.count = 0
  <2> DEFINE inner == NestedRoomForVLACount(base.layout, n)
  <2>1. base.varsize /\ BaseFaithful(base)
        BY <1>3, WellMadeFacts DEF WellMade, FieldFaithful
  <2>2. StructBase(base)
        BY <2>1 DEF BaseFaithful, NumberBase
  <2>3. SizeOK(RoomForVLACount(base.layout, n), base.size, base.varsize)
        BY <2>2 DEF StructBase, Faithful
  <2>4. inner \in Nat /\ inner >= base.size
        BY <2>2, <2>3 DEF StructBase, Alike, SizeOK
  <2>5. /\ TailSize(L, n) = inner - base.size
        /\ RoomForVLACount(L, n) = Extended(L, inner - base.size)
        BY <1>3 DEF TailSize, RoomForVLACount
  <2> HIDE DEF inner, base
  <2>6. inner - base.size \in Nat
        BY <1>1, <2>4
  <2> QED BY <2>5, <2>6
<1> QED BY <1>2, <1>3

THEOREM TailsAlwaysHeld ==
    ASSUME NestedAlike
    PROVE  StructSpec => []TailsHeld
<1>1. ASSUME MadeInv PROVE TailsHeld
  <2> SUFFICES ASSUME NEW name \in StructName, structs[name] # None, structs[name].varsize,
                      NEW n \in 0 .. IntMax
               PROVE  LET L == structs[name] IN
                      /\ L.size + TailSize(L, n) <= SizeForVLACount(L, n)
                             <=> RoomForVLACount(L, n) <= IntMax
                      /\ RoomForVLACount(L, n) % L.align = 0
      BY DEF TailsHeld
  <2> DEFINE L == structs[name]
             tail == TailSize(L, n)
             room == RoomForVLACount(L, n)
  <2>1. WellMade(L) /\ L.varsize /\ n \in Nat
        BY <1>1, StructAssumption DEF MadeInv
  <2> HIDE DEF L
  <2>2. tail \in Nat /\ room = Extended(L, tail)
        BY <2>1, TailOfCount
  <2> HIDE DEF tail, room
  <2>3. room \in Nat /\ room % L.align = 0
    <3>1. L.size \in Nat /\ L.align \in Alignments /\ L.size + tail \in Nat
          BY <2>1, <2>2, WellMadeFacts
    <3> QED BY <2>2, <3>1, RoundUpFacts DEF Extended
  <2>4. SizeForVLACount(L, n) = ToInt(room)
    <3>1. room # Fails
          BY <2>3, StructAssumption DEF Fails
    <3> QED BY <2>1, <3>1 DEF SizeForVLACount, AsInt, room
  <2>5. L.size + tail <= ToInt(room) <=> room <= IntMax
        BY <2>1, <2>2, HeldIffInt
  <2> QED BY <2>3, <2>4, <2>5 DEF tail, room, L
<1> QED BY <1>1, MadeInitially, MadeKept, PTL DEF StructSpec

-----------------------------------------------------------------------------
(***************************************************************************)
(* The block.  That a field reads back what was stored is no invariant by  *)
(* itself: what is read may depend on bytes that another command writes.   *)
(* What is kept is that the block holds, in the room of the field, bytes   *)
(* that determine what is read, wherever they are.                         *)
(***************************************************************************)
Determines(image, f, value) ==
    \A bytes : \A at \in Nat :
        Holds(bytes, at, image) => FieldToObj(f, bytes, at, f.array) = value

FieldKept(L, i, bytes, at, value) ==
    value # Junk =>
        \E image : /\ Within(image, FieldSize(L.fields[i]), Byte \cup {Junk})
                   /\ Holds(bytes, at + L.offsets[i], image)
                   /\ Determines(image, L.fields[i], value)

\* For a trailing array, and for a struct that is nested last, that needs the field
\* that says how large it is.
TailOf(L, bytes, size, values, v) ==
    /\ Accepts(L, v) /\ RoomForObj(L, v) <= size
    /\ Holds(bytes, L.offsets[KeyField(L)], FieldBytes(L, KeyField(L), v))
    /\ Holds(bytes, L.offsets[Len(L.fields)], FieldBytes(L, Len(L.fields), v))
    /\ values[LastField(L).name] = NormalValue(L, Len(L.fields), v)

TailKept(L, bytes, size, values) ==
    L.varsize /\ (\/ values[L.fields[KeyField(L)].name] # Junk
                  \/ values[LastField(L).name] # Junk) =>
        \E v : TailOf(L, bytes, size, values, v)

Fenced(bytes, size) ==
    /\ size \in Nat /\ size <= MaxBytes
    /\ DOMAIN bytes = 0 .. MaxBytes - 1
    /\ \A k \in 0 .. MaxBytes - 1 : k >= size <=> bytes[k] = Fence

Sized(L, count, size) ==
    /\ count \in Nat \ {0} /\ size \in Nat /\ size <= IntMax
    /\ IF L.varsize THEN count = 1 /\ L.size <= size ELSE size = L.size * count

ValuesKept(L, count, bytes, values) ==
    /\ DOMAIN values = 0 .. count - 1
    /\ \A index \in 0 .. count - 1 :
          /\ values[index] = [name \in Names(L) |-> values[index][name]]
          /\ \A i \in DOMAIN L.fields : ~VariableSize(L.fields[i]) =>
                FieldKept(L, i, bytes, L.size * index, values[index][L.fields[i].name])

BlockKept(L, count, size, bytes, values) ==
    /\ ~L.union
    /\ Sized(L, count, size)
    /\ Fenced(bytes, size)
    /\ ValuesKept(L, count, bytes, values)
    /\ TailKept(L, bytes, size, values[0])

BlockInv ==
    /\ MadeInv
    /\ block # None => block.struct \in StructName /\ Here # None
    /\ InUse => /\ block.size = block.room
                /\ BlockKept(Here, block.count, block.size, mem, known)

\* What a command stores for a whole struct is kept.
LEMMA FieldOfName ==
    ASSUME NEW L, WellMade(L), NEW i \in DOMAIN L.fields
    PROVE  L.fields[i].name \in Names(L) /\ FindField(L, L.fields[i].name) = i
<1>1. L.fields[i].name \in Names(L)
      BY DEF Names
<1>2. /\ FindField(L, L.fields[i].name) \in DOMAIN L.fields
      /\ L.fields[FindField(L, L.fields[i].name)].name = L.fields[i].name
      BY <1>1, FieldFound
<1> QED BY <1>1, <1>2 DEF WellMade

LEMMA NormalOfFields ==
    ASSUME NEW L, WellMade(L), ~L.union, NEW v
    PROVE  /\ Normal(L, v).dict = [name \in Names(L) |-> Normal(L, v).dict[name]]
           /\ \A i \in DOMAIN L.fields :
                 Normal(L, v).dict[L.fields[i].name] = NormalValue(L, i, v)
<1>1. Normal(L, v) = Dict([name \in Names(L) |-> NormalValue(L, FindField(L, name), v)])
      BY DEF Normal, NormalValue
<1>2. Normal(L, v).dict = [name \in Names(L) |-> NormalValue(L, FindField(L, name), v)]
      BY <1>1 DEF Dict
<1> QED BY <1>2, FieldOfName

LEMMA WholeFieldKept ==
    ASSUME NEW L, WellMade(L), ~L.union, NEW v, Accepts(L, v), FitsInt(L, v),
           NEW bytes, NEW at \in Nat, Holds(bytes, at, Image(L, v)),
           NEW i \in DOMAIN L.fields, ~VariableSize(L.fields[i])
    PROVE  FieldKept(L, i, bytes, at, Normal(L, v).dict[L.fields[i].name])
<1> DEFINE f == L.fields[i]
           image == FieldBytes(L, i, v)
           value == NormalValue(L, i, v)
<1>1. Within(image, FieldSize(f), Byte \cup {Junk})
  <2>1. Within(image, FieldSize(f), Byte)
        BY FieldBytesWithin, FieldRooms
  <2> HIDE DEF image
  <2> QED BY <2>1 DEF Within
<1>2. Holds(bytes, at + L.offsets[i], image)
      BY FieldBytesHeld
<1>3. Determines(image, f, value)
  <2>1. ArrayCount(L, i, v) = f.array
        BY ElementsCounted DEF VariableSize
  <2>2. \A b : \A here \in Nat : Holds(b, here, FieldBytes(L, i, v)) =>
            FieldToObj(L.fields[i], b, here, ArrayCount(L, i, v)) = NormalValue(L, i, v)
        BY FieldReadBack
  <2> HIDE DEF f
  <2> QED BY <2>1, <2>2 DEF Determines, f
<1>4. Normal(L, v).dict[f.name] = value
      BY NormalOfFields
<1> HIDE DEF image, value
<1> QED BY <1>1, <1>2, <1>3, <1>4 DEF FieldKept

LEMMA WholeTailKept ==
    ASSUME NEW L, WellMade(L), ~L.union, NEW v, Accepts(L, v), FitsInt(L, v),
           NEW bytes, Holds(bytes, 0, Image(L, v)), NEW size, RoomForObj(L, v) <= size
    PROVE  TailKept(L, bytes, size, Normal(L, v).dict)
<1>1. KeyField(L) \in DOMAIN L.fields /\ Len(L.fields) \in DOMAIN L.fields
      /\ LastField(L) = L.fields[Len(L.fields)]
      BY WellMadeFacts DEF KeyField
<1>2. \A i \in DOMAIN L.fields : Holds(bytes, L.offsets[i], FieldBytes(L, i, v))
  <2> TAKE i \in DOMAIN L.fields
  <2>1. Holds(bytes, 0 + L.offsets[i], FieldBytes(L, i, v))
        BY FieldBytesHeld
  <2>2. 0 + L.offsets[i] = L.offsets[i]
        BY WellMadeFacts
  <2> QED BY <2>1, <2>2
<1>3. Normal(L, v).dict[LastField(L).name] = NormalValue(L, Len(L.fields), v)
  <2>1. \A i \in DOMAIN L.fields : Normal(L, v).dict[L.fields[i].name] = NormalValue(L, i, v)
        BY NormalOfFields
  <2> QED BY ONLY <1>1, <2>1
<1>4. TailOf(L, bytes, size, Normal(L, v).dict, v)
      BY <1>1, <1>2, <1>3 DEF TailOf
<1> QED BY <1>4 DEF TailKept

\* What a command leaves alone is still held.
Untouched(old, new, from, n) ==
    \A x \in DOMAIN old : x - from \notin 0 .. n - 1 => x \in DOMAIN new /\ new[x] = old[x]

LEMMA HeldElsewhere ==
    ASSUME NEW image, NEW m \in Nat, NEW V, Within(image, m, V), NEW at \in Nat,
           NEW old, NEW new, Holds(old, at, image),
           NEW from \in Nat, NEW n \in Nat, Untouched(old, new, from, n),
           at + m <= from \/ from + n <= at
    PROVE  Holds(new, at, image)
<1> SUFFICES ASSUME NEW k \in DOMAIN image
             PROVE  at + k \in DOMAIN new /\ new[at + k] = image[k]
    BY DEF Holds
<1>1. k \in 0 .. m - 1
      BY DEF Within
<1>2. at + k \in DOMAIN old /\ old[at + k] = image[k]
      BY DEF Holds
<1> DEFINE x == at + k
<1>3. x - from \notin 0 .. n - 1
      BY <1>1
<1>4. x \in DOMAIN old /\ old[x] = image[k]
      BY <1>2
<1> HIDE DEF x
<1>5. x \in DOMAIN new /\ new[x] = image[k]
      BY <1>3, <1>4 DEF Untouched
<1> QED BY <1>5 DEF x

LEMMA FieldStays ==
    ASSUME NEW L, WellMade(L), NEW i \in DOMAIN L.fields, NEW at \in Nat, NEW value,
           NEW old, NEW new, FieldKept(L, i, old, at, value),
           NEW from \in Nat, NEW n \in Nat, Untouched(old, new, from, n),
           \/ at + L.offsets[i] + FieldSize(L.fields[i]) <= from
           \/ from + n <= at + L.offsets[i]
    PROVE  FieldKept(L, i, new, at, value)
<1> SUFFICES ASSUME value # Junk
             PROVE  \E image : /\ Within(image, FieldSize(L.fields[i]), Byte \cup {Junk})
                               /\ Holds(new, at + L.offsets[i], image)
                               /\ Determines(image, L.fields[i], value)
    BY DEF FieldKept
<1>1. PICK image : /\ Within(image, FieldSize(L.fields[i]), Byte \cup {Junk})
                   /\ Holds(old, at + L.offsets[i], image)
                   /\ Determines(image, L.fields[i], value)
      BY DEF FieldKept
<1>2. L.offsets[i] \in Nat /\ FieldSize(L.fields[i]) \in Nat
      BY WellMadeFacts
<1>3. at + L.offsets[i] \in Nat
      BY <1>2
<1>4. Holds(new, at + L.offsets[i], image)
      BY <1>1, <1>2, <1>3, HeldElsewhere
<1> QED BY <1>1, <1>4

LEMMA TailStays ==
    ASSUME NEW L, WellMade(L), ~L.union, L.varsize, NEW i \in DOMAIN L.fields,
           ~VariableSize(L.fields[i]), i # L.count, NEW old, NEW new,
           Untouched(old, new, L.offsets[i], FieldSize(L.fields[i])),
           NEW size, NEW before, NEW values,
           \A j \in DOMAIN L.fields \ {i} : values[L.fields[j].name] = before[L.fields[j].name],
           TailKept(L, old, size, before)
    PROVE  TailKept(L, new, size, values)
<1> DEFINE last == Len(L.fields)
           key == KeyField(L)
<1>1. last \in DOMAIN L.fields /\ LastField(L) = L.fields[last] /\ last # i
      BY WellMadeFacts DEF WellMade
<1>2. key \in DOMAIN L.fields /\ key # i
      BY <1>1, WellMadeFacts DEF KeyField
<1> HIDE DEF last, key
<1>3. /\ values[L.fields[key].name] = before[L.fields[key].name]
      /\ values[L.fields[last].name] = before[L.fields[last].name]
      BY <1>1, <1>2
<1> SUFFICES ASSUME \/ before[L.fields[key].name] # Junk
                    \/ before[LastField(L).name] # Junk
             PROVE  \E v : TailOf(L, new, size, values, v)
    BY <1>1, <1>3 DEF TailKept, key
<1>4. PICK v : TailOf(L, old, size, before, v)
      BY DEF TailKept, key
<1>5. Accepts(L, v)
      BY <1>4 DEF TailOf
<1>6. ASSUME NEW j \in DOMAIN L.fields, j # i, Holds(old, L.offsets[j], FieldBytes(L, j, v))
      PROVE  Holds(new, L.offsets[j], FieldBytes(L, j, v))
  <2> SUFFICES ASSUME NEW k \in DOMAIN FieldBytes(L, j, v)
               PROVE  /\ L.offsets[j] + k \in DOMAIN new
                      /\ new[L.offsets[j] + k] = FieldBytes(L, j, v)[k]
      BY DEF Holds
  <2> DEFINE x == L.offsets[j] + k
  <2>1. k \in 0 .. Room(L, j, v) - 1
    <3>1. Within(FieldBytes(L, j, v), Room(L, j, v), Byte)
          BY <1>5, FieldBytesWithin
    <3> QED BY <3>1 DEF Within
  <2>2. L.offsets[j] \in Nat /\ L.offsets[i] \in Nat
        BY WellMadeFacts
  <2>3. x \in Int /\ x - L.offsets[j] = k
        BY <2>1, <2>2
  <2>4. x \in DOMAIN old /\ old[x] = FieldBytes(L, j, v)[k]
        BY <1>6 DEF Holds
  <2> HIDE DEF x
  <2>5. Room(L, i, v) = FieldSize(L.fields[i])
        BY <1>5, FieldRooms
  <2>6. x - L.offsets[i] \notin 0 .. FieldSize(L.fields[i]) - 1
        BY <1>5, <1>6, <2>1, <2>3, <2>5, RoomsApart
  <2>7. x \in DOMAIN new /\ new[x] = old[x]
        BY <2>4, <2>6 DEF Untouched
  <2> QED BY <2>4, <2>7 DEF x
<1> QED BY <1>1, <1>2, <1>3, <1>4, <1>6 DEF TailOf, key, last

\* Writing an image into a block.
LEMMA Overwritten ==
    ASSUME NEW image, NEW n \in Nat, NEW V, Within(image, n, V), NEW from \in Nat, NEW old
    PROVE  /\ Untouched(old, Over(Shift(image, from), old), from, n)
           /\ Holds(Over(Shift(image, from), old), from, image)
           /\ DOMAIN old \subseteq DOMAIN Over(Shift(image, from), old)
           /\ \A x \in DOMAIN Over(Shift(image, from), old) :
                 \/ (\E k \in DOMAIN image : x = from + k)
                 \/ (x \in DOMAIN old /\ Over(Shift(image, from), old)[x] = old[x])
<1> DEFINE moved == Shift(image, from)
           new == Over(moved, old)
<1>1. DOMAIN moved = {from + k : k \in DOMAIN image}
      BY DEF Shift
<1>2. \A k \in DOMAIN image : moved[from + k] = image[k]
  <2> TAKE k \in DOMAIN image
  <2> DEFINE x == from + k
  <2>1. x - from = k
        BY DEF Within
  <2>2. x \in {from + j : j \in DOMAIN image}
        OBVIOUS
  <2> HIDE DEF x
  <2>3. moved[x] = image[x - from]
        BY <2>2 DEF Shift
  <2> QED BY <2>1, <2>3 DEF x
<1> HIDE DEF moved
<1>3. DOMAIN new = DOMAIN moved \cup DOMAIN old
      BY DEF Over
<1>4. \A x \in DOMAIN moved : x \in DOMAIN new /\ new[x] = moved[x]
      BY DEF Over
<1>5. \A x \in DOMAIN old : x \notin DOMAIN moved => x \in DOMAIN new /\ new[x] = old[x]
      BY DEF Over
<1> HIDE DEF new
<1>6. Untouched(old, new, from, n)
  <2> SUFFICES ASSUME NEW x \in DOMAIN old, x - from \notin 0 .. n - 1
               PROVE  x \in DOMAIN new /\ new[x] = old[x]
      BY DEF Untouched
  <2>1. x \notin DOMAIN moved
    <3> SUFFICES ASSUME NEW k \in DOMAIN image, x = from + k PROVE FALSE
        BY <1>1
    <3>1. k \in 0 .. n - 1
          BY DEF Within
    <3> QED BY <3>1
  <2> QED BY <1>5, <2>1
<1>7. Holds(new, from, image)
      BY <1>1, <1>2, <1>4 DEF Holds
<1>8. \A x \in DOMAIN new : \/ (\E k \in DOMAIN image : x = from + k)
                             \/ (x \in DOMAIN old /\ new[x] = old[x])
  <2> TAKE x \in DOMAIN new
  <2>1. CASE x \in DOMAIN moved
        BY <1>1, <2>1
  <2>2. CASE x \notin DOMAIN moved
        BY <1>3, <1>5, <2>2
  <2> QED BY <2>1, <2>2
<1> QED BY <1>3, <1>6, <1>7, <1>8 DEF new, moved

LEMMA NoFence == Junk # Fence /\ Fence \notin Byte /\ Junk \notin Byte
BY StructAssumption DEF Byte

LEMMA FencedOver ==
    ASSUME NEW image, NEW n \in Nat, Within(image, n, Byte \cup {Junk}), NEW from \in Nat,
           NEW old, NEW size, Fenced(old, size), from + n <= size
    PROVE  Fenced(Over(Shift(image, from), old), size)
<1> DEFINE new == Over(Shift(image, from), old)
           V == Byte \cup {Junk}
<1>1. Within(image, n, V)
      OBVIOUS
<1>2. \A k \in DOMAIN image : k \in 0 .. n - 1 /\ image[k] # Fence
      BY NoFence DEF Within
<1> HIDE DEF V
<1>3. /\ Untouched(old, new, from, n)
      /\ Holds(new, from, image)
      /\ DOMAIN old \subseteq DOMAIN new
      /\ \A x \in DOMAIN new :
            (\E k \in DOMAIN image : x = from + k) \/ (x \in DOMAIN old /\ new[x] = old[x])
      BY <1>1, Overwritten
<1> HIDE DEF new
<1>4. MaxBytes \in Nat
      BY StructAssumption
<1>5. DOMAIN new = 0 .. MaxBytes - 1
  <2>1. ASSUME NEW x \in DOMAIN new PROVE x \in 0 .. MaxBytes - 1
    <3>1. CASE x \in DOMAIN old
          BY <3>1 DEF Fenced
    <3>2. CASE x \notin DOMAIN old
      <4>1. PICK k \in DOMAIN image : x = from + k
            BY <1>3, <2>1, <3>2
      <4>2. k \in 0 .. n - 1 /\ size \in Nat /\ size <= MaxBytes
            BY <1>2 DEF Fenced
      <4> QED BY <1>4, <4>1, <4>2
    <3> QED BY <3>1, <3>2
  <2>2. 0 .. MaxBytes - 1 \subseteq DOMAIN new
        BY <1>3 DEF Fenced
  <2> QED BY <2>1, <2>2
<1>6. ASSUME NEW x \in 0 .. MaxBytes - 1 PROVE x >= size <=> new[x] = Fence
  <2>1. CASE \E k \in DOMAIN image : x = from + k
    <3>1. PICK k \in DOMAIN image : x = from + k
          BY <2>1
    <3>2. new[x] # Fence
          BY <1>2, <1>3, <3>1 DEF Holds
    <3> QED BY <1>2, <3>1, <3>2 DEF Fenced
  <2>2. CASE ~\E k \in DOMAIN image : x = from + k
    <3>1. x \in DOMAIN old /\ new[x] = old[x]
          BY <1>3, <1>5, <1>6, <2>2
    <3> QED BY <1>6, <3>1 DEF Fenced
  <2> QED BY <2>1, <2>2
<1> QED BY <1>5, <1>6 DEF Fenced, new

LEMMA FencedNew ==
    ASSUME NEW size \in Nat, size <= MaxBytes, NEW b, DOMAIN b = 0 .. size - 1,
           \A k \in 0 .. size - 1 : b[k] # Fence
    PROVE  /\ Fenced(Over(b, Fill(MaxBytes, Fence)), size)
           /\ \A k \in DOMAIN b : /\ k \in DOMAIN Over(b, Fill(MaxBytes, Fence))
                                  /\ Over(b, Fill(MaxBytes, Fence))[k] = b[k]
<1> DEFINE bytes == Over(b, Fill(MaxBytes, Fence))
<1>1. MaxBytes \in Nat
      BY StructAssumption
<1>2. DOMAIN Fill(MaxBytes, Fence) = 0 .. MaxBytes - 1
      BY DEF Fill
<1>3. \A k \in 0 .. MaxBytes - 1 : Fill(MaxBytes, Fence)[k] = Fence
      BY DEF Fill
<1>4. DOMAIN bytes = DOMAIN b \cup (0 .. MaxBytes - 1)
      BY <1>2 DEF Over
<1>5. \A k \in DOMAIN bytes : bytes[k] = IF k \in DOMAIN b THEN b[k] ELSE Fill(MaxBytes, Fence)[k]
      BY DEF Over
<1> HIDE DEF bytes
<1>6. DOMAIN bytes = 0 .. MaxBytes - 1
      BY <1>1, <1>4
<1>7. \A k \in 0 .. MaxBytes - 1 : k >= size <=> bytes[k] = Fence
      BY <1>1, <1>3, <1>5, <1>6
<1> QED BY <1>4, <1>5, <1>6, <1>7 DEF Fenced, bytes

\* What new builds.
LEMMA NewKept ==
    ASSUME NEW L, WellMade(L), ~L.union, NEW v, Accepts(L, v),
           NEW size, size = RoomForObj(L, v), size <= IntMax, size <= MaxBytes
    PROVE  BlockKept(L, 1, size,
                     Over(Over(Image(L, v), Fill(size, Junk)), Fill(MaxBytes, Fence)),
                     [k \in {0} |-> Normal(L, v).dict])
<1> DEFINE b == Over(Image(L, v), Fill(size, Junk))
           bytes == Over(b, Fill(MaxBytes, Fence))
           values == [k \in {0} |-> Normal(L, v).dict]
<1>1. SizeOK(size, L.size, L.varsize) /\ Within(Image(L, v), size, Byte)
      BY WellMadeIsFaithful DEF Faithful
<1>2. size \in Nat /\ FitsInt(L, v)
      BY <1>1 DEF SizeOK, FitsInt
<1>3. DOMAIN b = 0 .. size - 1 /\ \A k \in 0 .. size - 1 : b[k] # Fence
  <2>1. DOMAIN Fill(size, Junk) = 0 .. size - 1
        BY DEF Fill
  <2>2. \A k \in 0 .. size - 1 : Fill(size, Junk)[k] = Junk
        BY DEF Fill
  <2>3. \A k \in DOMAIN Image(L, v) : k \in 0 .. size - 1 /\ Image(L, v)[k] # Fence
        BY <1>1, NoFence DEF Within
  <2>4. DOMAIN b = DOMAIN Image(L, v) \cup (0 .. size - 1)
        BY <2>1 DEF Over
  <2>5. \A k \in DOMAIN b : b[k] = IF k \in DOMAIN Image(L, v) THEN Image(L, v)[k]
                                   ELSE Fill(size, Junk)[k]
        BY DEF Over
  <2> HIDE DEF b
  <2> QED BY <2>2, <2>3, <2>4, <2>5, NoFence
<1>4. \A k \in DOMAIN Image(L, v) : k \in DOMAIN b /\ b[k] = Image(L, v)[k]
      BY DEF Over
<1> HIDE DEF b
<1>5. Fenced(bytes, size) /\ \A k \in DOMAIN b : k \in DOMAIN bytes /\ bytes[k] = b[k]
      BY <1>2, <1>3, FencedNew
<1> HIDE DEF bytes
<1>6. Holds(bytes, 0, Image(L, v))
  <2>1. \A k \in DOMAIN Image(L, v) : 0 + k = k
        BY <1>1 DEF Within
  <2> QED BY <1>4, <1>5, <2>1 DEF Holds
<1>7. ValuesKept(L, 1, bytes, values)
  <2>1. 1 - 1 = 0 /\ 0 .. 0 = {0} /\ L.size * 0 = 0
        BY WellMadeFacts
  <2>2. values[0] = Normal(L, v).dict
        OBVIOUS
  <2>3. Normal(L, v).dict = [name \in Names(L) |-> Normal(L, v).dict[name]]
        BY NormalOfFields
  <2>4. \A i \in DOMAIN L.fields : ~VariableSize(L.fields[i]) =>
            FieldKept(L, i, bytes, 0, Normal(L, v).dict[L.fields[i].name])
        BY <1>2, <1>6, WholeFieldKept
  <2>5. DOMAIN values = {0}
        OBVIOUS
  <2> HIDE DEF values
  <2> QED BY <2>1, <2>2, <2>3, <2>4, <2>5 DEF ValuesKept
<1>8. TailKept(L, bytes, size, values[0])
  <2>1. values[0] = Normal(L, v).dict
        OBVIOUS
  <2>2. RoomForObj(L, v) <= size
        BY <1>2
  <2> QED BY <1>2, <1>6, <2>1, <2>2, WholeTailKept
<1>9. Sized(L, 1, size)
  <2>1. L.size \in Nat /\ L.size * 1 = L.size
        BY WellMadeFacts
  <2> QED BY <1>1, <2>1 DEF Sized, SizeOK
<1> QED BY <1>5, <1>7, <1>8, <1>9 DEF BlockKept, bytes, b

\* The room that allocate counts in.
LEMMA RoomOfCount ==
    ASSUME NEW L, WellMade(L), NEW n \in Int, L.varsize => n >= 0
    PROVE  SizeOK(RoomForVLACount(L, n), L.size, L.varsize) /\ L.size \in Nat \ {0}
<1>1. CASE ~L.varsize
      BY <1>1, WellMadeFacts DEF SizeOK, RoomForVLACount
<1>2. CASE L.varsize
  <2>1. n \in Nat
        BY <1>2
  <2>2. SizeOK(RoomForVLACount(L, n), L.size, L.varsize)
        BY <2>1, SizeOfCount
  <2> QED BY <2>2, WellMadeFacts
<1> QED BY <1>1, <1>2, WellMadeFacts

\* What allocate leaves unwritten.
LEMMA AllocatedKept ==
    ASSUME NEW L, WellMade(L), ~L.union, NEW count \in Nat \ {0},
           NEW n \in Int, L.varsize => count = 1 /\ n >= 0,
           NEW size, size = count * RoomForVLACount(L, n), size <= IntMax, size <= MaxBytes
    PROVE  BlockKept(L, count, size, Over(Fill(size, Junk), Fill(MaxBytes, Fence)),
                     [k \in 0 .. count - 1 |-> Unwritten(L)])
<1> DEFINE one == RoomForVLACount(L, n)
           bytes == Over(Fill(size, Junk), Fill(MaxBytes, Fence))
           values == [k \in 0 .. count - 1 |-> Unwritten(L)]
<1>1. SizeOK(one, L.size, L.varsize) /\ L.size \in Nat \ {0}
      BY RoomOfCount
<1>2. one \in Nat \ {0} /\ MaxBytes \in Nat
      BY <1>1, StructAssumption DEF SizeOK
<1>3. size = count * one /\ size \in Nat
  <2> HIDE DEF one
  <2> QED BY <1>2 DEF one
<1>4. Sized(L, count, size)
      BY <1>1, <1>2, <1>3 DEF Sized, SizeOK
<1>5. DOMAIN Fill(size, Junk) = 0 .. size - 1 /\ \A k \in 0 .. size - 1 : Fill(size, Junk)[k] # Fence
      BY NoFence DEF Fill
<1>6. Fenced(bytes, size)
      BY <1>3, <1>5, FencedNew
<1>7. \A k \in 0 .. count - 1 : values[k] = Unwritten(L)
      OBVIOUS
<1>8. /\ Unwritten(L) = [name \in Names(L) |-> Unwritten(L)[name]]
      /\ \A i \in DOMAIN L.fields : Unwritten(L)[L.fields[i].name] = Junk
      BY DEF Unwritten, Names
<1>9. 0 \in 0 .. count - 1
      OBVIOUS
<1> HIDE DEF bytes, values
<1>10. ValuesKept(L, count, bytes, values)
  <2>1. DOMAIN values = 0 .. count - 1
        BY DEF values
  <2> QED BY <1>7, <1>8, <2>1 DEF ValuesKept, FieldKept
<1>11. TailKept(L, bytes, size, values[0])
  <2>1. KeyField(L) \in DOMAIN L.fields /\ LastField(L) = L.fields[Len(L.fields)]
        /\ Len(L.fields) \in DOMAIN L.fields
        BY WellMadeFacts DEF KeyField
  <2> QED BY <1>7, <1>8, <1>9, <2>1 DEF TailKept
<1> QED BY <1>4, <1>6, <1>10, <1>11 DEF BlockKept, bytes, values

\* The structs of a block are apart.
LEMMA StructRooms ==
    ASSUME NEW s \in Nat, NEW i \in Nat, NEW j \in Nat, i < j
    PROVE  s * i \in Nat /\ s * j \in Nat /\ s * i + s <= s * j
<1> DEFINE d == j - i - 1
           a == s * i
           b == s * d
<1>1. d \in Nat /\ j = i + 1 + d
      OBVIOUS
<1> HIDE DEF d
<1>2. a \in Nat /\ b \in Nat
      BY <1>1
<1>3. s * j = a + s + b
      BY <1>1
<1> HIDE DEF a, b
<1>4. a + s + b \in Nat /\ a + s <= a + s + b
      BY <1>2
<1> QED BY <1>2, <1>3, <1>4 DEF a

LEMMA OthersStay ==
    ASSUME NEW L, WellMade(L), NEW index \in Nat, NEW k \in Nat, k # index,
           NEW old, NEW new, NEW from \in Nat, NEW n \in Nat, Untouched(old, new, from, n),
           L.size * index <= from, from + n <= L.size * index + L.size,
           NEW i \in DOMAIN L.fields, NEW value, FieldKept(L, i, old, L.size * k, value)
    PROVE  FieldKept(L, i, new, L.size * k, value)
<1> DEFINE here == L.size * index
           there == L.size * k
           o == L.offsets[i]
           m == FieldSize(L.fields[i])
<1>1. L.size \in Nat /\ o \in Nat /\ m \in Nat /\ o + m <= L.size
      BY WellMadeFacts
<1>2. here \in Nat /\ there \in Nat
      BY <1>1
<1>3. here + L.size <= there \/ there + L.size <= here
      BY <1>1, StructRooms
<1> HIDE DEF here, there
<1>4. there + o + m <= from \/ from + n <= there + o
  <2> HIDE DEF o, m
  <2> QED BY <1>1, <1>2, <1>3 DEF here
<1> QED BY <1>2, <1>4, FieldStays DEF there

\* What tonative copies.
LEMMA ToNativeKept ==
    ASSUME NEW L, WellMade(L), ~L.varsize, NEW v, Accepts(L, v),
           NEW count, NEW size, NEW bytes, NEW values, BlockKept(L, count, size, bytes, values),
           NEW index \in 0 .. count - 1
    PROVE  BlockKept(L, count, size,
                     Over(Shift(Over(Image(L, v), Fill(L.size, Junk)), L.size * index), bytes),
                     [values EXCEPT ![index] = Normal(L, v).dict])
<1> DEFINE image == Over(Image(L, v), Fill(L.size, Junk))
           from == L.size * index
           new == Over(Shift(image, from), bytes)
           stored == [values EXCEPT ![index] = Normal(L, v).dict]
<1>1. ~L.union /\ Sized(L, count, size) /\ Fenced(bytes, size) /\ ValuesKept(L, count, bytes, values)
      BY DEF BlockKept
<1>2. count \in Nat \ {0} /\ size = L.size * count /\ L.size \in Nat /\ index \in Nat
      BY <1>1, WellMadeFacts DEF Sized
<1>3. from \in Nat /\ from + L.size <= size
      BY <1>2, StructRooms
<1>4. Within(image, L.size, Byte \cup {Junk})
  <2>1. Within(Image(L, v), L.size, Byte)
        BY WellMadeIsFaithful DEF Faithful, SizeOK
  <2>2. \A k \in DOMAIN Fill(L.size, Junk) : k \in 0 .. L.size - 1 /\ Fill(L.size, Junk)[k] = Junk
        BY DEF Fill
  <2> QED BY <2>1, <2>2 DEF Within, Over
<1> DEFINE V == Byte \cup {Junk}
<1>5. Untouched(bytes, new, from, L.size) /\ Holds(new, from, image)
  <2>1. Within(image, L.size, V)
        BY <1>4
  <2> HIDE DEF V, image, from
  <2> QED BY <1>2, <1>3, <2>1, Overwritten
<1>6. Fenced(new, size)
  <2> HIDE DEF image, from
  <2> QED BY <1>1, <1>2, <1>3, <1>4, FencedOver
<1>7. Holds(new, from, Image(L, v))
  <2> HIDE DEF new, from
  <2> QED BY <1>5, HoldsOver
<1> HIDE DEF new, image
<1>8. DOMAIN values = 0 .. count - 1
      BY <1>1 DEF ValuesKept
<1>9. /\ DOMAIN stored = 0 .. count - 1
      /\ \A k \in 0 .. count - 1 : stored[k] = IF k = index THEN Normal(L, v).dict ELSE values[k]
      BY <1>8
<1> HIDE DEF stored
<1>10. ASSUME NEW k \in 0 .. count - 1
       PROVE  /\ stored[k] = [name \in Names(L) |-> stored[k][name]]
              /\ \A i \in DOMAIN L.fields : ~VariableSize(L.fields[i]) =>
                    FieldKept(L, i, new, L.size * k, stored[k][L.fields[i].name])
  <2>1. CASE k = index
    <3>1. stored[k] = Normal(L, v).dict
          BY <1>9, <2>1
    <3>2. Normal(L, v).dict = [name \in Names(L) |-> Normal(L, v).dict[name]]
          BY <1>1, NormalOfFields
    <3>3. \A i \in DOMAIN L.fields : ~VariableSize(L.fields[i]) =>
              FieldKept(L, i, new, from, Normal(L, v).dict[L.fields[i].name])
      <4> HIDE DEF from
      <4> QED BY <1>1, <1>3, <1>7, WholeFieldKept DEF FitsInt
    <3> QED BY <2>1, <3>1, <3>2, <3>3
  <2>2. CASE k # index
    <3>1. stored[k] = values[k]
          BY <1>9, <2>2
    <3>2. /\ values[k] = [name \in Names(L) |-> values[k][name]]
          /\ \A i \in DOMAIN L.fields : ~VariableSize(L.fields[i]) =>
                FieldKept(L, i, bytes, L.size * k, values[k][L.fields[i].name])
          BY <1>1 DEF ValuesKept
    <3>3. ASSUME NEW i \in DOMAIN L.fields, ~VariableSize(L.fields[i])
          PROVE  FieldKept(L, i, new, L.size * k, values[k][L.fields[i].name])
      <4>1. FieldKept(L, i, bytes, L.size * k, values[k][L.fields[i].name])
            BY <3>2, <3>3
      <4>2. k \in Nat /\ L.size * index <= from /\ from + L.size <= L.size * index + L.size
            BY <1>2, <1>3
      <4> HIDE DEF from
      <4> QED BY <1>2, <1>3, <1>5, <2>2, <4>1, <4>2, OthersStay
    <3> QED BY <3>1, <3>2, <3>3
  <2> QED BY <2>1, <2>2
<1>11. ValuesKept(L, count, new, stored)
      BY <1>9, <1>10 DEF ValuesKept
<1>12. TailKept(L, new, size, stored[0])
      BY DEF TailKept
<1> QED BY <1>1, <1>6, <1>11, <1>12 DEF BlockKept, new, image, stored

\* What setnative and setfields write.
LEMMA FieldImageKept ==
    ASSUME NEW f, FieldFaithful(f), ~VariableSize(f), FieldSize(f) \in Nat,
           NEW v, FieldAccepts(f, v, f.array)
    PROVE  /\ Within(FieldImage(f, v, f.array, TRUE), FieldSize(f), Byte \cup {Junk})
           /\ Determines(FieldImage(f, v, f.array, TRUE), f, NormalField(f, v, f.array))
<1> DEFINE temp == TRUE
           image == FieldImage(f, v, f.array, temp)
<1> HIDE DEF temp
<1>1. ElementCount(f, f.array)
      BY DEF FieldFaithful, ElementCount, Scalar
<1>2. Within(image, FieldExtent(f, v, f.array), Byte \cup {Junk})
      BY <1>1, FieldWritten
<1>3. FieldExtent(f, v, f.array) = FieldSize(f)
  <2>1. CASE f.array = Scalar
    <3>1. ElemAccepts(f.base, v) /\ BaseFaithful(f.base) /\ ~f.base.varsize
          BY <2>1 DEF FieldAccepts, FieldFaithful, VariableSize
    <3>2. ElemSize(f.base, v) = f.base.size
          BY <3>1, ElemMeasures DEF SizeOK
    <3> QED BY <2>1, <3>2 DEF FieldExtent, FieldSize
  <2>2. CASE f.array # Scalar
        BY <2>2 DEF FieldExtent, FieldSize
  <2> QED BY <2>1, <2>2
<1>4. Determines(image, f, NormalField(f, v, f.array))
  <2> SUFFICES ASSUME NEW bytes, NEW at \in Nat, Holds(bytes, at, image)
               PROVE  FieldToObj(f, bytes, at, f.array) = NormalField(f, v, f.array)
      BY DEF Determines
  <2>1. f.array = Scalar => ElemFits(f.base, v)
        BY DEF VariableSize, ElemFits
  <2> QED BY <1>1, <2>1, FieldReads
<1>5. Within(image, FieldSize(f), Byte \cup {Junk})
  <2> HIDE DEF image
  <2> QED BY <1>2, <1>3
<1> QED BY <1>4, <1>5 DEF temp

LEMMA SetNativeKept ==
    ASSUME NEW L, WellMade(L), NEW i \in DOMAIN L.fields, i # L.count,
           ~VariableSize(L.fields[i]), NEW v, FieldAccepts(L.fields[i], v, L.fields[i].array),
           NEW count, NEW size, NEW bytes, NEW values, BlockKept(L, count, size, bytes, values),
           NEW index \in 0 .. count - 1
    PROVE  LET f == L.fields[i] IN
           BlockKept(L, count, size,
                     Over(Shift(FieldImage(f, v, f.array, TRUE), L.size * index + L.offsets[i]),
                          bytes),
                     [values EXCEPT ![index][f.name] = NormalField(f, v, f.array)])
<1> DEFINE f == L.fields[i]
           image == FieldImage(f, v, f.array, TRUE)
           value == NormalField(f, v, f.array)
           here == L.size * index
           from == here + L.offsets[i]
           n == FieldSize(f)
           new == Over(Shift(image, from), bytes)
           stored == [values EXCEPT ![index][f.name] = value]
           V == Byte \cup {Junk}
<1>1. ~L.union /\ Sized(L, count, size) /\ Fenced(bytes, size)
      /\ ValuesKept(L, count, bytes, values) /\ TailKept(L, bytes, size, values[0])
      BY DEF BlockKept
<1>2. count \in Nat \ {0} /\ L.size \in Nat /\ index \in Nat /\ size \in Nat
      /\ L.offsets[i] \in Nat /\ n \in Nat /\ L.offsets[i] + n <= L.size
      BY <1>1, WellMadeFacts DEF Sized
<1>3. here \in Nat /\ here + L.size <= size
  <2>1. CASE L.varsize
    <3>1. index = 0 /\ L.size * 0 = 0 /\ L.size <= size
          BY <1>1, <1>2, <2>1 DEF Sized
    <3> QED BY <1>2, <3>1
  <2>2. CASE ~L.varsize
    <3>1. size = L.size * count
          BY <1>1, <2>2 DEF Sized
    <3> QED BY <1>2, <3>1, StructRooms
  <2> QED BY <2>1, <2>2
<1>4. Within(image, n, V) /\ Determines(image, f, value)
  <2>1. FieldFaithful(f)
        BY DEF WellMade
  <2> QED BY <1>2, <2>1, FieldImageKept
<1> HIDE DEF image, value, here
<1>5. from \in Nat /\ from + n <= size /\ here <= from /\ from + n <= here + L.size
  <2> HIDE DEF n
  <2> QED BY <1>2, <1>3
<1> HIDE DEF from, n
<1>6. Fenced(new, size)
      BY <1>1, <1>2, <1>4, <1>5, FencedOver
<1> HIDE DEF V
<1>7. Untouched(bytes, new, from, n) /\ Holds(new, from, image)
      BY <1>2, <1>4, <1>5, Overwritten
<1> HIDE DEF new
<1>8. DOMAIN values = 0 .. count - 1 /\ values[index] = [name \in Names(L) |-> values[index][name]]
      BY <1>1 DEF ValuesKept
<1>9. f.name \in Names(L)
      BY DEF Names
<1>10. /\ DOMAIN stored = 0 .. count - 1
       /\ \A k \in 0 .. count - 1 : k # index => stored[k] = values[k]
       /\ stored[index] = [values[index] EXCEPT ![f.name] = value]
      BY <1>8
<1> HIDE DEF stored
<1>11. /\ stored[index] = [name \in Names(L) |-> stored[index][name]]
       /\ stored[index][f.name] = value
       /\ \A j \in DOMAIN L.fields \ {i} : stored[index][L.fields[j].name] = values[index][L.fields[j].name]
  <2> DEFINE old == values[index]
  <2>1. old = [name \in Names(L) |-> old[name]]
        BY <1>8
  <2>2. stored[index] = [old EXCEPT ![f.name] = value]
        BY <1>10
  <2> HIDE DEF old
  <2>3. DOMAIN old = Names(L)
        BY <2>1
  <2>4. stored[index] = [name \in Names(L) |-> IF name = f.name THEN value ELSE old[name]]
        BY <2>2, <2>3
  <2>5. \A j \in DOMAIN L.fields \ {i} : L.fields[j].name \in Names(L) /\ L.fields[j].name # f.name
        BY DEF Names, WellMade
  <2> HIDE DEF f
  <2>6. \A name \in Names(L) : stored[index][name] = IF name = f.name THEN value ELSE old[name]
        BY <2>4
  <2>7. stored[index] = [name \in Names(L) |-> stored[index][name]]
        BY <2>4
  <2> QED BY <1>9, <2>5, <2>6, <2>7 DEF old
<1>12. ASSUME NEW k \in 0 .. count - 1
       PROVE  /\ stored[k] = [name \in Names(L) |-> stored[k][name]]
              /\ \A j \in DOMAIN L.fields : ~VariableSize(L.fields[j]) =>
                    FieldKept(L, j, new, L.size * k, stored[k][L.fields[j].name])
  <2>1. /\ values[k] = [name \in Names(L) |-> values[k][name]]
        /\ \A j \in DOMAIN L.fields : ~VariableSize(L.fields[j]) =>
              FieldKept(L, j, bytes, L.size * k, values[k][L.fields[j].name])
        BY <1>1 DEF ValuesKept
  <2>2. CASE k # index
    <3>1. stored[k] = values[k]
          BY <1>10, <2>2
    <3>2. ASSUME NEW j \in DOMAIN L.fields, ~VariableSize(L.fields[j])
          PROVE  FieldKept(L, j, new, L.size * k, values[k][L.fields[j].name])
      <4>1. FieldKept(L, j, bytes, L.size * k, values[k][L.fields[j].name])
            BY <2>1, <3>2
      <4>2. k \in Nat /\ L.size * index <= from /\ from + n <= L.size * index + L.size
            BY <1>2, <1>5 DEF here
      <4> QED BY <1>2, <1>5, <1>7, <2>2, <4>1, <4>2, OthersStay
    <3> QED BY <2>1, <3>1, <3>2
  <2>3. CASE k = index
    <3>1. ASSUME NEW j \in DOMAIN L.fields, ~VariableSize(L.fields[j])
          PROVE  FieldKept(L, j, new, here, stored[index][L.fields[j].name])
      <4>1. CASE j = i
        <5>1. Within(image, FieldSize(L.fields[i]), Byte \cup {Junk})
              /\ Holds(new, here + L.offsets[i], image) /\ Determines(image, L.fields[i], value)
              BY <1>4, <1>7 DEF V, n, from, f
        <5>2. stored[index][L.fields[i].name] = value
              BY <1>11 DEF f
        <5> QED BY <4>1, <5>1, <5>2 DEF FieldKept
      <4>2. CASE j # i
        <5>1. FieldKept(L, j, bytes, here, values[index][L.fields[j].name])
              BY <2>1, <2>3, <3>1 DEF here
        <5>2. stored[index][L.fields[j].name] = values[index][L.fields[j].name]
              BY <1>11, <4>2
        <5>3. \/ here + L.offsets[j] + FieldSize(L.fields[j]) <= from
              \/ from + n <= here + L.offsets[j]
          <6>1. \/ L.offsets[j] + FieldSize(L.fields[j]) <= L.offsets[i]
                \/ L.offsets[i] + FieldSize(L.fields[i]) <= L.offsets[j]
                BY <1>1, <4>2, WellMadeFacts DEF WellMade
          <6>2. L.offsets[j] \in Nat /\ FieldSize(L.fields[j]) \in Nat
                BY WellMadeFacts
          <6>3. from = here + L.offsets[i] /\ n = FieldSize(L.fields[i])
                BY DEF from, n, f
          <6> QED BY <1>2, <1>3, <6>1, <6>2, <6>3
        <5> QED BY <1>2, <1>3, <1>5, <1>7, <5>1, <5>2, <5>3, FieldStays
      <4> QED BY <4>1, <4>2
    <3>2. stored[k] = [name \in Names(L) |-> stored[k][name]]
          BY <1>11, <2>3
    <3> QED BY <2>3, <3>1, <3>2 DEF here
  <2> QED BY <2>2, <2>3
<1>13. ValuesKept(L, count, new, stored)
      BY <1>10, <1>12 DEF ValuesKept
<1>14. TailKept(L, new, size, stored[0])
  <2>1. CASE ~L.varsize
        BY <2>1 DEF TailKept
  <2>2. CASE L.varsize
    <3>1. index = 0
          BY <1>1, <1>2, <2>2 DEF Sized
    <3>2. from = L.offsets[i] /\ n = FieldSize(L.fields[i])
          BY <1>2, <3>1 DEF from, here, n, f
    <3>3. Untouched(bytes, new, L.offsets[i], FieldSize(L.fields[i]))
          BY <1>7, <3>2
    <3>4. \A j \in DOMAIN L.fields \ {i} : stored[0][L.fields[j].name] = values[0][L.fields[j].name]
          BY <1>11, <3>1
    <3> QED BY <1>1, <2>2, <3>3, <3>4, TailStays
  <2> QED BY <2>1, <2>2
<1> QED BY <1>1, <1>6, <1>13, <1>14 DEF BlockKept, new, from, here, image, stored, value

\* What a C function fills in.
LEMMA NotShifted ==
    ASSUME NEW image, NEW n \in Nat, NEW V, Within(image, n, V),
           image = [k \in DOMAIN image |-> image[k]]
    PROVE  Shift(image, 0) = image
<1> DEFINE dom == {0 + j : j \in DOMAIN image}
<1>1. \A j \in DOMAIN image : j \in Int
      BY DEF Within
<1>2. dom = DOMAIN image
      BY <1>1
<1>3. Shift(image, 0) = [k \in dom |-> image[k - 0]]
      BY DEF Shift
<1> HIDE DEF dom
<1>4. \A k \in DOMAIN image : k - 0 = k
      BY <1>1
<1>5. [k \in DOMAIN image |-> image[k - 0]] = [k \in DOMAIN image |-> image[k]]
      BY <1>4
<1> QED BY <1>2, <1>3, <1>5

LEMMA FilledKept ==
    ASSUME NEW L, WellMade(L), L.varsize, NEW v, Accepts(L, v),
           NEW count, NEW size, NEW bytes, NEW values, BlockKept(L, count, size, bytes, values),
           RoomForObj(L, v) <= size
    PROVE  BlockKept(L, count, size, Over(Image(L, v), bytes),
                     [values EXCEPT ![0] = Normal(L, v).dict])
<1> DEFINE image == Image(L, v)
           n == RoomForObj(L, v)
           new == Over(Shift(image, 0), bytes)
           stored == [values EXCEPT ![0] = Normal(L, v).dict]
           V == Byte
<1>1. ~L.union /\ Sized(L, count, size) /\ Fenced(bytes, size) /\ ValuesKept(L, count, bytes, values)
      BY DEF BlockKept
<1>2. Within(image, n, V) /\ n \in Nat /\ FitsInt(L, v)
  <2>1. Within(image, n, V) /\ n \in Nat
        BY WellMadeIsFaithful DEF Faithful, SizeOK
  <2> QED BY <1>1, <2>1, StructAssumption DEF Sized, FitsInt
<1>3. Within(image, n, Byte \cup {Junk})
      BY <1>2 DEF Within
<1>4. image = [k \in DOMAIN image |-> image[k]]
  <2>1. Image(L, v) = [k \in DOMAIN Image(L, v) |-> Image(L, v)[k]]
        BY <1>1 DEF Image, Over
  <2> QED BY <2>1
<1> HIDE DEF n, image, V
<1>5. Over(image, bytes) = new
      BY <1>2, <1>4, NotShifted
<1>6. Fenced(new, size)
  <2> DEFINE from == 0
  <2>1. from \in Nat /\ from + n <= size
        BY <1>2 DEF n
  <2> HIDE DEF from
  <2>2. Fenced(Over(Shift(image, from), bytes), size)
        BY <1>1, <1>2, <1>3, <2>1, FencedOver
  <2> QED BY <2>2 DEF from
<1>7. Holds(new, 0, image)
      BY <1>2, Overwritten
<1> HIDE DEF new
<1>8. count = 1 /\ 1 - 1 = 0 /\ 0 .. 0 = {0} /\ L.size * 0 = 0
      BY <1>1, WellMadeFacts DEF Sized
<1>9. DOMAIN stored = {0} /\ stored[0] = Normal(L, v).dict
      BY <1>1, <1>8 DEF ValuesKept
<1> HIDE DEF stored
<1>10. ValuesKept(L, count, new, stored)
  <2>1. Normal(L, v).dict = [name \in Names(L) |-> Normal(L, v).dict[name]]
        BY <1>1, NormalOfFields
  <2>2. \A i \in DOMAIN L.fields : ~VariableSize(L.fields[i]) =>
            FieldKept(L, i, new, 0, Normal(L, v).dict[L.fields[i].name])
        BY <1>1, <1>2, <1>7, WholeFieldKept DEF image
  <2> QED BY <1>8, <1>9, <2>1, <2>2 DEF ValuesKept
<1>11. TailKept(L, new, size, stored[0])
      BY <1>1, <1>2, <1>7, <1>9, WholeTailKept DEF image
<1> QED BY <1>1, <1>5, <1>6, <1>10, <1>11 DEF BlockKept, image, stored

-----------------------------------------------------------------------------
(* The commands on memory.                                                 *)

LEMMA BlockFacts ==
    ASSUME BlockInv, InUse
    PROVE  /\ block.struct \in StructName /\ WellMade(Here)
           /\ BlockKept(Here, block.count, block.size, mem, known)
           /\ StructIndexes = 0 .. block.count - 1
           /\ \A index \in StructIndexes : StructAddress(index) = Here.size * index
<1>1. block.struct \in StructName /\ Here # None
      BY DEF BlockInv, InUse
<1>2. WellMade(Here)
      BY <1>1 DEF BlockInv, MadeInv, Here
<1>3. BlockKept(Here, block.count, block.size, mem, known)
      BY DEF BlockInv
<1>4. Sized(Here, block.count, block.size)
      BY <1>3 DEF BlockKept
<1>5. Here.size \in Nat /\ Here.varsize \in BOOLEAN
      BY <1>2, WellMadeFacts
<1>6. StructIndexes = 0 .. block.count - 1
  <2>1. CASE Here.varsize
    <3>1. block.count = 1 /\ 0 .. 1 - 1 = {0}
          BY <1>4, <2>1 DEF Sized
    <3> QED BY <2>1, <3>1 DEF StructIndexes
  <2>2. CASE ~Here.varsize
        BY <2>2 DEF StructIndexes
  <2> QED BY <2>1, <2>2
<1>7. \A index \in StructIndexes : StructAddress(index) = Here.size * index
  <2>1. CASE Here.varsize
    <3>1. Here.size * 0 = 0
          BY <1>5
    <3> QED BY <2>1, <3>1 DEF StructIndexes, StructAddress
  <2>2. CASE ~Here.varsize
        BY <2>2 DEF StructAddress
  <2> QED BY <2>1, <2>2
<1> QED BY <1>1, <1>2, <1>3, <1>6, <1>7

LEMMA BlockInitially == StructInit => BlockInv
BY MadeInitially DEF StructInit, BlockInv, InUse

LEMMA AtLeastOne ==
    ASSUME NEW count \in Nat \ {0}, NEW n \in Nat
    PROVE  count * n \in Nat /\ n <= count * n
<1> DEFINE rest == (count - 1) * n
<1>1. rest \in Nat /\ count * n = n + rest
      OBVIOUS
<1> HIDE DEF rest
<1> QED BY <1>1

LEMMA BlockStep ==
    ASSUME NestedAlike, BlockInv, [StructNext]_structVars
    PROVE  BlockInv'
<1>1. MadeInv'
      BY MadeKept DEF BlockInv
<1>2. CASE Define
      BY <1>1, <1>2 DEF Define, BlockInv, InUse
<1>3. CASE StructFreeCmd
      BY <1>1, <1>3 DEF StructFreeCmd, BlockInv, InUse
<1>4. CASE UNCHANGED structVars
      BY <1>1, <1>4 DEF structVars, tableVars, BlockInv, InUse, Here
<1>5. ASSUME NEW name \in StructName, MayAllocate(name)
      PROVE  WellMade(structs[name]) /\ ~structs[name].union /\ structs[name] # None
      BY <1>5 DEF MayAllocate, BlockInv, MadeInv
<1>6. ASSUME NEW name \in StructName, NEW v \in Dicts, StructNewCmd(name, v)
      PROVE  BlockInv'
  <2> DEFINE L == structs[name]
             room == RoomForObj(L, v)
             size == SizeForObj(L, v)
  <2>1. /\ MayAllocate(name) /\ Accepts(L, v) /\ size \in 0 .. MaxBytes /\ structs' = structs
        /\ block' = [struct |-> name, count |-> 1, room |-> room, size |-> size]
        BY <1>6 DEF StructNewCmd, tableVars
  <2>2. /\ mem' = Over(Over(Image(L, v), Fill(size, Junk)), Fill(MaxBytes, Fence))
        /\ known' = [k \in {0} |-> Normal(L, v).dict]
        BY <1>6, <2>1 DEF StructNewCmd
  <2>3. WellMade(L) /\ ~L.union /\ L # None
        BY <1>5, <2>1
  <2>4. Here' = L
        BY <2>1 DEF Here
  <2>5. /\ block'.struct = name /\ block'.count = 1
        /\ block'.room = room /\ block'.size = size
        BY <2>1
  <2>6. room <= IntMax => size = room
    <3>1. room \in Nat /\ size = AsInt(L, room)
          BY <2>1, <2>3, SizeOfAccepted DEF SizeOK, SizeForObj
    <3> HIDE DEF room, size
    <3> QED BY <3>1, SizeOfRoom
  <2> HIDE DEF L, size
  <2>7. ASSUME room <= IntMax PROVE BlockKept(L, 1, size, mem', known')
    <3>1. /\ WellMade(L) /\ ~L.union /\ Accepts(L, v)
          /\ size = RoomForObj(L, v) /\ size <= IntMax /\ size <= MaxBytes
          BY <2>1, <2>3, <2>6, <2>7
    <3>2. BlockKept(L, 1, size,
                    Over(Over(Image(L, v), Fill(size, Junk)), Fill(MaxBytes, Fence)),
                    [k \in {0} |-> Normal(L, v).dict])
          BY <3>1, NewKept
    <3> QED BY <2>2, <3>2
  <2> HIDE DEF room
  <2> QED BY <1>1, <2>3, <2>4, <2>5, <2>6, <2>7 DEF BlockInv, InUse
<1>7. ASSUME NEW name \in StructName, NEW count \in Counts, NEW n \in VLACounts,
             StructAllocateCmd(name, count, n)
      PROVE  BlockInv'
  <2> DEFINE L == structs[name]
             one == RoomForVLACount(L, n)
             room == count * one
             size == ToInt(count * SizeForVLACount(L, n))
  <2>1. /\ MayAllocate(name) /\ structs' = structs
        /\ L.varsize => count = 1 /\ n >= 0
        /\ size \in 0 .. MaxBytes
        /\ block' = [struct |-> name, count |-> count, room |-> room, size |-> size]
        BY <1>7 DEF StructAllocateCmd, tableVars
  <2>2. /\ mem' = Over(Fill(size, Junk), Fill(MaxBytes, Fence))
        /\ known' = [k \in 0 .. count - 1 |-> Unwritten(L)]
        BY <1>7, <2>1 DEF StructAllocateCmd
  <2>3. WellMade(L) /\ ~L.union /\ L # None
        BY <1>5, <2>1
  <2>4. Here' = L
        BY <2>1 DEF Here
  <2>5. count \in Nat \ {0} /\ n \in Int
        BY StructAssumption
  <2>6. /\ block'.struct = name /\ block'.count = count
        /\ block'.room = room /\ block'.size = size
        BY <2>1
  <2>7. room <= IntMax => size = room
    <3>1. one \in Nat /\ SizeForVLACount(L, n) = AsInt(L, one)
          BY <2>1, <2>3, <2>5, RoomOfCount DEF SizeOK, SizeForVLACount
    <3> HIDE DEF L, one
    <3>2. one <= room /\ room \in Nat
          BY <2>5, <3>1, AtLeastOne
    <3>3. ASSUME room <= IntMax PROVE SizeForVLACount(L, n) = one
      <4>1. one <= IntMax
            BY <3>1, <3>2, <3>3, StructAssumption
      <4> QED BY <3>1, <4>1, SizeOfRoom
    <3> QED BY <3>2, <3>3, ToIntFacts
  <2>8. room = count * RoomForVLACount(L, n)
        OBVIOUS
  <2> HIDE DEF L, size, room, one
  <2>9. ASSUME room <= IntMax PROVE BlockKept(L, count, size, mem', known')
        BY <2>1, <2>2, <2>3, <2>5, <2>7, <2>8, <2>9, StructAssumption, AllocatedKept
  <2> QED BY <1>1, <2>3, <2>4, <2>6, <2>7, <2>9 DEF BlockInv, InUse
<1>8. ASSUME InUse, block' = block, structs' = structs,
             BlockKept(Here, block.count, block.size, mem', known')
      PROVE  BlockInv'
      BY <1>1, <1>8 DEF BlockInv, InUse, Here
<1>9. ASSUME NEW index, NEW v \in Dicts, ToNative(index, v)
      PROVE  BlockInv'
  <2>1. /\ InUse /\ index \in StructIndexes /\ ~Here.varsize /\ Accepts(Here, v)
        /\ block' = block /\ structs' = structs
        BY <1>9 DEF ToNative, tableVars
  <2>2. /\ mem' = Over(Shift(Over(Image(Here, v), Fill(Here.size, Junk)), StructAddress(index)), mem)
        /\ known' = [known EXCEPT ![index] = Normal(Here, v).dict]
        BY <1>9 DEF ToNative
  <2>3. /\ WellMade(Here) /\ BlockKept(Here, block.count, block.size, mem, known)
        /\ index \in 0 .. block.count - 1 /\ StructAddress(index) = Here.size * index
        BY <2>1, BlockFacts
  <2>4. BlockKept(Here, block.count, block.size, mem', known')
        BY <2>1, <2>2, <2>3, ToNativeKept
  <2> QED BY <1>8, <2>1, <2>4
<1>10. ASSUME NEW index, NEW i \in DOMAIN Here.fields, NEW v, SetNative(index, i, v)
       PROVE  BlockInv'
  <2> DEFINE f == Here.fields[i]
  <2>1. /\ InUse /\ index \in StructIndexes /\ i # Here.count
        /\ ~VariableSize(f) /\ FieldAccepts(f, v, f.array)
        /\ block' = block /\ structs' = structs
        BY <1>10 DEF SetNative, tableVars
  <2>2. /\ mem' = Over(Shift(FieldImage(f, v, f.array, TRUE), FieldAddress(index, i)), mem)
        /\ known' = [known EXCEPT ![index][f.name] = NormalField(f, v, f.array)]
        BY <1>10 DEF SetNative
  <2>3. /\ WellMade(Here) /\ BlockKept(Here, block.count, block.size, mem, known)
        /\ index \in 0 .. block.count - 1 /\ StructAddress(index) = Here.size * index
        BY <2>1, BlockFacts
  <2>4. FieldAddress(index, i) = Here.size * index + Here.offsets[i]
        BY <2>3 DEF FieldAddress
  <2>5. BlockKept(Here, block.count, block.size, mem', known')
        BY <2>1, <2>2, <2>3, <2>4, SetNativeKept
  <2> QED BY <1>8, <2>1, <2>5
<1>11. ASSUME NEW v \in Dicts, CalleeFills(v)
       PROVE  BlockInv'
  <2>1. /\ InUse /\ Here.varsize /\ Accepts(Here, v) /\ RoomForObj(Here, v) <= block.room
        /\ block' = block /\ structs' = structs
        /\ mem' = Over(Image(Here, v), mem)
        /\ known' = [known EXCEPT ![0] = Normal(Here, v).dict]
        BY <1>11 DEF CalleeFills, tableVars
  <2>2. /\ WellMade(Here) /\ BlockKept(Here, block.count, block.size, mem, known)
        /\ block.size = block.room
        BY <2>1, BlockFacts DEF BlockInv
  <2>3. BlockKept(Here, block.count, block.size, mem', known')
        BY <2>1, <2>2, FilledKept
  <2> QED BY <1>8, <2>1, <2>3
<1> QED BY <1>2, <1>3, <1>4, <1>6, <1>7, <1>9, <1>10, <1>11 DEF StructNext

\* What the tail of a block says of the struct that is read.
LEMMA TailReads ==
    ASSUME NEW L, WellMade(L), ~L.union, L.varsize, NEW bytes, NEW size,
           NEW values, NEW v, TailOf(L, bytes, size, values, v)
    PROVE  /\ RoomForNative(L, bytes, 0) = RoomForObj(L, v)
           /\ \A i \in DOMAIN L.fields : NativeArrayCount(L, i, bytes, 0) = ArrayCount(L, i, v)
<1>1. KeyField(L) \in DOMAIN L.fields
      BY WellMadeFacts DEF KeyField
<1>2. Accepts(L, v) /\ Holds(bytes, L.offsets[KeyField(L)], FieldBytes(L, KeyField(L), v))
      BY DEF TailOf
<1>3. 0 + L.offsets[KeyField(L)] = L.offsets[KeyField(L)] /\ 0 \in Nat
      BY <1>1, WellMadeFacts
<1> DEFINE at == 0
<1>4. at \in Nat /\ Holds(bytes, at + L.offsets[KeyField(L)], FieldBytes(L, KeyField(L), v))
      BY <1>2, <1>3
<1> HIDE DEF at
<1>5. /\ RoomForNative(L, bytes, at) = RoomForObj(L, v)
      /\ L.count # 0 => NativeCount(L, bytes, at) = ObjCount(L, v)
      BY <1>2, <1>4, SizeReadBack
<1>6. \A i \in DOMAIN L.fields : NativeArrayCount(L, i, bytes, at) = ArrayCount(L, i, v)
      BY <1>2, <1>4, <1>5, NativeArrayCountReadBack
<1> QED BY <1>5, <1>6 DEF at

LEMMA FieldRead ==
    ASSUME NEW L, WellMade(L), NEW count, NEW size, NEW bytes, NEW values,
           BlockKept(L, count, size, bytes, values), NEW index \in 0 .. count - 1,
           NEW i \in DOMAIN L.fields, values[index][L.fields[i].name] # Junk
    PROVE  FieldToObj(L.fields[i], bytes, L.size * index + L.offsets[i],
                      NativeArrayCount(L, i, bytes, L.size * index))
               = values[index][L.fields[i].name]
<1> DEFINE f == L.fields[i]
           here == L.size * index
<1>1. ~L.union /\ Sized(L, count, size) /\ ValuesKept(L, count, bytes, values)
      /\ TailKept(L, bytes, size, values[0])
      BY DEF BlockKept
<1>2. L.size \in Nat /\ L.offsets[i] \in Nat /\ count \in Nat /\ index \in Nat
      BY <1>1, WellMadeFacts DEF Sized
<1>3. here \in Nat
      BY <1>2
<1>4. CASE ~VariableSize(f)
  <2>1. FieldKept(L, i, bytes, here, values[index][f.name])
        BY <1>1, <1>4 DEF ValuesKept
  <2> HIDE DEF here
  <2>2. PICK image : /\ Holds(bytes, here + L.offsets[i], image)
                     /\ Determines(image, f, values[index][f.name])
        BY <2>1 DEF FieldKept
  <2>3. here + L.offsets[i] \in Nat
        BY <1>2, <1>3
  <2>4. FieldToObj(f, bytes, here + L.offsets[i], f.array) = values[index][f.name]
        BY <2>2, <2>3 DEF Determines
  <2>5. NativeArrayCount(L, i, bytes, here) = f.array
        BY <1>4 DEF NativeArrayCount, VariableSize
  <2> QED BY <2>4, <2>5 DEF here
<1>5. CASE VariableSize(f)
  <2>1. L.varsize /\ i = Len(L.fields) /\ f = LastField(L)
        BY <1>5, WellMadeFacts DEF WellMade
  <2>2. index = 0 /\ here = 0 /\ L.size * index + L.offsets[i] = L.offsets[i]
    <3>1. count = 1
          BY <1>1, <2>1 DEF Sized
    <3>2. index = 0
          BY <1>2, <3>1
    <3> QED BY <1>2, <3>2
  <2>3. PICK v : TailOf(L, bytes, size, values[0], v)
        BY <1>1, <2>1, <2>2 DEF TailKept
  <2>4. Accepts(L, v) /\ Holds(bytes, L.offsets[i], FieldBytes(L, i, v))
        /\ values[0][f.name] = NormalValue(L, i, v)
        BY <2>1, <2>3 DEF TailOf
  <2>5. FieldToObj(f, bytes, L.offsets[i], ArrayCount(L, i, v)) = NormalValue(L, i, v)
    <3>1. RoomForObj(L, v) <= size /\ size \in Nat /\ size <= IntMax
          BY <1>1, <2>3 DEF TailOf, Sized
    <3>2. RoomForObj(L, v) \in Nat
          BY <2>4, SizeOfAccepted DEF SizeOK
    <3>3. FitsInt(L, v)
          BY <3>1, <3>2, StructAssumption DEF FitsInt
    <3> QED BY <1>1, <1>2, <2>4, <3>3, FieldReadBack
  <2>6. NativeArrayCount(L, i, bytes, 0) = ArrayCount(L, i, v)
        BY <1>1, <2>1, <2>3, TailReads
  <2> QED BY <2>2, <2>4, <2>5, <2>6
<1> QED BY <1>4, <1>5

LEMMA StructRead ==
    ASSUME NEW L, WellMade(L), NEW count, NEW size, NEW bytes, NEW values,
           BlockKept(L, count, size, bytes, values), NEW index \in 0 .. count - 1,
           \A name \in Names(L) : values[index][name] # Junk
    PROVE  ToObj(L, bytes, L.size * index) = Dict(values[index])
<1> DEFINE here == L.size * index
           Value(i) == FieldToObj(L.fields[i], bytes, here + L.offsets[i],
                                  NativeArrayCount(L, i, bytes, here))
<1>1. ~L.union /\ values[index] = [name \in Names(L) |-> values[index][name]]
      BY DEF BlockKept, ValuesKept
<1>2. ToObj(L, bytes, here) = Dict([name \in Names(L) |-> Value(FindField(L, name))])
      BY <1>1 DEF ToObj
<1>3. ASSUME NEW name \in Names(L) PROVE Value(FindField(L, name)) = values[index][name]
  <2>1. FindField(L, name) \in DOMAIN L.fields /\ L.fields[FindField(L, name)].name = name
        BY FieldFound
  <2> QED BY <2>1, FieldRead
<1> HIDE DEF Value, here
<1>4. [name \in Names(L) |-> Value(FindField(L, name))] = [name \in Names(L) |-> values[index][name]]
      BY <1>3
<1>5. [name \in Names(L) |-> values[index][name]] = values[index]
      BY <1>1
<1> QED BY <1>2, <1>4, <1>5 DEF here

\* How far a struct and its fields reach.
LEMMA StructBounded ==
    ASSUME NEW L, WellMade(L), NEW count, NEW size, NEW bytes, NEW values,
           BlockKept(L, count, size, bytes, values), NEW index \in 0 .. count - 1,
           L.varsize => values[index][L.fields[KeyField(L)].name] # Junk
    PROVE  LET reach == RoomForNative(L, bytes, L.size * index)
           IN  /\ reach \in Nat
               /\ L.size * index + reach <= size
               /\ \A i \in DOMAIN L.fields :
                     LET f == L.fields[i]
                         n == NativeArrayCount(L, i, bytes, L.size * index)
                     IN  L.offsets[i] + (IF f.array = Scalar THEN f.base.size
                                         ELSE n * f.base.size) <= reach
<1>1. ~L.union /\ Sized(L, count, size) /\ TailKept(L, bytes, size, values[0])
      BY DEF BlockKept
<1>2. L.size \in Nat /\ count \in Nat /\ index \in Nat /\ L.varsize \in BOOLEAN
      BY <1>1, WellMadeFacts DEF Sized
<1>3. CASE ~L.varsize
  <2>1. RoomForNative(L, bytes, L.size * index) = L.size
        BY <1>3 DEF RoomForNative
  <2>2. L.size * index + L.size <= size
        BY <1>1, <1>2, <1>3, StructRooms DEF Sized
  <2>3. ASSUME NEW i \in DOMAIN L.fields
        PROVE  LET f == L.fields[i]
                   n == NativeArrayCount(L, i, bytes, L.size * index)
               IN  L.offsets[i] + (IF f.array = Scalar THEN f.base.size
                                   ELSE n * f.base.size) <= L.size
    <3>1. ~VariableSize(L.fields[i])
          BY <1>3, WellMadeFacts
    <3>2. NativeArrayCount(L, i, bytes, L.size * index) = L.fields[i].array
          BY <3>1 DEF NativeArrayCount, VariableSize
    <3>3. L.offsets[i] + FieldSize(L.fields[i]) <= L.size
          BY WellMadeFacts
    <3> QED BY <3>2, <3>3 DEF FieldSize
  <2> QED BY <1>2, <2>1, <2>2, <2>3
<1>4. CASE L.varsize
  <2>1. index = 0 /\ L.size * index = 0
    <3>1. count = 1
          BY <1>1, <1>4 DEF Sized
    <3>2. index = 0
          BY <1>2, <3>1
    <3> QED BY <1>2, <3>2
  <2>2. PICK v : TailOf(L, bytes, size, values[0], v)
        BY <1>1, <1>4, <2>1 DEF TailKept
  <2>3. Accepts(L, v) /\ RoomForObj(L, v) <= size
        BY <2>2 DEF TailOf
  <2>4. /\ RoomForNative(L, bytes, 0) = RoomForObj(L, v)
        /\ \A i \in DOMAIN L.fields : NativeArrayCount(L, i, bytes, 0) = ArrayCount(L, i, v)
        BY <1>1, <1>4, <2>2, TailReads
  <2>5. RoomForObj(L, v) \in Nat
        BY <2>3, SizeOfAccepted DEF SizeOK
  <2>6. ASSUME NEW i \in DOMAIN L.fields
        PROVE  LET f == L.fields[i]
               IN  L.offsets[i] + (IF f.array = Scalar THEN f.base.size
                                   ELSE ArrayCount(L, i, v) * f.base.size) <= RoomForObj(L, v)
    <3> DEFINE f == L.fields[i]
               extent == IF f.array = Scalar THEN f.base.size ELSE ArrayCount(L, i, v) * f.base.size
    <3>1. Room(L, i, v) \in Nat /\ L.offsets[i] + Room(L, i, v) <= RoomForObj(L, v)
          BY <1>1, <2>3, FieldRooms
    <3>2. L.offsets[i] \in Nat /\ f.base.size \in Nat
          BY WellMadeFacts
    <3>3. extent \in Int /\ extent <= Room(L, i, v)
      <4>1. CASE Given(L, i, v) /\ f.array = Scalar
        <5>1. FieldAccepts(f, FieldObj(L, i, v), ArrayCount(L, i, v))
              BY <1>1, <2>3, <4>1, AcceptedParts
        <5>2. ElemAccepts(f.base, FieldObj(L, i, v)) /\ BaseFaithful(f.base)
              BY <4>1, <5>1 DEF FieldAccepts, WellMade, FieldFaithful
        <5>3. SizeOK(ElemSize(f.base, FieldObj(L, i, v)), f.base.size, f.base.varsize)
              BY <5>2, ElemMeasures
        <5>4. Room(L, i, v) = ElemSize(f.base, FieldObj(L, i, v))
              BY <4>1 DEF Room, FieldExtent
        <5> QED BY <3>2, <4>1, <5>3, <5>4 DEF SizeOK
      <4>2. CASE ~(Given(L, i, v) /\ f.array = Scalar)
        <5>1. Room(L, i, v) = extent
              BY <4>2 DEF Room, FieldExtent
        <5> HIDE DEF extent
        <5> QED BY <3>1, <5>1
      <4> QED BY <4>1, <4>2
    <3>4. L.offsets[i] + extent <= RoomForObj(L, v)
      <4> HIDE DEF extent
      <4> QED BY <2>5, <3>1, <3>2, <3>3
    <3> QED BY <3>4
  <2>7. 0 + RoomForObj(L, v) = RoomForObj(L, v)
        BY <2>5
  <2>8. RoomForNative(L, bytes, L.size * index) = RoomForObj(L, v)
        BY <2>1, <2>4
  <2>9. \A i \in DOMAIN L.fields : NativeArrayCount(L, i, bytes, L.size * index) = ArrayCount(L, i, v)
        BY <2>1, <2>4
  <2> QED BY <2>1, <2>3, <2>5, <2>6, <2>7, <2>8, <2>9
<1> QED BY <1>2, <1>3, <1>4

LEMMA BlockReads ==
    ASSUME BlockInv
    PROVE  ReadsBack
<1> SUFFICES ASSUME InUse, NEW index \in DOMAIN known
    PROVE  /\ \A i \in DOMAIN Here.fields :
                  LET f == Here.fields[i] IN
                  known[index][f.name] # Junk =>
                      FieldToObj(f, mem, FieldAddress(index, i),
                                 NativeArrayCount(Here, i, mem, StructAddress(index)))
                          = known[index][f.name]
           /\ (\A name \in Names(Here) : known[index][name] # Junk) =>
                  ToObj(Here, mem, StructAddress(index)) = Dict(known[index])
    BY DEF ReadsBack
<1>1. /\ WellMade(Here) /\ BlockKept(Here, block.count, block.size, mem, known)
      /\ StructIndexes = 0 .. block.count - 1
      /\ \A k \in StructIndexes : StructAddress(k) = Here.size * k
      BY BlockFacts
<1>2. index \in 0 .. block.count - 1
      BY <1>1 DEF BlockKept, ValuesKept
<1>3. StructAddress(index) = Here.size * index
      BY <1>1, <1>2
<1> QED BY <1>1, <1>2, <1>3, FieldRead, StructRead DEF FieldAddress

LEMMA BlockBounds ==
    ASSUME BlockInv
    PROVE  InBounds
<1> SUFFICES ASSUME InUse
    PROVE  /\ Here # None
           /\ \A k \in DOMAIN mem : (k >= block.size) = (mem[k] = Fence)
           /\ \A index \in DOMAIN known :
              LET size == IF CountKnown(index)
                          THEN SizeForNative(Here, mem, StructAddress(index)) ELSE Here.size
              IN  /\ size # Fails
                  /\ StructAddress(index) + size <= block.size
                  /\ CountKnown(index) =>
                        \A i \in DOMAIN Here.fields :
                            LET f == Here.fields[i]
                                n == NativeArrayCount(Here, i, mem, StructAddress(index))
                            IN  Here.offsets[i]
                                  + (IF f.array = Scalar THEN f.base.size ELSE n * f.base.size)
                                    <= size
    BY DEF InBounds, Here
<1>1. /\ WellMade(Here) /\ BlockKept(Here, block.count, block.size, mem, known)
      /\ StructIndexes = 0 .. block.count - 1
      /\ \A k \in StructIndexes : StructAddress(k) = Here.size * k
      BY BlockFacts
<1>2. Here # None
      BY DEF BlockInv, InUse
<1>3. \A k \in DOMAIN mem : (k >= block.size) = (mem[k] = Fence)
  <2>1. Fenced(mem, block.size)
        BY <1>1 DEF BlockKept
  <2> QED BY <2>1 DEF Fenced
<1>4. ASSUME NEW index \in DOMAIN known
      PROVE  LET size == IF CountKnown(index)
                         THEN SizeForNative(Here, mem, StructAddress(index)) ELSE Here.size
             IN  /\ size # Fails
                 /\ StructAddress(index) + size <= block.size
                 /\ CountKnown(index) =>
                       \A i \in DOMAIN Here.fields :
                           LET f == Here.fields[i]
                               n == NativeArrayCount(Here, i, mem, StructAddress(index))
                           IN  Here.offsets[i]
                                 + (IF f.array = Scalar THEN f.base.size ELSE n * f.base.size)
                                   <= size
  <2>1. index \in 0 .. block.count - 1
        BY <1>1, <1>4 DEF BlockKept, ValuesKept
  <2>2. StructAddress(index) = Here.size * index
        BY <1>1, <2>1
  <2>3. CASE CountKnown(index)
    <3>1. Here.varsize => known[index][Here.fields[KeyField(Here)].name] # Junk
          BY <1>1, <2>3, WellMadeFacts DEF CountKnown, KeyField
    <3> DEFINE at    == Here.size * index
               reach == RoomForNative(Here, mem, at)
    <3>2. /\ reach \in Nat /\ at + reach <= block.size
          /\ \A i \in DOMAIN Here.fields :
                LET f == Here.fields[i]
                    n == NativeArrayCount(Here, i, mem, at)
                IN  Here.offsets[i] + (IF f.array = Scalar THEN f.base.size
                                       ELSE n * f.base.size) <= reach
          BY <1>1, <2>1, <3>1, StructBounded
    <3>3. at \in Nat /\ block.size \in Nat /\ block.size <= IntMax
      <4>1. Here.size \in Nat /\ Sized(Here, block.count, block.size)
            BY <1>1, WellMadeFacts DEF BlockKept
      <4>2. index \in Nat
            BY <2>1
      <4> QED BY <4>1, <4>2 DEF Sized
    <3>4. SizeForNative(Here, mem, at) = reach
      <4> HIDE DEF at
      <4>1. SizeForNative(Here, mem, at) = AsInt(Here, reach)
            BY DEF SizeForNative
      <4> HIDE DEF reach
      <4>2. reach <= IntMax
            BY <3>2, <3>3, StructAssumption
      <4> QED BY <3>2, <4>1, <4>2, SizeOfRoom
    <3>5. reach # Fails
      <4> HIDE DEF reach
      <4> QED BY <3>2, StructAssumption DEF Fails
    <3> HIDE DEF reach
    <3> QED BY <2>2, <2>3, <3>2, <3>4, <3>5
  <2>4. CASE ~CountKnown(index)
    <3>1. Here.varsize /\ Here.size \in Nat
          BY <1>1, <2>4, WellMadeFacts DEF CountKnown
    <3>2. block.count = 1 /\ Here.size <= block.size
          BY <1>1, <3>1 DEF BlockKept, Sized
    <3>3. index = 0
          BY <2>1, <3>2
    <3>4. StructAddress(index) = 0
          BY <3>1 DEF StructAddress
    <3> QED BY <2>4, <3>1, <3>2, <3>4, StructAssumption DEF Fails
  <2> QED BY <2>3, <2>4
<1> QED BY <1>2, <1>3, <1>4

\* Every field and every struct of a block is read as what was stored in it last, for
\* every definition and nesting, whatever was stored beside it, in a block whose bytes are a
\* number that fits an int (CffiStructGetNativeCmd, CffiStructFromNativeCmd;
\* Struct.c:1813, 2045).
THEOREM StructsReadBack ==
    ASSUME NestedAlike
    PROVE  StructSpec => []ReadsBack
<1>1. BlockInv => ReadsBack
      BY BlockReads
<1> QED BY <1>1, BlockInitially, BlockStep, PTL DEF StructSpec

\* No command writes outside the block, and the block holds all that its structs are read
\* for, also with the count that is found in memory (Struct.c:1504, 1602, 2323), whenever
\* the bytes its structs need are a number that fits an int.  They need not be: new and
\* allocate then take a smaller block (Struct.c:352, 1571), and nothing is claimed of it.
THEOREM StructsInBounds ==
    ASSUME NestedAlike
    PROVE  StructSpec => []InBounds
<1>1. BlockInv => InBounds
      BY BlockBounds
<1> QED BY <1>1, BlockInitially, BlockStep, PTL DEF StructSpec
=============================================================================

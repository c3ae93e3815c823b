---------------------------- MODULE ArenaProofs ----------------------------
(***************************************************************************)
(* Proofs about the arena, for every set of addresses and whatever the     *)
(* script does with the pointers it gets.                                  *)
(***************************************************************************)
EXTENDS Arena, SequenceTheorems, TLAPS

\* What pushing on and popping from a sequence does to its elements.
LEMMA AppendFacts ==
    ASSUME NEW S, NEW s \in Seq(S), NEW x \in S
    PROVE  /\ Append(s, x) \in Seq(S)
           /\ Len(Append(s, x)) = Len(s) + 1
           /\ \A i \in DOMAIN s : i \in DOMAIN Append(s, x) /\ Append(s, x)[i] = s[i]
           /\ Len(s) + 1 \in DOMAIN Append(s, x)
           /\ Append(s, x)[Len(s) + 1] = x
           /\ \A i \in DOMAIN Append(s, x) : i \in DOMAIN s \/ i = Len(s) + 1
  OBVIOUS

LEMMA FrontFacts ==
    ASSUME NEW S, NEW s \in Seq(S), s # <<>>
    PROVE  /\ SubSeq(s, 1, Len(s) - 1) \in Seq(S)
           /\ DOMAIN SubSeq(s, 1, Len(s) - 1) = 1 .. Len(s) - 1
           /\ \A i \in 1 .. Len(s) - 1 :
                 i \in DOMAIN s /\ SubSeq(s, 1, Len(s) - 1)[i] = s[i]
           /\ Len(s) \in DOMAIN s
           /\ Len(s) \in Nat \ {0}
           /\ DOMAIN s = 1 .. Len(s)
  OBVIOUS

\* What linking a new block does to the frames.
LEMMA AllocateFacts ==
    ASSUME TypeOK, NEW a \in Address, Allocate(a)
    PROVE  /\ lifo' = Append(lifo, a) /\ lifo' \in Seq(Address)
           /\ frames' \in Seq(Frame) /\ DOMAIN frames' = DOMAIN frames
           /\ Len(frames) \in DOMAIN frames
           /\ \A i \in DOMAIN frames :
                 i # Len(frames) => frames'[i] = frames[i]
           /\ frames'[Len(frames)].header = frames[Len(frames)].header
           /\ frames'[Len(frames)].blocks = frames[Len(frames)].blocks \cup {a}
           /\ open' \in BOOLEAN /\ claims' \in BOOLEAN
  <1> DEFINE n == Len(frames)
             f == [frames[n] EXCEPT !.blocks = frames[n].blocks \cup {a}]
  <1>1. n \in 1 .. Len(frames) /\ frames[n] \in Frame /\ DOMAIN frames = 1 .. Len(frames)
    BY EmptySeq, LenProperties, ElementOfSeq DEF TypeOK, Allocate
  <1>2. /\ f \in Frame
        /\ f.header = frames[n].header
        /\ f.blocks = frames[n].blocks \cup {a}
    BY <1>1 DEF Frame
  <1>3. frames' = [frames EXCEPT ![n] = f]
    BY DEF Allocate
  <1>4. lifo' = Append(lifo, a) /\ lifo' \in Seq(Address) /\ open' \in BOOLEAN /\ claims' \in BOOLEAN
    BY DEF TypeOK, Allocate, LifoPush
  <1> HIDE DEF f
  <1>5. frames' \in Seq(Frame) /\ Len(frames') = Len(frames)
    BY <1>1, <1>2, <1>3, ExceptSeq DEF TypeOK
  <1>6. /\ DOMAIN frames' = DOMAIN frames
        /\ \A i \in DOMAIN frames : i # n => frames'[i] = frames[i]
        /\ frames'[n] = f
    BY <1>1, <1>3
  <1> QED BY <1>1, <1>2, <1>4, <1>5, <1>6

\* The registry operators keep the registry a table of entries.
LEMMA RegistryTyped ==
    ASSUME NEW reg \in [Address -> Entry], NEW a \in Address
    PROVE  /\ RegisterSafe(reg, NoSuper, a, Void) \in [Address -> Entry]
           /\ RegisterCounted(reg, NoSuper, a, Void) \in [Address -> Entry]
           /\ RegisterPinned(reg, a) \in [Address -> Entry]
           /\ Unregister(reg, a) \in [Address -> Entry]
           /\ Invalidate(reg, a) \in [Address -> Entry]
  <1>1. RegisterSafe(reg, NoSuper, a, Void) \in [Address -> Entry]
    BY DEF RegisterSafe, SafeEntry, MergedTag, Entry, Kinds, Tags
  <1>2. RegisterCounted(reg, NoSuper, a, Void) \in [Address -> Entry]
    BY DEF RegisterCounted, CountedEntry, MergedTag, Entry, Kinds, Tags
  <1>3. RegisterPinned(reg, a) \in [Address -> Entry]
    BY DEF RegisterPinned, PinnedEntry, Entry, Kinds, Tags
  <1>4. Unregister(reg, a) \in [Address -> Entry]
    BY DEF Unregister, ReleasedEntry, Unregistered, Entry, Kinds, Tags
  <1>5. Invalidate(reg, a) \in [Address -> Entry]
    BY DEF Invalidate, Unregistered, Entry, Kinds, Tags
  <1> QED BY <1>1, <1>2, <1>3, <1>4, <1>5

LEMMA UnregisterAllTyped ==
    ASSUME NEW reg \in [Address -> Entry], NEW As
    PROVE  UnregisterAll(reg, As) \in [Address -> Entry]
  BY DEF UnregisterAll, ReleasedEntry, Unregistered, Entry, Kinds, Tags

-----------------------------------------------------------------------------

\* The arena keeps its store, its frames and the registry well typed
\* (Arena.c:28-140).
THEOREM ArenaTypeCorrect == Spec => []TypeOK
  <1>1. Init => TypeOK
    <2>1. Unregistered \in Entry
      BY DEF Unregistered, Entry, Kinds, Tags
    <2>2. Init => lifo \in Seq(Address) /\ frames \in Seq(Frame)
      BY EmptySeq DEF Init
    <2>3. Init => registry \in [Address -> Entry]
      BY <2>1 DEF Init
    <2>4. Init => open \in BOOLEAN /\ claims \in BOOLEAN /\ drops \in BOOLEAN
      BY DEF Init
    <2> QED BY <2>2, <2>3, <2>4 DEF TypeOK
  <1>2. TypeOK /\ [Next]_vars => TypeOK'
    <2> SUFFICES ASSUME TypeOK, [Next]_vars PROVE TypeOK'
      OBVIOUS
    <2> USE DEF TypeOK, LifoPush, LifoPop
    <2>1. ASSUME NEW h \in Address, NEW sized \in BOOLEAN, PushFrame(h, sized)
          PROVE  TypeOK'
      <3>1. [header |-> h, blocks |-> IF sized THEN {h} ELSE {}] \in Frame
        BY DEF Frame
      <3>2. lifo' \in Seq(Address) /\ frames' \in Seq(Frame)
        BY <2>1, <3>1 DEF PushFrame
      <3> QED BY <2>1, <3>2, RegistryTyped DEF PushFrame
    <2>2. ASSUME NEW a \in Address, Allocate(a)
          PROVE  /\ lifo' \in Seq(Address) /\ frames' \in Seq(Frame)
                 /\ open' \in BOOLEAN /\ claims' \in BOOLEAN
      BY <2>2, AllocateFacts
    <2>3. ASSUME NEW a \in Address, ArenaAllocate(a) PROVE TypeOK'
      BY <2>2, <2>3, RegistryTyped DEF ArenaAllocate
    <2>4. ASSUME NEW a \in Address, NEW converts \in BOOLEAN, ArenaNew(a, converts)
          PROVE  TypeOK'
      BY <2>2, <2>4, RegistryTyped DEF ArenaNew
    <2>5. CASE PopFrame
      <3>1. lifo' \in Seq(Address) /\ frames' \in Seq(Frame)
        <4>1. \A i \in 1 .. Len(lifo) - 1 : lifo[i] \in Address
          OBVIOUS
        <4>2. \A i \in 1 .. Len(frames) - 1 : frames[i] \in Frame
          OBVIOUS
        <4>3. Len(lifo) - 1 \in Int /\ Len(frames) - 1 \in Int
          OBVIOUS
        <4> QED BY <2>5, <4>1, <4>2, <4>3, SubSeqProperties DEF PopFrame
      <3> QED BY <2>5, <3>1, UnregisterAllTyped DEF PopFrame
    <2>6. CASE Finit
      <3>1. open' \in BOOLEAN /\ claims' \in BOOLEAN /\ drops' \in BOOLEAN /\ lifo' \in Seq(Address) /\ frames' \in Seq(Frame)
        BY <2>6, EmptySeq DEF Finit
      <3> QED BY <2>6, <3>1, UnregisterAllTyped DEF Finit
    <2>7. ASSUME NEW a \in Address, EnvRegister(a) PROVE TypeOK'
      BY <2>7, RegistryTyped DEF EnvRegister
    <2>8. ASSUME NEW a \in Address, EnvUnregister(a) PROVE TypeOK'
      BY <2>8, RegistryTyped DEF EnvUnregister
    <2>9. CASE UNCHANGED vars
      BY <2>9 DEF vars
    <2> QED BY <2>1, <2>3, <2>4, <2>5, <2>6, <2>7, <2>8, <2>9 DEF Next
  <1> QED BY <1>1, <1>2, PTL DEF Spec

-----------------------------------------------------------------------------
(* The frames stay stacked: one lemma for each way the store changes.      *)

LEMMA PushKeepsStacked ==
    ASSUME TypeOK, FramesStacked, NEW h \in Address, NEW sized \in BOOLEAN,
           PushFrame(h, sized)
    PROVE  FramesStacked'
  <1> DEFINE f == [header |-> h, blocks |-> IF sized THEN {h} ELSE {}]
             n == Len(frames) + 1
             m == Len(lifo) + 1
  <1>1. /\ DOMAIN lifo = 1 .. Len(lifo) /\ DOMAIN lifo' = 1 .. m
        /\ \A p \in DOMAIN lifo : lifo'[p] = lifo[p]
        /\ lifo'[m] = h /\ Len(lifo) \in Nat
    BY AppendFacts, LenProperties DEF PushFrame, LifoPush, TypeOK
  <1>2. f \in Frame /\ f.header = h /\ Chunks(f) = {h}
    BY DEF Frame, Chunks
  <1> HIDE DEF f
  <1>3. /\ DOMAIN frames = 1 .. Len(frames) /\ DOMAIN frames' = 1 .. n
        /\ \A i \in DOMAIN frames : frames'[i] = frames[i]
        /\ frames'[n] = f /\ Len(frames) \in Nat
    BY <1>2 DEF PushFrame, TypeOK, f
  <1>4. \A p \in DOMAIN lifo : lifo[p] # h
    BY DEF PushFrame, LifoFresh, Elements
  <1>5. \A i \in DOMAIN frames : h \notin Chunks(frames[i])
    BY <1>4 DEF FramesStacked, LiveBlocksBacked, Elements
  <1>6. LifoInjective'
    BY <1>1, <1>4 DEF FramesStacked, LifoInjective
  <1>7. LiveBlocksBacked'
    BY <1>1, <1>2, <1>3 DEF FramesStacked, LiveBlocksBacked, Elements
  <1>8. FramesDisjoint'
    BY <1>2, <1>3, <1>5 DEF FramesStacked, FramesDisjoint
  <1>9. HeaderAboveLowerFrames'
    <2> SUFFICES ASSUME NEW i \in DOMAIN frames', NEW j \in DOMAIN frames', j < i,
                        NEW x \in Chunks(frames'[j])
                 PROVE  \E p, q \in DOMAIN lifo' :
                            p < q /\ lifo'[p] = x /\ lifo'[q] = frames'[i].header
      BY DEF HeaderAboveLowerFrames
    <2>1. j \in DOMAIN frames /\ x \in Chunks(frames[j])
      BY <1>3
    <2>2. CASE i = n
      <3>1. PICK p \in DOMAIN lifo : lifo[p] = x
        BY <2>1 DEF FramesStacked, LiveBlocksBacked, Elements
      <3> QED BY <1>1, <1>2, <1>3, <2>2, <3>1
    <2>3. CASE i # n
      <3>1. i \in DOMAIN frames /\ frames'[i] = frames[i]
        BY <1>3, <2>3
      <3>2. PICK p, q \in DOMAIN lifo : p < q /\ lifo[p] = x /\ lifo[q] = frames[i].header
        BY <2>1, <3>1 DEF FramesStacked, HeaderAboveLowerFrames
      <3> QED BY <1>1, <3>1, <3>2
    <2> QED BY <2>2, <2>3
  <1> QED BY <1>6, <1>7, <1>8, <1>9 DEF FramesStacked

LEMMA AllocateKeepsStacked ==
    ASSUME TypeOK, FramesStacked, NEW a \in Address, Allocate(a)
    PROVE  FramesStacked'
  <1> DEFINE n == Len(frames)
             m == Len(lifo) + 1
  <1>1. /\ DOMAIN lifo = 1 .. Len(lifo) /\ DOMAIN lifo' = 1 .. m
        /\ \A p \in DOMAIN lifo : lifo'[p] = lifo[p]
        /\ lifo'[m] = a /\ Len(lifo) \in Nat
    BY AppendFacts, LenProperties DEF Allocate, LifoPush, TypeOK
  <1>2. /\ DOMAIN frames' = DOMAIN frames /\ DOMAIN frames = 1 .. n
        /\ n \in DOMAIN frames
        /\ \A i \in DOMAIN frames : i # n => Chunks(frames'[i]) = Chunks(frames[i])
        /\ Chunks(frames'[n]) = Chunks(frames[n]) \cup {a}
        /\ \A i \in DOMAIN frames : frames'[i].header = frames[i].header
    BY AllocateFacts, LenProperties DEF Chunks, TypeOK
  <1>3. \A p \in DOMAIN lifo : lifo[p] # a
    BY DEF Allocate, LifoFresh, Elements
  <1>4. \A i \in DOMAIN frames : a \notin Chunks(frames[i])
    BY <1>3 DEF FramesStacked, LiveBlocksBacked, Elements
  <1> HIDE DEF n
  <1>5. LifoInjective'
    BY <1>1, <1>3 DEF FramesStacked, LifoInjective
  <1>6. LiveBlocksBacked'
    BY <1>1, <1>2 DEF FramesStacked, LiveBlocksBacked, Elements
  <1>7. FramesDisjoint'
    <2> SUFFICES ASSUME NEW i \in DOMAIN frames, NEW j \in DOMAIN frames, i # j
                 PROVE  Chunks(frames'[i]) \cap Chunks(frames'[j]) = {}
      BY <1>2 DEF FramesDisjoint
    <2>1. Chunks(frames[i]) \cap Chunks(frames[j]) = {}
      BY DEF FramesStacked, FramesDisjoint
    <2> QED BY <1>2, <1>4, <2>1
  <1>8. HeaderAboveLowerFrames'
    <2> SUFFICES ASSUME NEW i \in DOMAIN frames, NEW j \in DOMAIN frames, j < i,
                        NEW x \in Chunks(frames'[j])
                 PROVE  \E p, q \in DOMAIN lifo' :
                            p < q /\ lifo'[p] = x /\ lifo'[q] = frames'[i].header
      BY <1>2 DEF HeaderAboveLowerFrames
    <2>1. j # n
      BY <1>2
    <2>2. PICK p, q \in DOMAIN lifo : p < q /\ lifo[p] = x /\ lifo[q] = frames[i].header
      BY <1>2, <2>1 DEF FramesStacked, HeaderAboveLowerFrames
    <2> QED BY <1>1, <1>2, <2>2
  <1> QED BY <1>5, <1>6, <1>7, <1>8 DEF FramesStacked

LEMMA PopKeepsStacked ==
    ASSUME TypeOK, FramesStacked, PopFrame
    PROVE  FramesStacked'
  <1> DEFINE n == Len(frames)
             m == Len(lifo)
  <1>1. /\ DOMAIN frames = 1 .. n /\ n \in Nat \ {0}
        /\ DOMAIN frames' = 1 .. n - 1
        /\ \A i \in 1 .. n - 1 : frames'[i] = frames[i]
    BY FrontFacts DEF PopFrame, TypeOK
  <1>2. n \in DOMAIN frames /\ frames[n].header \in Chunks(frames[n])
    BY <1>1 DEF Chunks
  <1>3. PICK top \in DOMAIN lifo : lifo[top] = frames[n].header
    BY <1>2 DEF FramesStacked, LiveBlocksBacked, Elements
  <1>4. lifo # <<>> /\ lifo \in Seq(Address)
    BY <1>3 DEF TypeOK
  <1>5. /\ DOMAIN lifo = 1 .. m /\ m \in Nat \ {0}
        /\ DOMAIN lifo' = 1 .. m - 1
        /\ \A p \in 1 .. m - 1 : lifo'[p] = lifo[p]
    BY <1>4, FrontFacts DEF PopFrame, LifoPop
  <1> HIDE DEF n, m
  <1>6. LifoInjective'
    BY <1>5 DEF FramesStacked, LifoInjective
  <1>7. ASSUME NEW i \in 1 .. n - 1, NEW x \in Chunks(frames[i]),
               NEW p \in DOMAIN lifo, lifo[p] = x
        PROVE  p \in 1 .. m - 1
    <2>1. PICK p1, q1 \in DOMAIN lifo : p1 < q1 /\ lifo[p1] = x /\ lifo[q1] = frames[n].header
      BY <1>1, <1>2 DEF FramesStacked, HeaderAboveLowerFrames
    <2>2. p = p1
      BY <1>7, <2>1 DEF FramesStacked, LifoInjective
    <2> QED BY <1>5, <2>1, <2>2
  <1>8. LiveBlocksBacked'
    <2> SUFFICES ASSUME NEW i \in 1 .. n - 1, NEW x \in Chunks(frames[i])
                 PROVE  \E p \in DOMAIN lifo' : lifo'[p] = x
      BY <1>1 DEF LiveBlocksBacked, Elements
    <2>1. PICK p \in DOMAIN lifo : lifo[p] = x
      BY <1>1 DEF FramesStacked, LiveBlocksBacked, Elements
    <2> QED BY <1>5, <1>7, <2>1
  <1>9. FramesDisjoint'
    BY <1>1 DEF FramesStacked, FramesDisjoint
  <1>10. ASSUME NEW i \in 1 .. n - 1, NEW j \in 1 .. n - 1, j < i,
                NEW x \in Chunks(frames[j])
         PROVE  \E p, q \in DOMAIN lifo' :
                    p < q /\ lifo'[p] = x /\ lifo'[q] = frames[i].header
    <2>1. i \in DOMAIN frames /\ j \in DOMAIN frames
      BY <1>1
    <2>2. PICK p, q \in DOMAIN lifo : p < q /\ lifo[p] = x /\ lifo[q] = frames[i].header
      BY <1>10, <2>1 DEF FramesStacked, HeaderAboveLowerFrames
    <2>3. frames[i].header \in Chunks(frames[i])
      BY DEF Chunks
    <2>4. p \in 1 .. m - 1 /\ q \in 1 .. m - 1
      BY <1>7, <2>2, <2>3
    <2> QED BY <1>5, <2>2, <2>4
  <1>11. HeaderAboveLowerFrames'
    <2> SUFFICES ASSUME NEW i \in DOMAIN frames', NEW j \in DOMAIN frames', j < i,
                        NEW x \in Chunks(frames'[j])
                 PROVE  \E p, q \in DOMAIN lifo' :
                            p < q /\ lifo'[p] = x /\ lifo'[q] = frames'[i].header
      BY DEF HeaderAboveLowerFrames
    <2>1. i \in 1 .. n - 1 /\ j \in 1 .. n - 1
      BY <1>1
    <2>2. frames'[i] = frames[i] /\ frames'[j] = frames[j]
      BY <1>1, <2>1
    <2> QED BY <1>10, <2>1, <2>2
  <1> QED BY <1>6, <1>8, <1>9, <1>11 DEF FramesStacked

\* The memory of live frames is never freed or reused, although a pop frees one
\* chunk whatever the frame holds (Arena.c:119-140).
THEOREM FramesCorrect == Spec => []FramesStacked
  <1>1. Init => FramesStacked
    BY DEF Init, FramesStacked, LifoInjective, LiveBlocksBacked, FramesDisjoint,
           HeaderAboveLowerFrames
  <1>2. TypeOK /\ FramesStacked /\ [Next]_vars => FramesStacked'
    <2> SUFFICES ASSUME TypeOK, FramesStacked, [Next]_vars PROVE FramesStacked'
      OBVIOUS
    <2>1. ASSUME NEW h \in Address, NEW sized \in BOOLEAN, PushFrame(h, sized)
          PROVE  FramesStacked'
      BY <2>1, PushKeepsStacked
    <2>2. ASSUME NEW a \in Address, Allocate(a) PROVE FramesStacked'
      BY <2>2, AllocateKeepsStacked
    <2>3. CASE PopFrame
      BY <2>3, PopKeepsStacked
    <2>4. CASE Finit
      BY <2>4 DEF Finit, FramesStacked, LifoInjective, LiveBlocksBacked, FramesDisjoint,
                  HeaderAboveLowerFrames
    <2>5. CASE UNCHANGED <<lifo, frames>>
      BY <2>5 DEF FramesStacked, LifoInjective, LiveBlocksBacked, FramesDisjoint,
                  HeaderAboveLowerFrames, Elements
    <2> QED
      BY <2>1, <2>2, <2>3, <2>4, <2>5 
         DEF Next, ArenaAllocate, ArenaNew, EnvRegister, EnvUnregister, vars
  <1> QED BY <1>1, <1>2, ArenaTypeCorrect, PTL DEF Spec

\* In particular every live block is backed by memory.
THEOREM BackedCorrect == Spec => []LiveBlocksBacked
  <1>1. FramesStacked => LiveBlocksBacked
    BY DEF FramesStacked
  <1> QED BY <1>1, FramesCorrect, PTL

\* Popping a frame leaves the pointers into the frames below it as they were:
\* its blocks are not theirs (Arena.c:131-137).
THEOREM PopLowerCorrect == Spec => PopKeepsLowerFrames
  <1> DEFINE Kept == PopFrame => \A i \in DOMAIN frames' : \A a \in frames[i].blocks :
                                     registry'[a] = registry[a]
  <1>1. TypeOK /\ FramesStacked /\ [Next]_vars => [Kept]_vars
    <2> SUFFICES ASSUME TypeOK, FramesStacked, PopFrame,
                        NEW i \in DOMAIN frames', NEW a \in frames[i].blocks
                 PROVE  registry'[a] = registry[a]
      OBVIOUS
    <2> DEFINE n == Len(frames)
    <2>1. i \in DOMAIN frames /\ n \in DOMAIN frames /\ i # n
      BY FrontFacts DEF PopFrame, TypeOK
    <2>2. frames[i] \in Frame
      BY <2>1 DEF TypeOK
    <2>3. a \in Address
      BY <2>2 DEF Frame
    <2>4. a \notin frames[n].blocks
      BY <2>1 DEF FramesStacked, FramesDisjoint, Chunks
    <2> QED BY <2>3, <2>4 DEF PopFrame, UnregisterAll, TypeOK
  <1> QED BY <1>1, ArenaTypeCorrect, FramesCorrect, PTL DEF Spec, PopKeepsLowerFrames

-----------------------------------------------------------------------------

\* A script that registers nothing itself never turns a block into a counted or
\* pinned pointer.
OnlySafe == \A a \in Address : registry[a].kind \in {"none", "safe"}

Unclaimed == claims \/ (OnlySafe /\ RegisteredAreLive)

LEMMA HistoryKept == [Next]_vars => (claims => claims') /\ (drops => drops')
  <1> SUFFICES ASSUME [Next]_vars PROVE (claims => claims') /\ (drops => drops')
    OBVIOUS
  <1>1. ASSUME NEW h \in Address, NEW sized \in BOOLEAN, PushFrame(h, sized)
        PROVE  UNCHANGED <<claims, drops>>
    BY <1>1 DEF PushFrame
  <1>2. ASSUME NEW a \in Address, ArenaAllocate(a) PROVE UNCHANGED <<claims, drops>>
    BY <1>2 DEF ArenaAllocate, Allocate
  <1>3. ASSUME NEW a \in Address, NEW converts \in BOOLEAN, ArenaNew(a, converts)
        PROVE  claims' = claims /\ (drops => drops')
    BY <1>3, Zenon DEF ArenaNew, Allocate
  <1>4. CASE PopFrame
    BY <1>4 DEF PopFrame
  <1>5. CASE Finit
    BY <1>5 DEF Finit
  <1>6. ASSUME NEW a \in Address, EnvRegister(a) PROVE claims' /\ drops' = drops
    BY <1>6 DEF EnvRegister
  <1>7. ASSUME NEW a \in Address, EnvUnregister(a) PROVE claims' = claims /\ drops'
    BY <1>7 DEF EnvUnregister
  <1>8. CASE UNCHANGED vars
    BY <1>8 DEF vars
  <1> QED BY <1>1, <1>2, <1>3, <1>4, <1>5, <1>6, <1>7, <1>8, Zenon DEF Next

\* What a block that is linked to a frame does to the live blocks.
LEMMA AllocateLives ==
    ASSUME TypeOK, NEW a \in Address, Allocate(a)
    PROVE  LiveBlocks' = LiveBlocks \cup {a}
  <1>1. /\ DOMAIN frames' = DOMAIN frames
        /\ Len(frames) \in DOMAIN frames
        /\ \A i \in DOMAIN frames : i # Len(frames) => frames'[i].blocks = frames[i].blocks
        /\ frames'[Len(frames)].blocks = frames[Len(frames)].blocks \cup {a}
    BY AllocateFacts
  <1> QED BY <1>1 DEF LiveBlocks

LEMMA PushLives ==
    ASSUME TypeOK, NEW h \in Address, NEW sized \in BOOLEAN, PushFrame(h, sized)
    PROVE  LiveBlocks' = LiveBlocks \cup (IF sized THEN {h} ELSE {})
  <1> DEFINE f == [header |-> h, blocks |-> IF sized THEN {h} ELSE {}]
  <1>1. f \in Frame /\ f.blocks = IF sized THEN {h} ELSE {}
    BY DEF Frame
  <1>2. frames' = Append(frames, f)
    BY DEF PushFrame
  <1> HIDE DEF f
  <1>3. /\ \A i \in DOMAIN frames : i \in DOMAIN frames' /\ frames'[i] = frames[i]
        /\ \A i \in DOMAIN frames' : i \in DOMAIN frames \/ i = Len(frames) + 1
        /\ Len(frames) + 1 \in DOMAIN frames'
        /\ frames'[Len(frames) + 1] = f
    BY <1>1, <1>2, AppendFacts DEF TypeOK
  <1> QED BY <1>1, <1>3 DEF LiveBlocks

\* A pop drops the blocks of the newest frame, and no others.
LEMMA PopLives ==
    ASSUME TypeOK, FramesStacked, PopFrame
    PROVE  LiveBlocks' = LiveBlocks \ frames[Len(frames)].blocks
  <1>1. /\ \A i \in DOMAIN frames :
               i = Len(frames) \/ (i \in DOMAIN frames' /\ frames'[i] = frames[i])
        /\ \A i \in DOMAIN frames' :
               i \in DOMAIN frames /\ i # Len(frames) /\ frames'[i] = frames[i]
        /\ Len(frames) \in DOMAIN frames
    BY FrontFacts DEF PopFrame, TypeOK
  <1>2. \A i \in DOMAIN frames' : frames[i].blocks \cap frames[Len(frames)].blocks = {}
    BY <1>1 DEF FramesStacked, FramesDisjoint, Chunks
  <1> QED BY <1>1, <1>2 DEF LiveBlocks

\* Such a script never holds a valid pointer to popped memory (Arena.c:131-137).
THEOREM OnlyLiveCorrect == Spec => []OnlyLiveRegistered
  <1> USE DEF IsRegistered
  <1>1. Init => Unclaimed
    BY DEF Init, Unclaimed, OnlySafe, RegisteredAreLive, Unregistered
  <1>2. TypeOK /\ FramesStacked /\ Unclaimed /\ [Next]_vars => Unclaimed'
    <2> SUFFICES ASSUME TypeOK, FramesStacked, [Next]_vars, ~claims, OnlySafe,
                        RegisteredAreLive
                 PROVE  claims' \/ (OnlySafe' /\ RegisteredAreLive')
      BY HistoryKept, Zenon DEF Unclaimed
    <2>1. ASSUME NEW a \in Address,
                 \/ registry' = RegisterSafe(registry, NoSuper, a, Void)
                 \/ registry' = registry,
                 registry' # registry => a \in LiveBlocks',
                 LiveBlocks \subseteq LiveBlocks'
          PROVE  OnlySafe' /\ RegisteredAreLive'
      <3>1. /\ RegisterSafe(registry, NoSuper, a, Void)[a].kind = "safe"
            /\ \A b \in Address \ {a} :
                   RegisterSafe(registry, NoSuper, a, Void)[b] = registry[b]
        BY DEF TypeOK, OnlySafe, RegisterSafe, SafeEntry
      <3> QED BY <2>1, <3>1 DEF OnlySafe, RegisteredAreLive
    <2>2. ASSUME NEW As, registry' = UnregisterAll(registry, As),
                 \A a \in LiveBlocks \ LiveBlocks' : a \in As
          PROVE  OnlySafe' /\ RegisteredAreLive'
      <3>1. \A a \in Address :
               registry'[a].kind = IF a \in As THEN "none" ELSE registry[a].kind
        BY <2>2 DEF UnregisterAll, ReleasedEntry, Unregistered, OnlySafe
      <3> QED BY <2>2, <3>1 DEF OnlySafe, RegisteredAreLive
    <2>3. ASSUME NEW h \in Address, NEW sized \in BOOLEAN, PushFrame(h, sized)
          PROVE  OnlySafe' /\ RegisteredAreLive'
      BY <2>1, <2>3, PushLives DEF PushFrame
    <2>4. ASSUME NEW a \in Address, ArenaAllocate(a)
          PROVE  OnlySafe' /\ RegisteredAreLive'
      BY <2>1, <2>4, AllocateLives DEF ArenaAllocate
    <2>5. ASSUME NEW a \in Address, NEW converts \in BOOLEAN, ArenaNew(a, converts)
          PROVE  OnlySafe' /\ RegisteredAreLive'
      BY <2>1, <2>5, AllocateLives DEF ArenaNew
    <2>6. CASE PopFrame
      BY <2>2, <2>6, PopLives DEF PopFrame
    <2>7. CASE Finit
      BY <2>2, <2>7 DEF Finit
    <2>8. ASSUME NEW a \in Address, EnvRegister(a) PROVE claims'
      BY <2>8 DEF EnvRegister
    <2>9. ASSUME NEW a \in Address, EnvUnregister(a)
          PROVE  OnlySafe' /\ RegisteredAreLive'
      <3>1. LiveBlocks' = LiveBlocks
        BY <2>9 DEF EnvUnregister, LiveBlocks
      <3>2. registry' \in {Unregister(registry, a), Invalidate(registry, a)}
        BY <2>9 DEF EnvUnregister
      <3>3. \A b \in Address : registry'[b].kind = IF b = a THEN "none" ELSE registry[b].kind
        BY <3>2 DEF Unregister, Invalidate, ReleasedEntry, Unregistered, OnlySafe, TypeOK
      <3> QED BY <3>1, <3>3 DEF OnlySafe, RegisteredAreLive
    <2>10. CASE UNCHANGED vars
      BY <2>10 DEF vars, OnlySafe, RegisteredAreLive, LiveBlocks
    <2> QED BY <2>3, <2>4, <2>5, <2>6, <2>7, <2>8, <2>9, <2>10 DEF Next
  <1>3. Unclaimed => OnlyLiveRegistered
    BY DEF Unclaimed, OnlyLiveRegistered
  <1> QED BY <1>1, <1>2, <1>3, ArenaTypeCorrect, FramesCorrect, PTL DEF Spec

\* A script that unregisters nothing itself keeps an arena that validates
\* (Arena.c:142-165).
THEOREM ValidateCorrect == Spec => []ValidateSucceeds
  <1> USE DEF IsRegistered, ValidateSucceeds
  <1>1. Init => ValidateSucceeds
    BY DEF Init, Validates, LiveBlocks
  <1>2. TypeOK /\ FramesStacked /\ ValidateSucceeds /\ [Next]_vars => ValidateSucceeds'
    <2> SUFFICES ASSUME TypeOK, FramesStacked, [Next]_vars, ~drops, Validates
                 PROVE  drops' \/ Validates'
      BY HistoryKept, Zenon
    <2>0. LiveBlocks \subseteq Address
      <3> SUFFICES ASSUME NEW i \in DOMAIN frames PROVE frames[i].blocks \subseteq Address
        BY DEF LiveBlocks
      <3>1. frames[i] \in Frame
        BY DEF TypeOK
      <3> QED BY <3>1 DEF Frame
    <2>1. ASSUME NEW a \in Address
          PROVE  /\ RegisterSafe(registry, NoSuper, a, Void)[a].kind # "none"
                 /\ \A b \in Address \ {a} :
                       RegisterSafe(registry, NoSuper, a, Void)[b] = registry[b]
      BY DEF TypeOK, RegisterSafe, SafeEntry
    <2>2. ASSUME NEW h \in Address, NEW sized \in BOOLEAN, PushFrame(h, sized)
          PROVE  Validates'
      BY <2>0, <2>1, <2>2, PushLives DEF PushFrame, Validates
    <2>3. ASSUME NEW a \in Address, ArenaAllocate(a) PROVE Validates'
      BY <2>0, <2>1, <2>3, AllocateLives DEF ArenaAllocate, Validates
    <2>4. ASSUME NEW a \in Address, NEW converts \in BOOLEAN, ArenaNew(a, converts)
          PROVE  drops' \/ Validates'
      BY <2>0, <2>1, <2>4, AllocateLives DEF ArenaNew, Validates
    <2>5. CASE PopFrame
      <3>1. \A a \in LiveBlocks' : a \in LiveBlocks /\ registry'[a] = registry[a]
        BY <2>0, <2>5, PopLives DEF PopFrame, UnregisterAll
      <3> QED BY <3>1 DEF Validates
    <2>6. CASE Finit
      BY <2>6 DEF Finit, Validates, LiveBlocks
    <2>7. ASSUME NEW a \in Address, EnvRegister(a) PROVE Validates'
      <3>1. LiveBlocks' = LiveBlocks
        BY <2>7 DEF EnvRegister, LiveBlocks
      <3>2. \/ registry' = RegisterSafe(registry, NoSuper, a, Void)
            \/ registry' = RegisterCounted(registry, NoSuper, a, Void)
            \/ registry' = RegisterPinned(registry, a)
        BY <2>7 DEF EnvRegister
      <3>3. \A b \in Address : registry[b].kind # "none" => registry'[b].kind # "none"
        BY <3>2 DEF RegisterSafe, SafeEntry, RegisterCounted, CountedEntry, RegisterPinned,
                    PinnedEntry, TypeOK
      <3> QED BY <2>0, <3>1, <3>3 DEF Validates
    <2>8. ASSUME NEW a \in Address, EnvUnregister(a) PROVE drops'
      BY <2>8 DEF EnvUnregister
    <2>9. CASE UNCHANGED vars
      BY <2>9 DEF vars, Validates, LiveBlocks
    <2> QED BY <2>2, <2>3, <2>4, <2>5, <2>6, <2>7, <2>8, <2>9 DEF Next
  <1> QED BY <1>1, <1>2, ArenaTypeCorrect, FramesCorrect, PTL DEF Spec
=============================================================================

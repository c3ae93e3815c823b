---------------------------- MODULE PointerProofs ----------------------------
(***************************************************************************)
(* Proofs about the pointer command, for every set of addresses and tags   *)
(* and every bound on counts.                                              *)
(***************************************************************************)
EXTENDS Pointer, TLAPS

\* The castable relation is a preorder: every tag is castable to itself.
LEMMA CastableReflexive ==
    ASSUME NEW sup, NEW t \in Tags
    PROVE  ImplicitlyCastable(sup, t, t)
  BY DEF ImplicitlyCastable, Ancestors

\* ... and castability is transitive, as concepts.ruff says of "castable".
LEMMA CastableTransitive ==
    ASSUME NEW sup, NEW t \in Tags, NEW u \in Tag, NEW w \in Tags,
           ImplicitlyCastable(sup, t, u), ImplicitlyCastable(sup, u, w)
    PROVE  ImplicitlyCastable(sup, t, w)
  BY VoidAssumption DEF ImplicitlyCastable, Ancestors, Tags

LEMMA RegisterTyped ==
    ASSUME NEW reg \in [Address -> Entry], NEW sup \in [Tag -> Tags],
           NEW a \in Address, NEW t \in Tags
    PROVE  /\ RegisterSafe(reg, sup, a, t) \in [Address -> Entry]
           /\ RegisterCounted(reg, sup, a, t) \in [Address -> Entry]
           /\ RegisterPinned(reg, a) \in [Address -> Entry]
           /\ Unregister(reg, a) \in [Address -> Entry]
           /\ Invalidate(reg, a) \in [Address -> Entry]
           /\ Retag(reg, a, t) \in [Address -> Entry]
  <1>1. RegisterSafe(reg, sup, a, t) \in [Address -> Entry]
    BY DEF RegisterSafe, SafeEntry, MergedTag, Entry, Kinds, Tags
  <1>2. RegisterCounted(reg, sup, a, t) \in [Address -> Entry]
    BY DEF RegisterCounted, CountedEntry, MergedTag, Entry, Kinds, Tags
  <1>3. RegisterPinned(reg, a) \in [Address -> Entry]
    BY DEF RegisterPinned, PinnedEntry, Entry, Kinds, Tags
  <1>4. Unregister(reg, a) \in [Address -> Entry]
    BY DEF Unregister, ReleasedEntry, Unregistered, Entry, Kinds, Tags
  <1>5. Invalidate(reg, a) \in [Address -> Entry]
    BY DEF Invalidate, Unregistered, Entry, Kinds, Tags
  <1>6. Retag(reg, a, t) \in [Address -> Entry]
    BY DEF Retag, Entry, Kinds, Tags
  <1> QED BY <1>1, <1>2, <1>3, <1>4, <1>5, <1>6

-----------------------------------------------------------------------------

\* The command keeps its two tables well typed (Pointer.c:112-315).
THEOREM TypeCorrect == Spec => []TypeOK
  <1>1. Init => TypeOK
    BY DEF Init, TypeOK, Unregistered, Entry, Kinds, Tags
  <1>2. TypeOK /\ [Next]_vars => TypeOK'
    <2> SUFFICES ASSUME TypeOK, [Next]_vars PROVE TypeOK'
      OBVIOUS
    <2> USE DEF TypeOK
    <2>1. CASE \E a \in Address, t \in Tags :
                  \/ PointerSafe(a, t) \/ PointerCounted(a, t) \/ PointerPin(a, t)
                  \/ PointerDispose(a, t) \/ PointerInvalidate(a, t)
                  \/ \E new \in Tags : PointerCast(a, t, new)
      BY <2>1, RegisterTyped DEF PointerSafe, PointerCounted, PointerPin,
            PointerDispose, PointerInvalidate, PointerCast
    <2>2. CASE \E subtags \in SubtagLists, super \in Tags : PointerCastable(subtags, super)
      BY <2>2 DEF PointerCastable, Tags
    <2>3. CASE \E t \in Tags : PointerUncastable(t)
      BY <2>3 DEF PointerUncastable, Tags
    <2>4. CASE UNCHANGED vars
      BY <2>4 DEF vars
    <2> QED BY <2>1, <2>2, <2>3, <2>4 DEF Next
  <1> QED BY <1>1, <1>2, PTL DEF Spec

\* The shape of one entry, from which CountsAreLive follows address by address.
EntryOK(e) == /\ e.kind = "counted" <=> e.count > 0
              /\ e.kind \in {"none", "pinned"} => e.tag = Void

LEMMA EntryShape ==
    ASSUME NEW e \in Entry, EntryOK(e), NEW sup, NEW t \in Tags
    PROVE  /\ EntryOK(SafeEntry(sup, e, t))
           /\ EntryOK(CountedEntry(sup, e, t))
           /\ EntryOK(PinnedEntry)
           /\ EntryOK(ReleasedEntry(e))
           /\ EntryOK(Unregistered)
           /\ e.kind \in {"safe", "counted"} => EntryOK([e EXCEPT !.tag = t])
  <1> USE DEF EntryOK, Entry, Kinds
  <1>1. EntryOK(SafeEntry(sup, e, t))
    BY DEF SafeEntry
  <1>2. EntryOK(CountedEntry(sup, e, t))
    BY DEF CountedEntry
  <1>3. EntryOK(PinnedEntry) /\ EntryOK(Unregistered)
    BY DEF PinnedEntry, Unregistered
  <1>4. EntryOK(ReleasedEntry(e))
    BY DEF ReleasedEntry, Unregistered
  <1>5. e.kind \in {"safe", "counted"} => EntryOK([e EXCEPT !.tag = t])
    OBVIOUS
  <1> QED BY <1>1, <1>2, <1>3, <1>4, <1>5

\* Dispose removes a counted pointer exactly when its last reference goes, and
\* only safe and counted registrations have a tag (Pointer.c:278-309).
THEOREM CountsCorrect == Spec => []CountsAreLive
  <1>1. Init => CountsAreLive
    <2> SUFFICES ASSUME Init, NEW a \in Address PROVE EntryOK(registry[a])
      BY DEF CountsAreLive, EntryOK
    <2>1. registry[a] = Unregistered
      BY DEF Init
    <2>2. ~(0 > 0) /\ "none" # "counted"
      OBVIOUS
    <2> QED BY <2>1, <2>2 DEF EntryOK, Unregistered
  <1>2. TypeOK /\ CountsAreLive /\ [Next]_vars => CountsAreLive'
    <2> SUFFICES ASSUME TypeOK, CountsAreLive, [Next]_vars,
                        NEW b \in Address
                 PROVE  EntryOK(registry'[b])
      BY DEF CountsAreLive, EntryOK
    <2>0. registry[b] \in Entry /\ EntryOK(registry[b])
      BY DEF TypeOK, CountsAreLive, EntryOK
    <2>1. ASSUME NEW a \in Address, NEW t \in Tags, PointerSafe(a, t)
          PROVE  EntryOK(registry'[b])
      BY <2>0, <2>1, EntryShape DEF PointerSafe, RegisterSafe, TypeOK
    <2>2. ASSUME NEW a \in Address, NEW t \in Tags, PointerCounted(a, t)
          PROVE  EntryOK(registry'[b])
      BY <2>0, <2>2, EntryShape DEF PointerCounted, RegisterCounted, TypeOK
    <2>3. ASSUME NEW a \in Address, NEW t \in Tags, PointerPin(a, t)
          PROVE  EntryOK(registry'[b])
      BY <2>0, <2>3, EntryShape DEF PointerPin, RegisterPinned, TypeOK
    <2>4. ASSUME NEW a \in Address, NEW t \in Tags, PointerDispose(a, t)
          PROVE  EntryOK(registry'[b])
      BY <2>0, <2>4, EntryShape DEF PointerDispose, Unregister, TypeOK
    <2>5. ASSUME NEW a \in Address, NEW t \in Tags, PointerInvalidate(a, t)
          PROVE  EntryOK(registry'[b])
      BY <2>0, <2>5, EntryShape DEF PointerInvalidate, Invalidate, TypeOK
    <2>6. ASSUME NEW a \in Address, NEW t \in Tags, NEW new \in Tags,
                 PointerCast(a, t, new)
          PROVE  EntryOK(registry'[b])
      BY <2>0, <2>6, EntryShape DEF PointerCast, Retag, TypeOK
    <2>7. CASE UNCHANGED registry
      BY <2>0, <2>7
    <2> QED
      BY <2>1, <2>2, <2>3, <2>4, <2>5, <2>6, <2>7
      DEF Next, PointerCastable, PointerUncastable, vars
  <1> QED BY <1>1, <1>2, TypeCorrect, PTL DEF Spec

\* No sequence of commands makes a pinned address reject a tag (Pointer.c:292-299).
THEOREM PinnedCorrect == Spec => []PinnedMatchesAnyTag
  <1>1. CountsAreLive => PinnedMatchesAnyTag
    BY DEF CountsAreLive, PinnedMatchesAnyTag, PointerValid, IsRegistered,
           ImplicitlyCastable
  <1> QED BY <1>1, CountsCorrect, PTL

\* "pointer castable" never redirects a tag that already has a supertag, even
\* when it abandons its list (Pointer.c:46-58).
THEOREM RedirectCorrect == Spec => SubtagNeverRedirected
  <1> DEFINE Kept == \A t \in Tag : supertag[t] # Void => supertag'[t] \in {supertag[t], Void}
  <1>1. TypeOK /\ [Next]_vars => [Kept]_vars
    <2> SUFFICES ASSUME TypeOK, Next PROVE Kept
      OBVIOUS
    <2>1. CASE UNCHANGED supertag
      BY <2>1
    <2>2. ASSUME NEW subtags \in SubtagLists, NEW super \in Tags,
                 PointerCastable(subtags, super)
          PROVE  Kept
      <3> SUFFICES ASSUME NEW t \in Tag, supertag[t] # Void
                   PROVE  supertag'[t] \in {supertag[t], Void}
        OBVIOUS
      <3>1. CASE t \in SubtagsDefined(supertag, subtags, super)
        <4>1. PICK i \in DOMAIN subtags :
                 /\ subtags[i] = t
                 /\ \A k \in 1..i : \/ subtags[k] = Void
                                    \/ supertag[subtags[k]] \in {Void, super}
          BY <3>1 DEF SubtagsDefined
        <4>2. i \in 1..i
          BY DEF SubtagLists
        <4>3. supertag[t] = super
          BY <4>1, <4>2, VoidAssumption
        <4> QED BY <2>2, <4>3 DEF PointerCastable
      <3>2. CASE t \notin SubtagsDefined(supertag, subtags, super)
        BY <2>2, <3>2 DEF PointerCastable
      <3> QED BY <3>1, <3>2
    <2>3. ASSUME NEW t \in Tags, PointerUncastable(t)
          PROVE  Kept
      BY <2>3 DEF PointerUncastable, TypeOK
    <2> QED
      BY <2>1, <2>2, <2>3
      DEF Next, PointerSafe, PointerCounted, PointerPin, PointerDispose,
          PointerInvalidate, PointerCast
  <1> QED BY <1>1, TypeCorrect, PTL DEF Spec, SubtagNeverRedirected

\* How one entry maps to the abstract lifetime.
HoldOf(e) == CASE e.kind = "safe"    -> 1
               [] e.kind = "counted" -> e.count
               [] OTHER              -> 0

\* What a command may make of an entry.
EntryStep(e, f) ==
    \/ f.kind \in {"none", "pinned"}
    \/ f.kind = e.kind /\ f.count = e.count
    \/ e.kind # "pinned" /\ f.kind = "safe"
    \/ /\ e.kind # "pinned" /\ f.kind = "counted"
       /\ f.count = IF e.kind = "counted" THEN e.count + 1 ELSE 1
    \/ e.kind = "counted" /\ f.kind = "counted" /\ e.count > 1 /\ f.count = e.count - 1

LEMMA OperatorSteps ==
    ASSUME NEW e \in Entry, NEW sup, NEW t \in Tags
    PROVE  /\ EntryStep(e, SafeEntry(sup, e, t))
           /\ EntryStep(e, CountedEntry(sup, e, t))
           /\ EntryStep(e, PinnedEntry)
           /\ EntryStep(e, ReleasedEntry(e))
           /\ EntryStep(e, Unregistered)
           /\ EntryStep(e, [e EXCEPT !.tag = t])
  <1> USE DEF EntryStep, Entry, Kinds
  <1>1. EntryStep(e, SafeEntry(sup, e, t))
    BY DEF SafeEntry
  <1>2. EntryStep(e, CountedEntry(sup, e, t))
    BY DEF CountedEntry
  <1>3. EntryStep(e, PinnedEntry) /\ EntryStep(e, Unregistered)
    BY DEF PinnedEntry, Unregistered
  <1>4. EntryStep(e, ReleasedEntry(e))
    BY DEF ReleasedEntry, Unregistered
  <1>5. EntryStep(e, [e EXCEPT !.tag = t])
    OBVIOUS
  <1> QED BY <1>1, <1>2, <1>3, <1>4, <1>5

\* Each command changes one entry, in one of these ways, or none.
LEMMA CommandSteps ==
    ASSUME TypeOK, [Next]_vars, registry' # registry
    PROVE  \E a \in Address : \E f \in Entry :
               registry' = [registry EXCEPT ![a] = f] /\ EntryStep(registry[a], f)
  <1>1. ASSUME NEW a \in Address, NEW t \in Tags, PointerSafe(a, t)
        PROVE  \E f \in Entry : registry' = [registry EXCEPT ![a] = f] /\ EntryStep(registry[a], f)
    <2>1. registry' = [registry EXCEPT ![a] = SafeEntry(supertag, registry[a], t)]
      BY <1>1 DEF PointerSafe, RegisterSafe
    <2>2. registry' \in [Address -> Entry]
      BY <1>1, RegisterTyped DEF PointerSafe, TypeOK
    <2> QED BY <2>1, <2>2, OperatorSteps DEF TypeOK
  <1>2. ASSUME NEW a \in Address, NEW t \in Tags, PointerCounted(a, t)
        PROVE  \E f \in Entry : registry' = [registry EXCEPT ![a] = f] /\ EntryStep(registry[a], f)
    <2>1. registry' = [registry EXCEPT ![a] = CountedEntry(supertag, registry[a], t)]
      BY <1>2 DEF PointerCounted, RegisterCounted
    <2>2. registry' \in [Address -> Entry]
      BY <1>2, RegisterTyped DEF PointerCounted, TypeOK
    <2> QED BY <2>1, <2>2, OperatorSteps DEF TypeOK
  <1>3. ASSUME NEW a \in Address, NEW t \in Tags, PointerPin(a, t)
        PROVE  \E f \in Entry : registry' = [registry EXCEPT ![a] = f] /\ EntryStep(registry[a], f)
    <2>1. registry' = [registry EXCEPT ![a] = PinnedEntry] /\ PinnedEntry \in Entry
      BY <1>3 DEF PointerPin, RegisterPinned, PinnedEntry, Entry, Kinds, Tags
    <2> QED BY <2>1, OperatorSteps DEF TypeOK
  <1>4. ASSUME NEW a \in Address, NEW t \in Tags, PointerDispose(a, t)
        PROVE  \E f \in Entry : registry' = [registry EXCEPT ![a] = f] /\ EntryStep(registry[a], f)
    <2>1. registry' = [registry EXCEPT ![a] = ReleasedEntry(registry[a])]
      BY <1>4 DEF PointerDispose, Unregister
    <2>2. registry' \in [Address -> Entry]
      BY <1>4, RegisterTyped DEF PointerDispose, TypeOK
    <2> QED BY <2>1, <2>2, OperatorSteps DEF TypeOK
  <1>5. ASSUME NEW a \in Address, NEW t \in Tags, PointerInvalidate(a, t)
        PROVE  \E f \in Entry : registry' = [registry EXCEPT ![a] = f] /\ EntryStep(registry[a], f)
    <2>1. registry' = [registry EXCEPT ![a] = Unregistered] /\ Unregistered \in Entry
      BY <1>5 DEF PointerInvalidate, Invalidate, Unregistered, Entry, Kinds, Tags
    <2> QED BY <2>1, OperatorSteps DEF TypeOK
  <1>6. ASSUME NEW a \in Address, NEW t \in Tags, NEW new \in Tags, PointerCast(a, t, new)
        PROVE  \E f \in Entry : registry' = [registry EXCEPT ![a] = f] /\ EntryStep(registry[a], f)
    <2> DEFINE f == [registry[a] EXCEPT !.tag = new]
    <2>1. registry' = [registry EXCEPT ![a] = f]
      BY <1>6 DEF PointerCast, Retag, TypeOK
    <2>2. f \in Entry /\ EntryStep(registry[a], f)
      BY OperatorSteps DEF TypeOK, Entry
    <2> QED BY <2>1, <2>2
  <1> QED
    BY <1>1, <1>2, <1>3, <1>4, <1>5, <1>6
    DEF Next, PointerCastable, PointerUncastable, vars

\* The pointer command implements PointerLifetime: tags, casts and castable
\* declarations never lengthen or shorten the life of an address.
THEOREM LifetimeCorrect == Spec => LifetimeRefined
  <1> DEFINE H == [a \in Address |-> Holds(a)]
             S == {a \in Address : registry[a].kind = "counted"}
             P == {a \in Address : registry[a].kind = "pinned"}
  <1>1. Init => Lifetime!LifetimeInit
    BY DEF Init, Unregistered, Holds, Lifetime!LifetimeInit
  <1>2. TypeOK /\ [Next]_vars => [Lifetime!LifetimeNext]_(Lifetime!lifetimeVars)
    <2> SUFFICES ASSUME TypeOK, [Next]_vars
                 PROVE  Lifetime!LifetimeNext \/ (H' = H /\ S' = S /\ P' = P)
      BY DEF Lifetime!lifetimeVars
    <2>1. CASE registry' = registry
      BY <2>1 DEF Holds
    <2>2. ASSUME NEW a \in Address, NEW f \in Entry,
                 registry' = [registry EXCEPT ![a] = f], EntryStep(registry[a], f)
          PROVE  Lifetime!LifetimeNext \/ (H' = H /\ S' = S /\ P' = P)
      <3> DEFINE e == registry[a]
                 h == HoldOf(e)
                 k == HoldOf(f)
      <3>1. /\ registry \in [Address -> Entry] /\ e \in Entry
            /\ \A b \in Address : registry'[b] = IF b = a THEN f ELSE registry[b]
        BY <2>2 DEF TypeOK
      <3>2. H[a] = h /\ H' = [H EXCEPT ![a] = k]
        <4>1. H = [b \in Address |-> HoldOf(registry[b])]
          BY DEF Holds, HoldOf
        <4>2. H' = [b \in Address |-> HoldOf(registry'[b])]
          BY DEF Holds, HoldOf
        <4> HIDE DEF H
        <4> QED BY <3>1, <4>1, <4>2
      <3>3. /\ S' = IF f.kind = "counted" THEN S \cup {a} ELSE S \ {a}
            /\ P' = IF f.kind = "pinned" THEN P \cup {a} ELSE P \ {a}
        BY <3>1
      <3>4. (a \in S <=> e.kind = "counted") /\ (a \in P <=> e.kind = "pinned")
        OBVIOUS
      <3>5. H = [H EXCEPT ![a] = H[a]]
        OBVIOUS
      <3> HIDE DEF H, S, P
      <3>6. SUFFICES \/ Lifetime!Own(a) \/ Lifetime!Share(a) \/ Lifetime!Release(a)
                     \/ Lifetime!Pin(a) \/ Lifetime!Revoke(a)
                     \/ (H' = H /\ S' = S /\ P' = P)
        BY DEF Lifetime!LifetimeNext
      <3>7. CASE f.kind = "none"
        BY <3>2, <3>3, <3>7 DEF Lifetime!Revoke, HoldOf, H, S, P
      <3>8. CASE f.kind = "pinned"
        BY <3>2, <3>3, <3>8 DEF Lifetime!Pin, HoldOf, H, S, P
      <3>9. CASE f.kind = e.kind /\ f.count = e.count
        BY <3>2, <3>3, <3>4, <3>5, <3>9 DEF HoldOf
      <3>10. CASE e.kind # "pinned" /\ f.kind = "safe"
        BY <3>2, <3>3, <3>4, <3>10 DEF Lifetime!Own, HoldOf, H, S, P
      <3>11. CASE /\ e.kind # "pinned" /\ f.kind = "counted"
                  /\ f.count = IF e.kind = "counted" THEN e.count + 1 ELSE 1
        BY <3>2, <3>3, <3>4, <3>11 DEF Lifetime!Share, HoldOf, H, S, P
      <3>12. CASE e.kind = "counted" /\ f.kind = "counted" /\ e.count > 1 /\ f.count = e.count - 1
        BY <3>1, <3>2, <3>3, <3>4, <3>12 DEF Lifetime!Release, HoldOf, Entry, H, S, P
      <3> QED BY <2>2, <3>7, <3>8, <3>9, <3>10, <3>11, <3>12 DEF EntryStep
    <2> QED BY <2>1, <2>2, CommandSteps
  <1> QED BY <1>1, <1>2, TypeCorrect, PTL DEF Spec, LifetimeRefined, Lifetime!LifetimeSpec
=============================================================================

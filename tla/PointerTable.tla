---------------------------- MODULE PointerTable ----------------------------
(***************************************************************************)
(* The table of registered pointers of an interpreter, as a value.         *)
(*                                                                         *)
(* The table itself lives in the Tclh library (the src/tclh submodule),    *)
(* which is not part of this repository, so every operator here is         *)
(* external: it is what the callers under src/generic/ and the tests of    *)
(* the pointer command rely on.  A registration is safe, counted or        *)
(* pinned, and carries the tag under which the address was registered.     *)
(*                                                                         *)
(* Components that keep registered pointers (the pointer command, arenas,  *)
(* heap memory, callbacks, function calls) apply these operators to their  *)
(* own variable "registry".                                                *)
(***************************************************************************)
EXTENDS Integers

CONSTANTS
    Address,    \* the non-NULL addresses a pointer value can hold
    Tag,        \* the pointer tags (fully qualified names)
    Void        \* the absence of a tag, i.e. void*

ASSUME VoidAssumption == Void \notin Tag

Tags == Tag \cup {Void}

Kinds == {"none", "safe", "counted", "pinned"}

Entry == [kind : Kinds, tag : Tags, count : Nat]

Unregistered == [kind |-> "none", tag |-> Void, count |-> 0]

IsRegistered(reg, a) == reg[a].kind # "none"

-----------------------------------------------------------------------------
(* The castable relation.  sup maps a tag to its direct supertag, or to    *)
(* Void when none was declared.                                            *)

\* Everything a tag leads to by following supertags, itself included: the
\* smallest set that holds t and is closed under sup.
Ancestors(sup, t) ==
    {u \in Tags : \A S \in SUBSET Tags :
                      /\ t \in S
                      /\ \A x \in S \ {Void} : sup[x] \in S
                      => u \in S}

\* A pointer tagged "from" is accepted where "to" is required.
ImplicitlyCastable(sup, from, to) == to = Void \/ to \in Ancestors(sup, from)

\* An explicit cast may go up or down the hierarchy, never across it.
ExplicitlyCastable(sup, from, to) ==
    ImplicitlyCastable(sup, from, to) \/ ImplicitlyCastable(sup, to, from)

\* The pointer value (a, t) passes verification.  An untagged pointer matches
\* whatever tag the address is registered with.
PointerValid(reg, sup, a, t) ==
    /\ IsRegistered(reg, a)
    /\ t = Void \/ ImplicitlyCastable(sup, t, reg[a].tag)

-----------------------------------------------------------------------------
(* Registration.                                                           *)

\* The tag kept when an address is registered again with the same kind.
MergedTag(sup, old, new) == IF ImplicitlyCastable(sup, new, old) THEN old ELSE new

\* Tclh_PointerRegister: pinned stays pinned, safe may change its tag, anything
\* else is overwritten.
SafeEntry(sup, e, t) ==
    CASE e.kind = "pinned" -> e
      [] e.kind = "safe"   -> [kind |-> "safe", tag |-> MergedTag(sup, e.tag, t), count |-> 0]
      [] OTHER             -> [kind |-> "safe", tag |-> t, count |-> 0]

\* Tclh_PointerRegisterCounted: one more reference to a counted pointer.
CountedEntry(sup, e, t) ==
    CASE e.kind = "pinned"  -> e
      [] e.kind = "counted" -> [kind  |-> "counted",
                                tag   |-> MergedTag(sup, e.tag, t),
                                count |-> e.count + 1]
      [] OTHER              -> [kind |-> "counted", tag |-> t, count |-> 1]

\* Tclh_PointerRegisterPinned: the tag is dropped, any registration replaced.
PinnedEntry == [kind |-> "pinned", tag |-> Void, count |-> 0]

\* Mutant: the last reference leaves a counted entry behind.
ReleasedEntry_KeepsLast(e) ==
    CASE e.kind = "pinned"                  -> e
      [] e.kind = "counted" /\ e.count > 0  -> [e EXCEPT !.count = @ - 1]
      [] OTHER                              -> Unregistered

\* Mutant: the count has no floor.
ReleasedEntry_NoFloor(e) ==
    CASE e.kind = "pinned"  -> e
      [] e.kind = "counted" -> [e EXCEPT !.count = @ - 1]
      [] OTHER              -> Unregistered

\* Tclh_PointerUnregister, for a registered address: pinned pointers are left
\* alone, a counted one loses one reference.
ReleasedEntry(e) ==
    CASE e.kind = "pinned"                  -> e
      [] e.kind = "counted" /\ e.count > 1  -> [e EXCEPT !.count = @ - 1]
      [] OTHER                              -> Unregistered

RegisterSafe(reg, sup, a, t)    == [reg EXCEPT ![a] = SafeEntry(sup, @, t)]
RegisterCounted(reg, sup, a, t) == [reg EXCEPT ![a] = CountedEntry(sup, @, t)]
RegisterPinned(reg, a)          == [reg EXCEPT ![a] = PinnedEntry]
Unregister(reg, a)              == [reg EXCEPT ![a] = ReleasedEntry(@)]

\* Unregistering a set of addresses, each once.
UnregisterAll(reg, As) ==
    [a \in Address |-> IF a \in As THEN ReleasedEntry(reg[a]) ELSE reg[a]]

\* Tclh_PointerInvalidate: the registration is removed whatever it is.
Invalidate(reg, a) == [reg EXCEPT ![a] = Unregistered]

\* Tclh_PointerCast retags a registered address unless it is pinned.
Retag(reg, a, t) ==
    IF reg[a].kind \in {"safe", "counted"} THEN [reg EXCEPT ![a].tag = t] ELSE reg

=============================================================================

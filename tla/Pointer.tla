------------------------------- MODULE Pointer -------------------------------
(***************************************************************************)
(* The pointer command (generic/tclCffiPointer.c).                         *)
(*                                                                         *)
(* A script may hand any address and any tag to the command, because       *)
(* "pointer make" wraps arbitrary ones; an action therefore takes the      *)
(* pointer value (a, t) as a parameter and no variable holds the values    *)
(* that scripts keep.  A command that fails changes nothing and is the     *)
(* stuttering step, except for "pointer castable", which keeps the         *)
(* subtags it defined before the one that failed.                          *)
(***************************************************************************)
EXTENDS PointerTable, Sequences

CONSTANT
    MaxCount    \* bound: the most references of a counted pointer

ASSUME MaxCountAssumption == MaxCount \in Nat \ {0}

VARIABLES
    registry,   \* registered pointers: Address -> Entry
    supertag    \* direct supertags declared by "pointer castable"

vars == <<registry, supertag>>

TypeOK ==
    /\ registry \in [Address -> Entry]
    /\ supertag \in [Tag -> Tags]

Init ==
    /\ registry = [a \in Address |-> Unregistered]
    /\ supertag = [t \in Tag |-> Void]

-----------------------------------------------------------------------------
(* Registration subcommands.  Each first unwraps the pointer and fails for *)
(* NULL, which is not in Address.                                          *)

PointerSafe(a, t) ==
    /\ registry' = RegisterSafe(registry, supertag, a, t)
    /\ UNCHANGED supertag

PointerCounted(a, t) ==
    /\ registry[a].count < MaxCount
    /\ registry' = RegisterCounted(registry, supertag, a, t)
    /\ UNCHANGED supertag

\* Mutant: the pinned entry keeps the tag of the pointer.
PointerPin_KeepsTag(a, t) ==
    /\ registry' = [registry EXCEPT ![a] = [kind |-> "pinned", tag |-> t, count |-> 0]]
    /\ UNCHANGED supertag

PointerPin(a, t) ==
    /\ registry' = RegisterPinned(registry, a)
    /\ UNCHANGED supertag

\* Mutant: unregistered once by the lookup and once more.
PointerDispose_Twice(a, t) ==
    /\ PointerValid(registry, supertag, a, t)
    /\ registry' = Unregister(Unregister(registry, a), a)
    /\ UNCHANGED supertag

\* Fails for a pointer that is not registered under a matching tag.
PointerDispose(a, t) ==
    /\ PointerValid(registry, supertag, a, t)
    /\ registry' = Unregister(registry, a)
    /\ UNCHANGED supertag

\* Succeeds without effect for an unregistered pointer.
PointerInvalidate(a, t) ==
    /\ IsRegistered(registry, a) => PointerValid(registry, supertag, a, t)
    /\ registry' = Invalidate(registry, a)
    /\ UNCHANGED supertag

-----------------------------------------------------------------------------
(* Tag subcommands.                                                        *)

\* The new tag must be castable to or from the pointer's tag and, when the
\* address is registered, the pointer's tag must be castable to or from the
\* registered one, which the new tag then replaces.
CastAllowed(a, t, new) ==
    /\ ExplicitlyCastable(supertag, t, new)
    /\ IsRegistered(registry, a) => ExplicitlyCastable(supertag, t, registry[a].tag)

PointerCast(a, t, new) ==
    /\ CastAllowed(a, t, new)
    /\ registry' = Retag(registry, a, new)
    /\ UNCHANGED supertag

\* Mutant: the supertag a subtag already has is overwritten.
SubtagsDefined_Redirect(sup, subtags, super) ==
    {subtags[i] : i \in DOMAIN subtags}

\* A void supertag, or a void member of the list, is skipped.  The list is
\* processed in order and abandoned at the first subtag that already has
\* another supertag; the subtags before it stay defined.
SubtagsDefined(sup, subtags, super) ==
    {subtags[i] : i \in {j \in DOMAIN subtags :
                            \A k \in 1..j : \/ subtags[k] = Void
                                            \/ sup[subtags[k]] \in {Void, super}}}

PointerCastable(subtags, super) ==
    /\ super # Void
    /\ LET defined == SubtagsDefined(supertag, subtags, super) \ {super}
       IN  supertag' = [t \in Tag |-> IF t \in defined THEN super ELSE supertag[t]]
    /\ UNCHANGED registry

PointerUncastable(t) ==
    /\ t # Void
    /\ supertag' = [supertag EXCEPT ![t] = Void]
    /\ UNCHANGED registry

-----------------------------------------------------------------------------

SubtagLists == UNION {[1..n -> Tags] : n \in 1..2}

Next ==
    \/ \E a \in Address, t \in Tags :
          \/ PointerSafe(a, t)
          \/ PointerCounted(a, t)
          \/ PointerPin(a, t)
          \/ PointerDispose(a, t)
          \/ PointerInvalidate(a, t)
          \/ \E new \in Tags : PointerCast(a, t, new)
    \/ \E subtags \in SubtagLists, super \in Tags : PointerCastable(subtags, super)
    \/ \E t \in Tags : PointerUncastable(t)

Spec == Init /\ [][Next]_vars

-----------------------------------------------------------------------------
(* Properties.                                                             *)

\* Only a counted registration carries a count, and it is never zero: the
\* reference that reaches zero removes the entry (dispose, Pointer.c:300).
CountsAreLive ==
    \A a \in Address :
        /\ registry[a].kind = "counted" <=> registry[a].count > 0
        /\ registry[a].kind \in {"none", "pinned"} => registry[a].tag = Void

\* A pinned address is valid under every tag, and no sequence of registrations,
\* casts and castable declarations gives it one (pin, Pointer.c:292).
PinnedMatchesAnyTag ==
    \A a \in Address : registry[a].kind = "pinned" =>
        \A t \in Tags : PointerValid(registry, supertag, a, t)

\* A tag that has a supertag is never redirected to another one: it has to be
\* made uncastable first, even when a castable list fails half way
\* (CffiPointerCastableCmd, Pointer.c:46-58).
SubtagNeverRedirected ==
    [][\A t \in Tag : supertag[t] # Void => supertag'[t] \in {supertag[t], Void}]_vars

\* Whatever the tags do, an address lives as PointerLifetime says.
Holds(a) ==
    CASE registry[a].kind = "safe"    -> 1
      [] registry[a].kind = "counted" -> registry[a].count
      [] OTHER                        -> 0

Lifetime == INSTANCE PointerLifetime WITH
    hold   <- [a \in Address |-> Holds(a)],
    shared <- {a \in Address : registry[a].kind = "counted"},
    pinned <- {a \in Address : registry[a].kind = "pinned"}

LifetimeRefined == Lifetime!LifetimeSpec
=============================================================================

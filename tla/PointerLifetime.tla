--------------------------- MODULE PointerLifetime ---------------------------
(***************************************************************************)
(* What the pointer command promises about the lifetime of an address,     *)
(* whatever the tags are.  An address has one owner, or is shared by a     *)
(* number of holders, or is pinned, or is dead.  The holders of a shared   *)
(* address let go of it one at a time; releases do not affect a pinned     *)
(* one; a revocation ends every life at once.  Casts and castable          *)
(* declarations change nothing.                                            *)
(***************************************************************************)
EXTENDS Integers

CONSTANT Address

VARIABLES
    hold,       \* releases needed before the address is dead
    shared,     \* addresses whose holders are counted
    pinned      \* addresses that releases do not affect

lifetimeVars == <<hold, shared, pinned>>

LifetimeInit ==
    /\ hold = [a \in Address |-> 0]
    /\ shared = {}
    /\ pinned = {}

\* One owner from now on, whoever held the address before.
Own(a) ==
    /\ a \notin pinned
    /\ hold' = [hold EXCEPT ![a] = 1]
    /\ shared' = shared \ {a}
    /\ UNCHANGED pinned

\* One more holder of a shared address; an owner is not among them.
Share(a) ==
    /\ a \notin pinned
    /\ hold' = [hold EXCEPT ![a] = IF a \in shared THEN hold[a] + 1 ELSE 1]
    /\ shared' = shared \cup {a}
    /\ UNCHANGED pinned

Release(a) ==
    /\ hold[a] > 0
    /\ hold' = [hold EXCEPT ![a] = hold[a] - 1]
    /\ shared' = IF hold[a] = 1 THEN shared \ {a} ELSE shared
    /\ UNCHANGED pinned

Pin(a) ==
    /\ hold' = [hold EXCEPT ![a] = 0]
    /\ shared' = shared \ {a}
    /\ pinned' = pinned \cup {a}

Revoke(a) ==
    /\ hold' = [hold EXCEPT ![a] = 0]
    /\ shared' = shared \ {a}
    /\ pinned' = pinned \ {a}

LifetimeNext ==
    \E a \in Address : Own(a) \/ Share(a) \/ Release(a) \/ Pin(a) \/ Revoke(a)

LifetimeSpec == LifetimeInit /\ [][LifetimeNext]_lifetimeVars
=============================================================================

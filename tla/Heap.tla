-------------------------------- MODULE Heap --------------------------------
(***************************************************************************)
(* Heap memory that a script allocates and frees: the memory command       *)
(* (generic/tclCffiMemory.c) and the allocate, new and free methods of     *)
(* structs (generic/tclCffiStruct.c).                                      *)
(*                                                                         *)
(* A command is atomic for the script.  One that fails, having freed what  *)
(* it allocated, is the stuttering step.  Struct names are pointer tags;   *)
(* none is declared castable to another here.  The script applies pointer  *)
(* subcommands to the pointers it holds; shares and drops remember which.  *)
(***************************************************************************)
EXTENDS PointerTable

CONSTANT
    MaxCount    \* bound: the most references of a counted pointer

ASSUME HeapAssumption == MaxCount \in Nat \ {0}

VARIABLES
    allocated,  \* heap blocks that ckalloc returned and ckfree has not freed
    registry,   \* registered pointers
    shares,     \* history: the script has counted or pinned a heap pointer
    drops       \* history: the script has disposed of or invalidated one

vars == <<allocated, registry, shares, drops>>

Init ==
    /\ allocated = {}
    /\ registry = [a \in Address |-> Unregistered]
    /\ shares = FALSE /\ drops = FALSE

NoSuper == [t \in Tag |-> Void]

-----------------------------------------------------------------------------
(* Allocation.  The allocator returns any block that is not in use.        *)

NewBlock(a, t) ==
    /\ a \notin allocated
    /\ allocated' = allocated \cup {a}
    /\ registry' = RegisterSafe(registry, NoSuper, a, t)
    /\ UNCHANGED <<shares, drops>>

MemoryAllocate(a, t) == NewBlock(a, t)

MemoryFromBinary(a, t) == NewBlock(a, t)

\* Strings are returned as untagged pointers.
MemoryFromUniString(a) == NewBlock(a, Void)

MemoryFromString(a) == NewBlock(a, Void)

\* Mutant: the block is not freed when the initializer does not convert.
MemoryNew_Leaks(a, t, converts) ==
    IF converts THEN NewBlock(a, t)
    ELSE /\ a \notin allocated
         /\ allocated' = allocated \cup {a}
         /\ UNCHANGED <<registry, shares, drops>>

\* The block is freed again when the initializer does not convert.
MemoryNew(a, t, converts) ==
    IF converts THEN NewBlock(a, t) ELSE UNCHANGED vars

StructAllocate(a, s) == NewBlock(a, s)

StructNew(a, s, converts) ==
    IF converts THEN NewBlock(a, s) ELSE UNCHANGED vars

-----------------------------------------------------------------------------
(* Deallocation unregisters first and frees only when that succeeds.       *)

FreeAccepted(a) == IsRegistered(registry, a)

\* Mutant: the pointer is checked but stays registered.
MemoryFree_StaysRegistered(a) ==
    /\ FreeAccepted(a)
    /\ allocated' = allocated \ {a}
    /\ UNCHANGED <<registry, shares, drops>>

\* The tag of the pointer plays no part.
MemoryFree(a) ==
    /\ FreeAccepted(a)
    /\ registry' = Unregister(registry, a)
    /\ allocated' = allocated \ {a}
    /\ UNCHANGED <<shares, drops>>

StructFreeAccepted(a, t, s) ==
    ImplicitlyCastable(NoSuper, t, s) /\ PointerValid(registry, NoSuper, a, t)

\* The pointer must be one to this struct.
StructFree(a, t, s) ==
    /\ StructFreeAccepted(a, t, s)
    /\ registry' = Unregister(registry, a)
    /\ allocated' = allocated \ {a}
    /\ UNCHANGED <<shares, drops>>

-----------------------------------------------------------------------------
(* Access.  get and set look the address up, the others verify the pointer *)
(* with its tag; none has an effect on what is allocated or registered.    *)

MemoryGetSet(a) == IsRegistered(registry, a)

MemoryToBinary(a, t) == PointerValid(registry, NoSuper, a, t)

MemoryToString(a, t) == PointerValid(registry, NoSuper, a, t)

MemoryFill(a, t) == PointerValid(registry, NoSuper, a, t)

-----------------------------------------------------------------------------
(* The pointer command, applied to a pointer (a, t) that the script holds. *)

EnvShare(a, t) ==
    /\ PointerValid(registry, NoSuper, a, t)
    /\ \/ /\ registry[a].count < MaxCount
          /\ registry' = RegisterCounted(registry, NoSuper, a, t)
       \/ registry' = RegisterPinned(registry, a)
    /\ shares' = TRUE
    /\ UNCHANGED <<allocated, drops>>

EnvDrop(a, t) ==
    /\ PointerValid(registry, NoSuper, a, t)
    /\ \/ registry' = Unregister(registry, a)
       \/ registry' = Invalidate(registry, a)
    /\ drops' = TRUE
    /\ UNCHANGED <<allocated, shares>>

EnvCast(a, t, new) ==
    /\ PointerValid(registry, NoSuper, a, t)
    /\ ExplicitlyCastable(NoSuper, t, new)
    /\ registry' = Retag(registry, a, new)
    /\ UNCHANGED <<allocated, shares, drops>>

Next ==
    \/ \E a \in Address, t \in Tags : MemoryAllocate(a, t)
    \/ \E a \in Address, t \in Tags : MemoryFromBinary(a, t)
    \/ \E a \in Address : MemoryFromUniString(a)
    \/ \E a \in Address : MemoryFromString(a)
    \/ \E a \in Address, t \in Tags, converts \in BOOLEAN : MemoryNew(a, t, converts)
    \/ \E a \in Address, s \in Tag : StructAllocate(a, s)
    \/ \E a \in Address, s \in Tag, converts \in BOOLEAN : StructNew(a, s, converts)
    \/ \E a \in Address : MemoryFree(a)
    \/ \E a \in Address, t \in Tags, s \in Tag : StructFree(a, t, s)
    \/ \E a \in Address, t \in Tags : EnvShare(a, t)
    \/ \E a \in Address, t \in Tags : EnvDrop(a, t)
    \/ \E a \in Address, t \in Tags, new \in Tags : EnvCast(a, t, new)

Spec == Init /\ [][Next]_vars

-----------------------------------------------------------------------------
(* Properties.                                                             *)

\* Whatever command reads, writes or frees through a safe pointer does it to
\* memory that is allocated, in whatever order the script allocates, frees, casts
\* and disposes, and although the allocator reuses addresses: there is no access
\* after free and no double free as long as the script has shared and pinned no
\* heap pointer (CffiMemoryAddressFromObj, Memory.c:26; CffiMemoryFreeCmd,
\* Memory.c:163; CffiStructFreeCmd, Struct.c:2373).
AccessOnlyAllocated ==
    shares \/ \A a \in Address :
                  \/ MemoryGetSet(a) \/ FreeAccepted(a)
                  \/ \E t \in Tags : \/ MemoryToBinary(a, t) \/ MemoryToString(a, t)
                                     \/ MemoryFill(a, t)
                                     \/ \E s \in Tag : StructFreeAccepted(a, t, s)
                  => a \in allocated

\* As long as the script has disposed of no heap pointer either, exactly the
\* allocated blocks are registered: an initializer that does not convert leaks
\* nothing (CffiMemoryNewCmd, Memory.c:126-141, CffiStructNewCmd,
\* Struct.c:1616-1640).
AllocatedIsRegistered ==
    shares \/ drops \/ \A a \in Address : a \in allocated <=> IsRegistered(registry, a)
=============================================================================

-------------------------------- MODULE Arena --------------------------------
(***************************************************************************)
(* The arena command (generic/tclCffiArena.c): a stack of frames of memory *)
(* blocks, kept in a LIFO allocator and linked through the blocks.         *)
(*                                                                         *)
(* Every block is a chunk of its own in the LIFO store.  A chunk is named  *)
(* by an address: the chunk of a frame holds its header and, when the      *)
(* frame was pushed with a size, also its first block.                     *)
(*                                                                         *)
(* Arena memory is handed out as ordinary safe pointers, so the script can *)
(* do to them what the pointer command allows: claims and drops remember   *)
(* whether it has.  The arena ignores tags: it looks pointers up by        *)
(* address only.                                                           *)
(***************************************************************************)
EXTENDS PointerTable, Sequences, FiniteSets

CONSTANT
    MaxCount    \* bound: the most references of a counted pointer

ASSUME ArenaAssumption == MaxCount \in Nat \ {0}

VARIABLES
    lifo,       \* arenaStore: the allocated chunks, the last one on top
    frames,     \* the list at arenaFrameP, the current frame last
    registry,   \* registered pointers
    open,       \* the interpreter exists
    claims,     \* history: the script has registered an address itself
    drops       \* history: the script has unregistered an address itself, or
                \* an initializer has failed

vars == <<lifo, frames, registry, open, claims, drops>>

Frame == [header : Address, blocks : SUBSET Address]

TypeOK ==
    /\ lifo \in Seq(Address)
    /\ frames \in Seq(Frame)
    /\ registry \in [Address -> Entry]
    /\ open \in BOOLEAN /\ claims \in BOOLEAN /\ drops \in BOOLEAN

Init ==
    /\ lifo = <<>>
    /\ frames = <<>>
    /\ registry = [a \in Address |-> Unregistered]
    /\ open = TRUE
    /\ claims = FALSE
    /\ drops = FALSE

NoSuper == [t \in Tag |-> Void]

Chunks(f) == {f.header} \cup f.blocks

Elements(s) == {s[i] : i \in DOMAIN s}

LiveBlocks == UNION {frames[i].blocks : i \in DOMAIN frames}

-----------------------------------------------------------------------------
(* The LIFO store (Tclh_Lifo): pushing yields memory that is not in use,   *)
(* popping frees the newest chunk.                                         *)

LifoFresh(a) == a \notin Elements(lifo)

LifoPush(s, a) == Append(s, a)

LifoPop(s) == SubSeq(s, 1, Len(s) - 1)

-----------------------------------------------------------------------------

\* Mutant: the new frame records the current frame instead of itself.
PushFrame_Previous(h, sized) ==
    /\ open
    /\ LifoFresh(h)
    /\ lifo' = LifoPush(lifo, h)
    /\ frames' = Append(frames, [header |-> IF frames = <<>> THEN Void
                                            ELSE frames[Len(frames)].header,
                                 blocks |-> IF sized THEN {h} ELSE {}])
    /\ registry' = IF sized THEN RegisterSafe(registry, NoSuper, h, Void) ELSE registry
    /\ UNCHANGED <<open, claims, drops>>

\* Mutant: the first block is not linked to its frame.
PushFrame_Unlinked(h, sized) ==
    /\ open
    /\ LifoFresh(h)
    /\ lifo' = LifoPush(lifo, h)
    /\ frames' = Append(frames, [header |-> h, blocks |-> {}])
    /\ registry' = IF sized THEN RegisterSafe(registry, NoSuper, h, Void) ELSE registry
    /\ UNCHANGED <<open, claims, drops>>

PushFrame(h, sized) ==
    /\ open
    /\ LifoFresh(h)
    /\ lifo' = LifoPush(lifo, h)
    /\ frames' = Append(frames, [header |-> h, blocks |-> IF sized THEN {h} ELSE {}])
    /\ registry' = IF sized THEN RegisterSafe(registry, NoSuper, h, Void) ELSE registry
    /\ UNCHANGED <<open, claims, drops>>

\* Mutant: the block is linked to the oldest frame.
Allocate_Oldest(a) ==
    /\ open
    /\ frames # <<>>
    /\ LifoFresh(a)
    /\ lifo' = LifoPush(lifo, a)
    /\ frames' = [frames EXCEPT ![1].blocks = @ \cup {a}]
    /\ UNCHANGED <<open, claims>>

\* Links a new block to the current frame.
Allocate(a) ==
    /\ open
    /\ frames # <<>>
    /\ LifoFresh(a)
    /\ lifo' = LifoPush(lifo, a)
    /\ frames' = [frames EXCEPT ![Len(frames)].blocks = @ \cup {a}]
    /\ UNCHANGED <<open, claims>>

ArenaAllocate(a) ==
    /\ Allocate(a)
    /\ registry' = RegisterSafe(registry, NoSuper, a, Void)
    /\ UNCHANGED drops

\* Mutant: the pointer is registered only after the result is set.
ArenaNew_Unregistered(a, converts) ==
    /\ Allocate(a)
    /\ UNCHANGED <<registry, drops>>

\* When the initializer does not convert the command fails, with the block
\* allocated and linked but no pointer registered.
ArenaNew(a, converts) ==
    /\ Allocate(a)
    /\ registry' = IF converts THEN RegisterSafe(registry, NoSuper, a, Void) ELSE registry
    /\ drops' = (drops \/ ~converts)

\* Mutant: one chunk is freed for each block and one for the header.
PopFrame_ChunkPerBlock ==
    /\ open
    /\ frames # <<>>
    /\ frames' = SubSeq(frames, 1, Len(frames) - 1)
    /\ registry' = UnregisterAll(registry, frames[Len(frames)].blocks)
    /\ lifo' = SubSeq(lifo, 1, Len(lifo) - 1 - Cardinality(frames[Len(frames)].blocks))
    /\ UNCHANGED <<open, claims, drops>>

\* Mutant: the blocks of all frames are unregistered.
PopFrame_AllFrames ==
    /\ open
    /\ frames # <<>>
    /\ frames' = SubSeq(frames, 1, Len(frames) - 1)
    /\ registry' = UnregisterAll(registry, LiveBlocks)
    /\ lifo' = LifoPop(lifo)
    /\ UNCHANGED <<open, claims, drops>>

\* Unregisters every block of the frame, then frees one chunk.
PopFrame ==
    /\ open
    /\ frames # <<>>
    /\ frames' = SubSeq(frames, 1, Len(frames) - 1)
    /\ registry' = UnregisterAll(registry, frames[Len(frames)].blocks)
    /\ lifo' = LifoPop(lifo)
    /\ UNCHANGED <<open, claims, drops>>

\* Interpreter deletion: all frames are popped and the store is closed.
Finit ==
    /\ open
    /\ registry' = UnregisterAll(registry, LiveBlocks)
    /\ frames' = <<>>
    /\ lifo' = <<>>
    /\ open' = FALSE
    /\ UNCHANGED <<claims, drops>>

\* "arena validate" succeeds when every linked block is a registered pointer.
Validates == \A a \in LiveBlocks : IsRegistered(registry, a)

-----------------------------------------------------------------------------
(* The script uses the pointer command on an address.                      *)

EnvRegister(a) ==
    /\ open
    /\ \/ registry' = RegisterSafe(registry, NoSuper, a, Void)
       \/ /\ registry[a].count < MaxCount
          /\ registry' = RegisterCounted(registry, NoSuper, a, Void)
       \/ registry' = RegisterPinned(registry, a)
    /\ claims' = TRUE
    /\ UNCHANGED <<lifo, frames, open, drops>>

EnvUnregister(a) ==
    /\ open
    /\ \/ /\ IsRegistered(registry, a)
          /\ registry' = Unregister(registry, a)
       \/ registry' = Invalidate(registry, a)
    /\ drops' = TRUE
    /\ UNCHANGED <<lifo, frames, open, claims>>

Next ==
    \/ \E h \in Address, sized \in BOOLEAN : PushFrame(h, sized)
    \/ \E a \in Address : ArenaAllocate(a)
    \/ \E a \in Address, converts \in BOOLEAN : ArenaNew(a, converts)
    \/ PopFrame
    \/ Finit
    \/ \E a \in Address : EnvRegister(a)
    \/ \E a \in Address : EnvUnregister(a)

Spec == Init /\ [][Next]_vars

-----------------------------------------------------------------------------
(* Properties.                                                             *)

\* Every block and header of a live frame lies in memory that the store has
\* not freed, although frames are popped by freeing chunks and not by the list
\* of their blocks (CffiArenaPopFrame, Arena.c:119-140).
LiveBlocksBacked ==
    \A i \in DOMAIN frames : Chunks(frames[i]) \subseteq Elements(lifo)

\* Why that is so: the frames own disjoint chunks, and the header of a frame
\* is above everything that belongs to the frames below it, so that the chunk
\* which a pop frees is never theirs.
LifoInjective == \A p, q \in DOMAIN lifo : lifo[p] = lifo[q] => p = q

FramesDisjoint ==
    \A i, j \in DOMAIN frames :
        i # j => Chunks(frames[i]) \cap Chunks(frames[j]) = {}

HeaderAboveLowerFrames ==
    \A i, j \in DOMAIN frames : j < i =>
        \A x \in Chunks(frames[j]) :
            \E p, q \in DOMAIN lifo :
                p < q /\ lifo[p] = x /\ lifo[q] = frames[i].header

FramesStacked ==
    /\ LifoInjective
    /\ LiveBlocksBacked
    /\ FramesDisjoint
    /\ HeaderAboveLowerFrames

\* A script that registers no arena address itself never holds a valid pointer
\* to memory that was popped, whatever it has unregistered and although memory
\* is reused (Arena.c:131-137).
RegisteredAreLive == \A a \in Address : IsRegistered(registry, a) => a \in LiveBlocks

OnlyLiveRegistered == claims \/ RegisteredAreLive

\* Popping a frame leaves the pointers into the frames below it valid, even
\* when memory has been reused in between (arena.test, arena-allocate-2).
PopKeepsLowerFrames ==
    [][PopFrame => \A i \in DOMAIN frames' : \A a \in frames[i].blocks :
                       registry'[a] = registry[a]]_vars

\* "arena validate" never fails for a script that unregisters no arena pointer
\* itself and whose initializers convert, whatever it registers: a pop never
\* unregisters a block that stays (Arena.c:142-165).
ValidateSucceeds == drops \/ Validates
=============================================================================

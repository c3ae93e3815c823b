# A TLA+ model of tcl-cffi

tcl-cffi lets Tcl scripts call C functions: it parses declarations, marshals
arguments, tracks which pointers are valid, and runs scripts from C through
callbacks. The extension is sequential, one interpreter in one thread, but
it is *re-entrant*: scripts run inside its own operations, from callbacks, from
traces on variables that are read and set, from `onerror` handlers. What is hard about it is
therefore not scheduling but long sequences of legal commands, state that is
read before a script runs and used after it, partial failures, and bookkeeping
(counts, registrations, frames) that is spread over several commands.

Paths such as `Function.c:1986` below mean `generic/tclCffiFunction.c` line
1986 in the source tree.

## 1. Inventory

### Components, their state, their operations

| Component (source) | State | Operations | Modelled by |
|---|---|---|---|
| Pointer registry (submodule `tclh`, external) | registered addresses with kind (safe, counted, pinned), tag and count; the supertag table | register, unregister, invalidate, retag, look up | `PointerTable` |
| `pointer` command (`tclCffiPointer.c`) | none of its own | safe, counted, pin, dispose, invalidate, cast, castable, uncastable; inspection | `Pointer` |
| `arena` command (`tclCffiArena.c`) | a LIFO store, a list of frames, each a list of blocks | pushframe, popframe, allocate, new, validate, teardown | `Arena` |
| `memory` command, `new`, `allocate` and `free` of structs (`tclCffiMemory.c`, `tclCffiStruct.c`) | the C heap | allocate, new, frombinary, fromstring, free, get, set, fill, tobinary, tostring | `Heap` |
| Function calls (`tclCffiFunction.c`, `tclCffiLibffi.c`) | the C stack of activations, each with arguments, saved pointer values and output buffers | prepare arguments (two passes), call, dispose, wrap the result, store outputs, run the error handler | `Call` (pointers), `Args` (arguments) |
| Functions, libraries, prototypes, callbacks (`tclCffiPrototype.c`, `tclCffiLoad.c`, `tclCffiWrapper.c`, `tclCffiCallback.c`) | reference counts; command, name and closure tables | define, delete, redefine, call, create and free callbacks | `Lifetimes` |
| Types and annotations (`tclCffiTypes.c`) | none: a parser from declarations to type, size and flags | parse, complete and check for a context | `TypeAttrs` |
| Aliases (`tclCffiAlias.c`) | table of parsed types | add, delete, use | `Declarations`, `Enum` |
| Structs and unions (`tclCffiStruct.c`) | layouts | define, destroy; allocate, new, free; convert whole structs and fields to and from memory, dictionaries and binaries | `StructLayout`, `StructTable`, `Struct` |
| Names (`tclCffiNames.c`) | tables of qualified names | add, look up in the current, the global and the platform's namespace, delete by pattern | `Names` |
| Enums (`tclCffiEnum.c`) | table of maps from members to values | define, flags, sequence, alias, delete, clear; mask, unmask, value, name | `Enum` |
| Interfaces (`tclCffiInterface.c`) | blocks with reference counts, method tables, commands of interfaces and methods | create, inherit, define methods, call through a method table, destroy | `Interfaces` |
| Native value conversion, help, interpreter context, dyncall backend, test library | | | section 7 |

### How they interact

```
 script ──► pointer ──┐                     ┌── Types / Aliases ◄── declarations
        ──► memory ───┤                     │        │
        ──► arena ────┼──► pointer registry │        ▼
        ──► function ─┼──► (one table for   │   Prototype ◄── Function ──► Library
              │  ▲    │     everybody)      │      ▲             ▲   ▲
              ▼  │    │                     │      │             │   │
             C function ──► callback ───────┼──────┘         command wrapper
              (calls back into scripts,     │
               which do all of the above)   │

 Enums ◄── Aliases, Types (annotation enum)      Names ◄── Enums, Aliases, Prototypes
 Interface ──► Prototype (one per slot)          method command ──► Interface, Function
 Struct ──► Types (layout of a field), memory of the heap, of an arena, or of a C library
```

* Every component that hands an address to a script shares *one* registry
  keyed by address. An address that is freed and allocated again inherits
  whatever is still registered for it. This is the most delicate interaction in
  the program.
* A call holds prototypes, libraries and pointers across the execution of
  arbitrary scripts, which may delete or free any of them.
* A derived interface copies the slots of its base and shares their prototypes,
  so interfaces hold on to each other and to prototypes, while the commands that
  keep them alive are deleted one by one, possibly by a script that runs inside
  one of their methods.
* `enum alias` changes two tables that refer to each other, and takes back the
  first change when the second is refused.
* Declarations are parsed in one of several contexts (parameter, return value,
  struct field), aliases in none of them; the code that consumes the result
  asserts what the parser must have guaranteed.

### What is hard, and what correct means

| Component | Hard behaviour | Correct means |
|---|---|---|
| Registry, `pointer` | repeated registration as different kinds, under different tags, disposal in any order; lists of castable tags that stop half way | counts are consistent with kinds; pinning is for ever; tags never influence lifetimes; no tag is silently redirected |
| `arena` | a frame's memory and its list of blocks are two structures; initializers fail half way; scripts register the same addresses | live frames are backed by memory; popped blocks are unregistered, and only those |
| Heap | use after free and double free through addresses that are reused | safe pointers reach allocated memory only |
| Calls, pointers | arguments are verified one by one and disposal happens after the call, scripts run in between; the function may return the pointer it disposed of | registrations balance the references the script owns; nothing is given back twice; a returned pointer is valid |
| Calls, arguments | counts come before or after their arrays; C changes counts; outputs may be NULL; buffers stay unwritten | sizes agree with counts; scripts see what C reported, and what nobody wrote only when C leaves a string without its end; no crash |
| Lifetimes | redefinition and deletion inside a call or a callback; active callbacks are not freed | reference counts are exact; nothing that runs has been freed |
| Declarations | each annotation checks those before it only; aliases are completed late | the order is irrelevant; aliases are transparent; accepted declarations satisfy the asserts of their users |
| Structs | packing, nesting, trailing arrays counted by a field; three computations, in `int`, of the size of a variable size struct | fields are aligned and disjoint; what is stored is read back; nothing is written outside the block; a binary is accepted when it is complete and only then |
| Enums, names | search path, glob patterns, half done commands, values that wrap around | no command changes the meaning of a name in use; one that fails changes nothing; masks and members fit each other |
| Interfaces | inheritance from tables that are defined later, replaced commands, definitions that fail half way | reference counts are exact; a method is bound to a slot of its own interface; inherited slots are those of the base |

`PROJECT.json` lists these hazards one by one at their lines.

## 2. The modules

Modules that others build on come first.

**`PointerTable`** is the registry as operators on two functions, `registry`
(address to entry: kind, tag, count) and `sup` (tag to supertag). The source of
the `tclh` submodule is not in the tree, so these operators are taken from how
`Pointer.c`, `Types.c` and the tests use it, and are marked external in the
map. `Void` stands for the untagged pointer. Entries of kind `safe` absorb
repeated registration, entries of kind `counted` count it, and `pinned` ones
never change.

**`Pointer`** has one action for each subcommand that changes state:
`PointerSafe`, `PointerCounted`, `PointerPin`, `PointerDispose`,
`PointerInvalidate`, `PointerCast`, `PointerCastable` (which defines a list of
subtags one by one and stops at the first refusal, keeping the earlier ones)
and `PointerUncastable`. Subcommands that only look are left out.

**`PointerLifetime`** is the abstract specification of the same: an
address has one owner, is shared by a number of holders, is pinned or is dead.
It has no tags. `Pointer` implements it with `Holds(a)` for the number of
releases needed, and the sets of counted and of pinned addresses.

**`Arena`**: `lifo` is the store (`Tclh_Lifo`), one chunk per allocation;
`frames` is the list at `arenaFrameP`, current frame last. `PushFrame`,
`ArenaAllocate`, `ArenaNew` (whose initializer may fail after the block is
linked), `PopFrame` (frees *one* chunk, unregisters all blocks of the frame),
`Finit`, and the script's own registrations as `EnvRegister` and
`EnvUnregister`; `Validates` is what `arena validate` computes. `claims` and
`drops` are history variables used by the properties only.

**`Heap`**: allocation, initialization (with failure), access and freeing by
`memory` and struct commands, against an allocator that reuses any free
address. `shares` and `drops` are history variables: whether the script has
made a heap pointer counted or pinned, or disposed of one.

**`Call`**: a stack of activations of `CffiFunctionCall`, each in one of the
phases preparing, running, finished, storing, handler. `FunctionCall` begins a
call, `PrepareParam` verifies one argument (`ArgPrepare`, `PointerFromObj`) or
gives the call up, `EnterFunction` goes to C when all are prepared. Before an
`inout` or an `out` parameter is prepared its variable is read (`VariableRead`,
Function.c:482), and a script that traces it runs, after the earlier parameters
were verified and before the call. `CFunction` is the external library,
`FunctionReturn` disposes and wraps the result in the order of `CALLFN`,
`StoreParam` stores one output at a time (each store may fire a trace),
`ReportResult` ends the call or enters the handler, `HandlerReturn` leaves it,
`EnvPointer` is a pointer subcommand used by a script that runs in between.
`Reenter` says where scripts run: in callbacks, in handlers, and in traces on
variables that are read (`"read"`) or set (`"trace"`).
`refs` is the library's view: how many references to each object the script was
given and has not given back.

**`Lifetimes`**: reference counts of libraries, prototypes and functions, and
the tables that hold them; `stack` holds running calls, callbacks and handlers.
`Recount` applies a step's increments and decrements; `FunctionDrops` says
which objects one loses when a function goes away. `slotProto` is what method
tables refer to: `SlotsChange` fills some slots and clears others, and
`CallMethod` makes a function for one call, as `cffi::call` does.

**`Interfaces`** says which slots: it adds the counts of interfaces
(`ifcRefs`), what they are derived from, the sizes of their tables and the
commands. `InterfaceCreate`, `InterfaceDestroy`, `MethodsDefine` and
`MethodsFail` (the same command accepted and refused half way), `MethodDelete`
and `MethodCall` are the operations; `Freed` is the set of interfaces that go
when references do, an interface releasing its base in turn
(`CffiInterfaceUnref` calls itself). Everything of `Lifetimes` goes on at the
same time (`Ordinary`), and every step of `Interfaces` is one of `Lifetimes`.

**`TypeAttrs`** translates the parser of types and annotations
(`CffiTypeAndAttrsParse`) into pure operators: `TypeParse`, `AliasGet`,
`Annotated` (annotations left to right, each clashing with earlier ones) and
the completions `ParamParse`, `ReturnParse`, `FieldParse`. **`Declarations`**
puts a table of aliases around it: `AliasAdd`, `AliasDelete`, `Parse`. `AliasLaxer`
names the declarations for which the parser asks less of an alias than of what
it stands for. `ReadyForCall` is what the users of a parameter assert: `Prepared`,
and that it is no `ArrayOfVariable`, an array of structs of variable size.

**`Args`** reuses `TypeAttrs` to build prototypes and models the two passes of
`CffiFunctionSetupArgs` (`PrepareOne`, `Deferred`), `ArgPrepare` by type, the
C function writing anything within its buffers (`Callee`: any number of cells from
the first on, with a terminator behind them or without) and
`CffiArgPostProcess` (`Store`). A buffer is a sequence of cells: a number
written by C, the terminator, or junk when nobody has written there. A junk cell
may end a string as well as not, so a string is read in one of several ways
(`Readings`, by `EndsFound`). The
outcome of a call is ok, error, crash (the code reads or writes through NULL)
or panic (`Tcl_Panic` on a missing sentinel). A prototype has one parameter at
least: a function without has nothing to prepare or store.

**`StructLayout`** is `CffiStructParse`: one action for each field that is
placed (`PlaceField`), and one at the end (`ParseEnd`) that checks the count of a
trailing array. **`StructTable`** is the table of struct and union commands on top
of it: a definition refers to structs by name, `Resolve` gives it their size,
alignment and layout when it is parsed, and `StructEnd` puts the finished layout
in the table. **`Struct`** adds what the commands do with a layout. A
block of memory is a function from offsets to bytes, where a byte is a digit
to base `Radix`, `Junk` what nobody wrote and `Fence` what is not in the block;
`Image` is what `CffiStructFromObj` writes and `ToObj` what `CffiStructToObj`
reads. Three operators compute the size of a variable size struct as three
functions of the code do: `SizeForObj`, `SizeForNative`, `SizeForVLACount`. The
code computes in `int` without a check, so each of them is what `ToInt` leaves of the
bytes that are needed, `RoomForObj`, `RoomForNative`, `RoomForVLACount`; the product in
`StructAllocateCmd` is an `int` as well, while its limit is one on sizes, which are
wider in Tcl 9 (`SizeMax`). `block.room` is what the structs of the block need and
`block.size` what was allocated; accesses are made while the first is an `int`
(`InUse`).
`Normal` is the reference definition of a round trip: the value with its
defaults filled in, cut or extended to the size of each array and reduced to
the width of each field; `known` is a history variable with what was stored
last. Structs nest, so the conversion of one calls that of another. In the module
these calls go to parameters, the constant operators `NestedRoomForVLACount`,
`NestedRoomForObj`, `NestedRoomForNative`, `NestedAccepts`, `NestedImage`,
`NestedToObj`, `NestedNormal` and `NestedZeroStruct`, which stand for the operators
named after them: `MCStruct.cfg` gives them these as values (`NestedAccepts` by way
of `MCNestedAccepts`, which is `Accepts`), so TLC follows the nesting to its end,
and the theorems have it as a hypothesis (section 5). The steps of `StructTable`
are the action `Define`.

**`Names`** has the tables of names as operators: `Qualified`, `NameLookup`
along `SearchPath`, `NameAdd`, `DeleteNames` by pattern. **`Enum`** uses it
twice, for enums and for aliases: `EnumDefine`, `EnumFlags`, `EnumSequence`,
`EnumAlias` (which defines the enum, then the alias, and calls `RolledBack` when
that is refused), `AliasDefine`, and deletion by name, by pattern and altogether.
A value is the set of its bits; `Bitmask`, `BitUnmask`, `Find` and `FindReverse`
are what mask, unmask, value and name compute.

Modules whose name starts with `MC` give the constants for TLC: symmetry sets,
prototypes, declarations. Definitions such as `PointerDispose_Twice` or
`PopFrame_ChunkPerBlock` are variants of the definition after the underscore
with a plausible bug in it; every checked property is known to fail for at
least one of them.

### Assumptions of the models

* `libffi` backend, not Windows.
* C invokes a callback only while it is in the table of closures; the pointer
  that a callback is registered under is not in `Lifetimes`, so its scripts can
  do more than real ones.
* `Args`: C never writes outside a buffer; a Tcl value `n` reads as the integer
  `n` and as a list or string of `n` elements; writing a variable succeeds;
  outputs are stored in declaration order, the `retval` one included, which
  the code stores last, without an observer in between.
* `Call`: an array of pointers is as many parameters as it has elements; tags
  are left to `Pointer`. The library keeps its side of the annotations.
* Interpreter deletion is in `Arena` (`Finit`) only.
* `Struct`: fields are integers and floats, arrays, structs and unions of them;
  a byte has four values instead of 256, and the largest `int` is 31. An
  `int` that overflows is taken to wrap around, as compilers make it do here.
  The builds have no assertions: with them, three that say that the fixed part of a
  struct is aligned for its trailing elements fail for packed structs (Struct.c:261,
  345, 449). `StructParse` is assumed to compute layouts without overflow. A size
  of 0, by which `allocate` would divide, and negative ones, which ask for more than
  there is, are taken for failures.
  The offset of `frombinary` is not there: the table of subcommands
  allows one argument, so the code that reads it is never reached.
* `Enum`: integers are sets of bits, and those of an `int` are fewer than those
  of a wide integer. Names that are relative with a scope (`a::b`) are left out.
  Which names a pattern matches is a constant (`Glob`); a proper name matches
  itself only.
* `Interfaces`: no list of methods has comment entries, since what the code
  leaves in their slots is undefined; instances have a valid pointer of the
  right type, whose check is that of `PointerTable`; the method called is the one
  in the table of the object, an external function.

## 3. The runs

| Run | Question | Bounds |
|---|---|---|
| `pointer` | Do counts, pins and castable declarations stay consistent in any sequence of subcommands; is `PointerLifetime` implemented? | 2 addresses, 3 tags (symmetric), counts to 3 |
| `arena` | Is live memory backed, are frames disjoint and stacked; what is registered when? | 4 addresses (symmetric), counts to 2 |
| `heap` | Do safe pointers reach only allocated memory? | 3 addresses, 2 tags |
| `call` | Do registrations balance references, with scripts in handlers and in traces on variables that are read and set? | 3 addresses, one of a shared object; depth 2; 2 references; 14 prototypes; 241,938 states |
| `call_reenter` | Is a returned pointer registered although callbacks, traces and handlers apply every pointer subcommand? | 2 addresses, depth 2, 6 prototypes; 96,520 states |
| `call_undisposed` | Is `dispose` irrespective of how the function returns? (no) | 1 address, no nesting |
| `lifetimes` | Are counts exact, and is nothing freed that runs? | 2 each of libraries, prototypes, functions, callbacks, wrappers and method slots, 1 command, depth 4; 36,836 states up to symmetry |
| `interfaces` | Are the counts of interfaces exact and methods bound to the right slots, whatever is derived, replaced and refused? | 3 interface blocks under 2 names, 2 methods, tables of at most 3 slots, 3 prototypes, 1 call at a time; 38,259 states up to symmetry |
| `declarations` | Does the order of annotations matter; are aliases transparent; is what is accepted usable? | every base type with one annotation, `int`, `pointer` and structs with two, 2 aliases; 380,700 states |
| `args` | Do sizes, counts, outputs and NULLs agree, whatever C writes, and does every call move on? | about 40 prototypes, counts to 3, 2 variables |
| `structs` | Are fields in place, do values survive, is everything within the block, are binaries complete, as long as sizes fit an `int`? | 3 names, 9 definitions of the first, 4 of one that nests it, 1 union; 5 dictionaries; blocks of at most 16 bytes, ints up to 31, sizes up to 100; 104,956 states |
| `enums` | Do masks fit members, and does every name keep its meaning? | 3 namespaces, a name and a pattern; 2 enums and 1 alias at a time; ints of 3 bits, wide integers of 4; 31,372 states |

Why these bounds are enough to make the interesting cases happen:

* `pointer`: a redirection needs a tag with two candidate supertags, hence three
  tags; merging tags of one address and keeping another address apart needs two
  addresses; a count of three distinguishes "decrement" from "reset".
* `arena`: four chunks give frames of two blocks on frames of two blocks, and
  reuse of a popped chunk by a frame with another owner.
* `call`: nested calls that compete for one object need depth two and two
  references; a third address lets a function return something other than
  what it was given. Prototypes with an output before and after an argument that is
  verified let a trace run between the two.
* `lifetimes`: depth four allows a callback in a call in a callback in a call,
  so that one callback is active twice while it is freed, and a function is
  redefined by the script it runs.
* `declarations`: the checks of the parser are between pairs of annotations;
  an alias of an alias needs two names. Aliases are used with a size and without.
* `args`: a count of three lets C report fewer elements than there is room for,
  none, or a negative number. Two variables give outputs that collide and
  outputs that do not.

* `structs`: sixteen bytes hold two nested structs, or one with an array of two
  or three elements behind its count, with padding on either side; the definitions
  include packed ones, ones that are refused, unions, sizes and defaults. Counts of
  eight and nine give more bytes than an `int` of at most 31 can tell, for arrays
  of structs and for trailing arrays, so sizes wrap around, to numbers that would be
  allocated too; the largest size, 100, is not reached before that.
* `enums`: a third namespace is one whose names are not found from the others; an
  alias that is refused needs one name that is taken and one that is not; two
  enums are one that is found and one it hides.
* `interfaces`: three blocks are a chain of two derivations, or an interface
  under a name that another one, still needed by a method, had before; two
  methods in three slots leave one for a base, and repeat a name in a list.

`MaxCount`, `MaxDepth`, `MaxRefs`, `MaxEnums`, `MaxAliases`, `MaxMethods` and
`MaxBytes` appear as guards and nowhere else. Deadlock is checked except in
`arena`, which stops after the finalizer, and in `args`, where the process is
gone after a crash or a panic.

**Fairness.** The extension runs to completion in one thread, so almost nothing
in it is scheduled. What can be asked is whether its own loops end: `Args` states
weak fairness of `SetupFirst`, `SetupSecond` and `Store`, the steps that the code
takes by itself, one argument at a time, and `CallMovesOn` says that the two
passes over arguments that depend on each other reach the C function or give up,
and that outputs, once C has returned, are dealt with. Nothing is assumed of C
functions or scripts, which need not return.

## 4. What the runs show

The properties of the passing runs hold. The conditions they need are part of
what was learned:

* `AccessOnlyAllocated` needs a script that neither counts nor pins heap
  pointers: `memory free` unregisters once and frees, so such a pointer stays
  valid for freed memory. `AllocatedIsRegistered` also needs that it disposes of
  none.
* `Balanced` and `NeverOverReleased` hold for traces and handlers
  (`ScriptsOnlyCall`) and for declarations that are `Accountable`: the return
  type reaches the disposal, an owned result is not discarded, what is disposed
  of is verified, one pointer is given back in a call, an `inout` pointer
  that is not is stored before any script runs, and no variable is read once a
  pointer has been verified that is to be disposed of or to be stored again
  (`KeepsArguments`).
* They do not hold with a parameter that is `dispose`, or `inout` and kept, before
  an `out` or `inout` one. The variable of the later parameter is read after the earlier
  pointer was verified (Function.c:482, 786-795), and a read trace on it can pass
  the same pointer to a function that frees it: the outer call then gives back, or
  registers again, what is no longer there. doc/concepts.ruff:1375-1376 says that
  "pointer values passed in for in and inout parameters are checked for validity";
  nothing checks them again before the call. The same trace can free a plain
  `in` pointer, which C then gets; the accounts remain right, so no property
  speaks of it.
* They do not hold with callbacks either: a callback runs after arguments are verified
  and before they are disposed of, so a script in it can pass the same pointer to a
  second disposing call. doc/concepts.ruff:403-405 says that the pointer "is
  unregistered before the function is called"; the code does it afterwards
  (Function.c:1986-2002).
* `AcceptedIsUsable` excludes one kind of parameter: an alias of a struct of
  variable size, used with a size. `CffiTypeParse` refuses arrays of such structs
  when they are written in place (Types.c:1427); through an alias they are accepted
  (Alias.c:75-82, Types.c:1382), and the assertion at Function.c:748 fails.
* `AliasTransparent` excludes two cases in which the parser is laxer with an alias
  than with its definition written out (`AliasLaxer`). A size that is given to an
  alias is put into its type after that type was checked (Alias.c:75): an array
  of `void` or `binary` (Types.c:755), or one with `structsize` (Types.c:1288), is
  refused when it is written in place and accepted through an alias. A `default`
  in a return type is refused as an annotation (Types.c:1142) and passes as part
  of an alias.
* `EmptyNameIsSafe` excludes scalar pointers and structs that are
  `nullifempty`: `inout` pointers with an empty name read a value that is not
  there, and a struct for which NULL was passed is stored through that NULL.
* `NothingUninitialised` is about strings, arrays of integers and pointers, which
  the code initialises; scalar integers, byte arrays, structs and arrays of
  pointers that C leaves alone are returned as they are. Of a string only the first
  cell is initialised (Function.c:142-147, 202). A C function that writes some
  cells and no terminator, as `readlink` does, makes the code read on in cells that
  nobody wrote, up to one that happens to be zero; such strings (`LeftOpen`)
  are excluded.
* `ReadsBack`, `InBounds` and `BinaryRoundTrip` are about structs whose bytes are a
  number that fits an `int`. The sizes of structs of variable size are computed in
  `int` from counts up to `INT_MAX` without a check (Struct.c:262, 352, 456), and so is
  the product in `allocate` (Struct.c:1571), which the division before it guards
  in Tcl 8.6 but not in Tcl 9, where `TCL_SIZE_MAX` is wider. Otherwise `new` and
  `allocate` take a block that is too small, and `frombinary` accepts a truncated binary
  (Struct.c:2476-2480). `TailsAlwaysHeld` proves that the computed size is enough
  exactly when the bytes fit. The three computations agree in any case.
* The assertions that the fixed part of a struct is aligned for what follows it
  (Struct.c:261, 345, 449) fail for a packed struct such as `n` of one byte, `v` of
  `n` two-byte integers and `pack 1`, which is accepted and is one of the definitions of
  the run `structs`. In a build without assertions the properties hold for it:
  the size is computed from the packed layout.

* `PanicNeedsCount` tells when a call panics: only when C changed the count of a
  string. The sentinel is then looked for at the *reduced* count, in a cell that
  was never initialised, so a C function that stays within its buffer can make
  the process panic (Function.c:1087).
* `DefinitionsStand` excludes `enum alias` with a name that is a glob pattern:
  the enum is taken back by a deletion that treats the name as a pattern, which
  may delete other enums too (Enum.c:306).
* `MasksRoundTrip` is about flags that fit an `int`: from the 32nd on they are
  0, and the one before is negative, although 64 are accepted (Enum.c:418).
* `SlotsAgree` allows that a derived interface is given methods before its base
  is: its table then starts at slot 0 and inherits nothing (Interface.c:203).

`call_undisposed` expects a violation and documents a disagreement between the
code and what is said of it: paths that leave `CALLFN` early, and structs returned
by value, never dispose of `dispose` parameters (Function.c:2013, 2178), while
doc/concepts.ruff:89 says "irrespective of function return status".

Seen while reading and not backed by a run:

* `arena popframe` frees one chunk of the store while every allocation pushed one
  (Arena.c:138), against "All allocations from the popped frame are freed"
  (doc/arena.ruff:30): all but one stay allocated until the next pop beneath them.
* `memory free` of a counted pointer frees memory that is still registered
  (Memory.c:176).
* an alias of a dynamic array used with a fixed size keeps its variable-size flag
  (Types.c:537, against doc/concepts.ruff:1078);
* the loop over variable arguments compares with the number of words although a
  `retval` parameter takes none (Function.c:1941);
* the comment of `CffiAliasAdd` speaks of "overwriting any existing ones", which
  it refuses;
* `new` of a variable size struct without a value passes NULL where a dictionary
  is read (Struct.c:1618);
* a comment entry in a list of methods leaves its slot unwritten, and it is freed
  with the others (Interface.c:245).

## 5. What is proved

TLAPS checks the theorems of eight modules for all values of the constants,
under the named assumptions of the modules, which every run evaluates for its own
values:

* `VoidAssumption`, `NamesAssumption`: the marker for an untagged pointer is no
  tag, the one for a missing scope no namespace; a proper name matches itself only.
* `MaxCountAssumption`, `ArenaAssumption`, `HeapAssumption`: bounds are positive
  numbers. `CallAssumption`: NULL is no address, prototypes are well typed.
* `LifetimesAssumption`: libraries, prototypes and functions are different things,
  and there are finitely many slots. `InterfacesAssumption`: a slot is an interface
  and a number up to `MaxMethods`.
* `ArgsAssumption`: prototypes have the shape in which they can be written, with
  at least one parameter.
* `TableAssumption`: definitions have the shape that the parser of types gives
  them, with numbers of fixed size or names of structs as bases.
  `StructAssumption`: a byte has an even number of values, those of an `int` and of
  its negatives are a multiple of the alignments, sizes are at least as wide as an
  `int`, the markers for bytes that
  nobody wrote and that are not in the block are no numbers, and what is not a struct
  is a number, the size of a struct a scalar one. `EnumAssumption`: lists of members
  are lists, and an int has fewer bits than a wide integer.

The sets of addresses, tags, names, objects, prototypes, aliases and definitions
may be infinite, and prototypes may have any number of parameters, declarations
any number of annotations. Structs may nest to any depth, and bytes have any even
number of values, 256 among them.

`TailsAlwaysHeld`, `BinariesRoundTrip`, `StructsReadBack` and `StructsInBounds` have
one hypothesis,
`NestedAlike`: that on well made layouts (`WellMade`, the ones that the commands
make) the parameters of `Struct` for nested structs are the operators they stand
for. That is what the code does when `CffiNativeScalarFromObj` calls
`CffiStructFromObj` and so on. Such operators exist by recursion on the depth of a
layout, since the structs nested in a layout were made before it, and the
configuration `MCStruct.cfg` gives them to TLC. It is a hypothesis and not an
`ASSUME` because TLC cannot evaluate it for all layouts.

`AccountsKept` and what follows from it have two hypotheses more, the ones under
which the properties hold (section 4): `ScriptsOnlyCall` and `KeepsAccounts`. Both are
met by the run `call`: `OwnershipAssumption` of `MCCall` states the second of its
prototypes.

| Module | Theorem | Argument |
|---|---|---|
| `PointerProofs` | `TypeCorrect`, `CountsCorrect`, `PinnedCorrect` | `TypeOK /\ CountsAreLive` is inductive. It is conjoined with the shape of entries (`EntryShape`) because an operator on an entry preserves a count only when the count was that of its kind. Pinning needs no history: a pinned entry has no tag, and the untagged entry accepts every tag. |
| | `RedirectCorrect` | an action property: a list of castable declarations is folded by a recursive function, and each step keeps the supertags already there; `CastableReflexive` and `CastableTransitive` are the facts about casts. |
| | `LifetimeCorrect` | step simulation: `CommandSteps` shows that a command changes one entry at most, in one of the five ways of `EntryStep`; each of these is an abstract action or, like everything that concerns tags only, a stutter. |
| `ArenaProofs` | `ArenaTypeCorrect`, `FramesCorrect`, `BackedCorrect` | `FramesStacked` is the inductive invariant for `LiveBlocksBacked`: popping frees the newest chunk, so one must know that it belongs to the top frame, which follows when every header lies above all chunks of the frames beneath (`HeaderAboveLowerFrames`), no chunk is twice in the store and frames are disjoint. One lemma per kind of step: `PushKeepsStacked`, `AllocateKeepsStacked`, `PopKeepsStacked`. |
| | `OnlyLiveCorrect`, `ValidateCorrect`, `PopLowerCorrect` | from `FramesStacked`, with `HistoryKept` (the history variables never go back) to discard the cases where the script has interfered. |
| `CallProofs` | `CallTypeCorrect` | induction over the operators on a sequence of activations; `DisposeTyped` for the disposal of a whole argument list. |
| | `ResultCorrect` | the result is wrapped after disposal, so whatever disposal did, registration comes last (`WrapRegisters`). It needs nothing of the stack but its type, hence holds for every re-entrant script. |
| | `AccountsKept` | registrations and references do not agree in the middle of a call, since it disposes of pointers after C ran and registers its outputs one by one. So `CallInv` says what the difference is: the registrations of an object as disposal will leave them (`Settled`), and those that the calls on the stack have still to make (`Debts`, one for each result and output not yet wrapped), add up to the references the script owns. One lemma per action says how both sides move (`CallKeepsInv`, `PrepareKeepsInv`, `EnterKeepsInv`, `CFunctionKeepsInv`, `ReturnKeepsInv`, `StoreKeepsInv`, `ReportKeepsInv`, `ReturnedKeepsInv`). |
| | `BalancedCorrect`, `NeverOverReleasedCorrect` | between calls nothing is owed, nor while one is being prepared; and a call is entered with verified arguments only, of which it gives back at most one. Arguments are verified one by one: `CallInv` says of the innermost call (`Verified`) that the ones verified so far and to be given back, or stored again, are still registered. No script can have changed that, since under `KeepsArguments` no variable is read between such an argument and the call. |
| `DeclarationsProofs` | `DeclarationsInvariant`, `AcceptedUsable` | each annotation refuses those that exclude the flags it sets, so a type never holds two that exclude each other (`Clean`), by induction over the annotations accepted (`AnnotatedShape`), and an alias starts a declaration with a clean type. The assertions of the users of a type follow from that and from what the parser completes for each context; that a struct of variable size is no array is checked where a type is written in place only, hence the exception for aliases. |
| | `OrderNeverMatters` | whether an annotation refuses another does not depend on which comes first (`RefusalMutual`), so a list is accepted when each suits the type and no two refuse each other (`AcceptsInAnyOrder`), and the flags are a union. The exception, `structsize` in a return type, is refused there in any case. |
| | `AliasesInvariant`, `AliasesTransparent` | what was written for an alias, with what was written for the aliases it was made of, is a declaration (`Spells`) whose annotations set the flags that the alias has, so joining them with those of a use gives the same type. A parser for one context refuses no more than the one for all contexts, which parsed the alias. |
| `ArgsProofs` | `ArgsInvariant` | `ArgsInv` says which arguments are ready in each phase. In the second pass counters are ready and not arrays, so the sizes taken from them remain what they hold (`SecondSetup`). A ready argument (`ArgReady`) keeps the cells its type promises, a string its terminator within the buffer and a guard behind it; preparation of every type establishes this (`PreparedReady`) and whatever C writes preserves it (`WrittenReady`). Outputs stored are settled: they hold what was read, unless another one names the same variable (`StoredOrLost`). |
| | `CountsAgreeCorrect`, `ReportedLengthCorrect`, `EmptyNameIsSafeCorrect`, `NothingUninitialisedCorrect`, `PanicNeedsCountCorrect` | from the invariant, with what reading a ready argument gives (`ReadReady`, `StringRead`): a string in which no junk comes before the first terminator is read up to that, so has no junk whatever the other cells hold. |
| | `CallAdvances` | an action property: each step of a call takes something from the steps it has left (`StepsLeft`), a natural number by the invariant, so a call cannot go around for ever. `CallMovesOn` says in addition that no step waits, and needs fairness. |
| `MemoryProofs` | `AccessCorrect` | until the script shares a pointer, every registration is a safe one of an allocated block (`OwnsOnlySafe`): freeing unregisters before the allocator can hand the address out again. |
| | `AllocationCorrect` | the converse, every allocated block is registered, kept until the script disposes of something; both are split by what a step does to one entry (`StepKinds`). |
| | `FieldsAlwaysInPlace` | alignments are 1, 2, 4, 8 or 16, so each divides the larger ones (`MultiplesNest`) and rounding up to one keeps the offset a multiple of the smaller ones (`RoundUpFacts`); by induction over the fields placed, each ends before the next one begins. |
| | `TableInvariant`, `TableTypeCorrect`, `StructsAlwaysCompose` | that bases have a positive size and an alignment that is a power of two is not assumed of structs: it holds of nested ones because it holds of every layout made before (`ResolvedShape`), and of the next one because its first field is not of variable size and takes room (`LayoutIsGood`). Names of fields are distinct, so one field counts the trailing array (`CountFieldFound`). An element of an array of structs starts at a multiple of the nested alignment, since the size is one (`ProductKeeps`), and packing keeps the order of alignments (`LimitedFacts`). |
| | `TailsAlwaysHeld` | the bytes needed are the fixed part and the tail, rounded up, through every nesting (`TailOfCount`); what is left of them in an `int` is no more than they are, and less when they do not fit, by a multiple of the alignments (`ToIntFacts`, `RoundedToInt`), so it holds the tail in the first case only (`HeldIffInt`). |
| | `BinariesRoundTrip` | numbers first: a number in range is what its digits make up, signed or not (`NumberOfDigits`, `SignedInRange`; functions defined by recursion on a number exist by `RecursionExists`). Then elements, arrays of them and fields (`ElemReads`, `FieldReads`, `FieldReadsZeros`). The fields of an accepted value are written in rooms that are apart (`RoomsApart`), so the struct has the bytes of each (`ImageOfFields`). From this follows what the conversions of a struct promise, `Faithful`: it is read as it was written, from any place that has its bytes, and its sizes agree. They rely on the same promise of the structs nested in it. So the induction is over the nesting, and is made along the behaviour: `MadeInv` says that every layout in the table is well made and those in its fields are faithful, and the next one refers only to these (`WellMadeIsFaithful`, `MadeStep`). |
| | `StructsReadBack` | that a field reads back what was stored is not inductive: what is read could depend on bytes that another command writes. `BlockInv` says that there are bytes in the room of the field, and the block has them, that determine what is read wherever they are (`FieldKept`). A trailing array, or a struct of variable size that is nested last, is determined by an accepted value whose count and last field the block has (`TailKept`). A command writes within one room and leaves the others alone (`Overwritten`, `FieldStays`, `TailStays`, `OthersStay`); the field with the count is never one of those that are stored singly. One lemma per command: `NewKept`, `AllocatedKept`, `ToNativeKept`, `SetNativeKept`, `FilledKept`. |
| | `StructsInBounds` | from the same invariant: the block is as large as its structs (`Sized`: their room is an `int`, so that it is what was computed, `SizeOfRoom`), all fences stand (`Fenced`), and the count in memory is that of a value whose size is within the block (`StructBounded`). |
| `InterfacesProofs` | `TypeCorrect`, `RefsCorrect`, `RunningCorrect` | The inductive invariant is `TypeOK /\ Counted /\ Bound /\ DepthExact`. Each reference is a token (a command, an activation, a table entry), and each step moves as many tokens as it counts (`TokensMoved`, `CountMoved`). Releasing a function is where it is difficult, since its prototype and library lose a token only when the last of its own goes (`FunctionReleased`); that needs the bindings of live objects to be there (`Bound`). A callback that runs is in the table because its depth is the number of its activations on the stack (`DepthExact`). |
| | `InterfacesImplementLifetimes` | refinement: every step of `IfcNext` changes the variables of `Lifetimes` by `SlotsChange`, by `CallMethod`, by a step of its own, or not at all. The invariant `IfcIInv` says that tables are filled exactly up to their size, so slots that are made are empty and slots that are freed are not. A repeated method ends up in the last slot (`LastIndex`, from the well-foundedness of <). |
| | `IfcRefsCorrect`, `IfcRunningCorrect` | from the refinement and the theorems about `Lifetimes`. |
| | `IfcCountsCorrect`, `SlotsCorrect` | `IfcUsed` is inductive on top of `IfcIInv`: counts are the numbers of commands, methods and derived interfaces, an unused block has no base and no table, and a base keeps the slots that others inherited. The cascade of releases is the least set that is closed under losing the last reference; `FreedFacts` shows that it contains exactly the interfaces whose references all go, so that `Released` gives the count after any step from what the step does to commands. |
| `EnumProofs` | `TablesInvariant`, `DefinitionsAlwaysStand` | a table that was extended under a name that was free, and then shortened by exactly that name, is the old one (`RolledBackExact`): that is the assumption on proper names. |
| | `EnumInvariant`, `TypeCorrect` | every command keeps the tables good (`EnumInv`): a map has each member once, because a list as a dictionary counts the first places of its members and each n-th place is another one (`NthOf`, by counting); the values of a sequence are wide integers, by induction on the place over the function of `SequenceList` (`SequenceValues`); a declaration that is accepted says enum if and only if an annotation says so or its alias does (`DeclareFlags`), and then it holds on to a map. |
| | `MaskFitsMembers`, `MasksCorrect` | unmasking reports members whose bits are in the mask, and those a mask was made of are; with `EnumInvariant`, `Find` returns the one value of a member. |

## 6. What is only model-checked

* `CallMovesOn`, which is a liveness property under fairness and out of the proof
  system's reach. `CallAdvances` proves the half of it that needs no fairness.

Every other property of the passing runs is stated by a theorem.

## 7. What is not modelled, and why

* Variable arguments, and the call interface (`cif`) that nested calls of one
  varargs function replace (Libffi.c:208): the promotion of argument types is
  a matter of the backend.
* Strings, pointers and uuids in structs; encodings; the conversion of integers
  other than what `Struct` needs of it.
* Names that are relative with a scope; the predefined aliases; commands that list
  what is defined.
* Comment entries in lists of methods: what their slots hold is undefined.
* The teardown of an interpreter, apart from the arena's, and `errno` of a nested
  call (Function.c:1982).
* References to Tcl values (`Tcl_IncrRefCount`).
* `tclCffiDyncall.c` (alternative backend chosen at build time),
  `tclCffiHelp.c` (formatting), `tclCffiTest.c` (functions for the test suite),
  Windows-only code.
* `tclh`: its directory is empty in the tree. The registry and the LIFO store
  are modelled from their use and marked external.

## 8. Plan

Done, in this order: `PointerTable`, `Pointer` with `PointerLifetime` and its
proofs; `Arena` and proofs; `Heap`; `Call` and proofs; `Lifetimes`; `TypeAttrs`,
`Declarations`; `Args`; `StructLayout`, `StructTable`, `Struct` and the proofs of the layout;
`Names`, `Enum` and proofs; proofs of `Heap`; `Interfaces` on top of
`Lifetimes`, with proofs of both; liveness of `Args`; the accounts of `Call`, and the
proofs of `Declarations`, `Args` and all of `Enum`; the proofs of `Struct`.

To extend:

1. Variable arguments in `Args`; the saved `cif`; `errno` overwritten by nested
   calls.
2. `Declarations` on top of `Names`.
3. Deletion of an interpreter while callbacks are active.
4. Strings and pointers in structs, together with `PointerTable`.

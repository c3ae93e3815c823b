-------------------------------- MODULE Args --------------------------------
(***************************************************************************)
(* The arguments of a call: from the words of the script to the native     *)
(* values C sees, and from what C left in them to variables                *)
(* (CffiPrototypeParse, CffiFunctionSetupArgs, CffiArgPrepare and          *)
(* CffiArgPostProcess; libffi).                                            *)
(*                                                                         *)
(* A Tcl value n is the number n when it is read as an integer and n       *)
(* elements or characters when it is read as a list or a string.  Native   *)
(* memory is a sequence of cells.  Pointers are told apart only by being   *)
(* NULL or not (module Call has the rest), structs are one cell and have   *)
(* a fixed size, and there are no variable arguments.                      *)
(***************************************************************************)
EXTENDS TypeAttrs, FiniteSets

CONSTANTS
    Prototypes,     \* the prototypes defined, as they are written
    Var,            \* the names of variables
    MaxCount        \* bound on the integers and lengths in use

\* The result of the command, as a variable it is assigned to.
Result == "result"

\* What may be written, by the script, in place of a parameter.
ParamShape(param) ==
    /\ param.type \in {"int", "pointer", "struct"} \cup CharTypes
    /\ param.size \in Nat \cup {Scalar}
    /\ param.annots \in Seq(Annotations)

\* A function without parameters has nothing to prepare or store.
PrototypeShape(p) ==
    /\ p.params # <<>> /\ p.params \in Seq({p.params[i] : i \in DOMAIN p.params})
    /\ \A i \in DOMAIN p.params : ParamShape(p.params[i])

ASSUME ArgsAssumption ==
    /\ MaxCount \in Nat \ {0} /\ Var \cap {"", Result} = {}
    /\ \A p \in Prototypes : PrototypeShape(p)

VARIABLES
    proto,      \* the parsed prototype of the function
    vars,       \* the variables of the script and the result of the command
    phase,      \* how far the call is
    at,         \* the parameter being prepared or stored
    args,       \* the arguments of the call
    held,       \* the return value met its requirements
    outcome     \* how the last call ended

state == <<proto, vars, phase, at, args, held, outcome>>

Value(n) == [set |-> TRUE, n |-> n, junk |-> FALSE]
Unset    == [set |-> FALSE, n |-> 0, junk |-> FALSE]

\* A word of the command: the name of a variable, or a value.
Word(name, n) == [name |-> name, n |-> n]
NullObj       == [name |-> "NULL", n |-> 0]
DefaultWord   == Word("", 1)

Length(n) == IF n < 0 THEN 1 ELSE n

Params == 1 .. Len(proto.params)
Type(i) == proto.params[i].ta
IsVLA(i) == Type(i).size = VLA
CountOf(i) == proto.params[i].counter
Has(ta, flag) == flag \in ta.flags

-----------------------------------------------------------------------------
(* CffiPrototypeParse                                                      *)

ParamTypes(p) ==
    [i \in DOMAIN p.params |->
        Declare(TypeParse(p.params[i].type, p.params[i].size), p.params[i].annots, {"param"})]

CanCount(p, types, name, j) ==
    /\ types[j].size = Scalar /\ types[j].base = "int"
    /\ types[j].flags \cap {"in", "inout"} # {}
    /\ p.params[j].name = name

\* The first parameter that can hold the count, 0 when there is none.
FindDynamicCountParam(p, types, name) ==
    LET found == {j \in DOMAIN types : CanCount(p, types, name, j)}
    IN IF found = {} THEN 0 ELSE CHOOSE j \in found : \A k \in found : j <= k

PrototypeAccepted(p, types) ==
    LET ret == Declare(TypeParse(p.returns, Scalar), p.retannots, {"return"})
        results == {i \in DOMAIN types : Has(types[i], "retval")}
    IN /\ ret.ok
       /\ \A i \in DOMAIN types : types[i].ok
       /\ Cardinality(results) <= 1
       /\ results # {} => \/ ret.base = "void"
                          \/ ret.base = "int" /\ ret.flags \cap Requirement # {}
       /\ \A i \in DOMAIN types : types[i].size = VLA =>
             FindDynamicCountParam(p, types, p.params[i].count) # 0

PrototypeParse(p) ==
    LET types == ParamTypes(p)
    IN [params |-> [i \in DOMAIN types |->
                        [ta |-> types[i],
                         counter |-> IF types[i].size = VLA
                                     THEN FindDynamicCountParam(p, types, p.params[i].count)
                                     ELSE 0]],
        checked |-> \E annot \in Requirement : \E k \in DOMAIN p.retannots : p.retannots[k] = annot]

-----------------------------------------------------------------------------
(* CffiArgPrepare.  A result is "ok" with the argument, "error", or        *)
(* "crash" where the code reads through a null Tcl_Obj.                    *)

Repeat(cell, n) == [k \in 1 .. n |-> cell]

\* n cells of data, then others, size altogether
Filled(n, size, rest) == [k \in 1 .. size |-> IF k <= n THEN "data" ELSE rest]

StringCells(base) == base \in {"chars", "unichars"}

\* Mutant: no terminator in front.
PrepareChars_NoTerminator(base, size) ==
    [k \in 1 .. size + 1 |->
        IF k = size + 1 \/ (base = "chars" /\ k = 2) THEN "zero" ELSE "junk"]

\* Mutant: no guard behind the buffer.
PrepareChars_NoSentinel(base, size) ==
    [k \in 1 .. size + 1 |->
        IF k = 1 \/ (base = "chars" /\ k = 2 /\ size > 1) THEN "zero" ELSE "junk"]

\* CffiArgPrepareChars and CffiArgPrepareUniChars: terminators in front, and
\* one cell more than the buffer has, against overruns.
PrepareChars(base, size) ==
    [k \in 1 .. size + 1 |->
        IF k \in {1, size + 1} \/ (base = "chars" /\ k = 2) THEN "zero" ELSE "junk"]

WithString(cells, n) ==
    [k \in DOMAIN cells |-> IF k <= n THEN "data" ELSE IF k = n + 1 THEN "zero" ELSE cells[k]]

Fresh(obj) == [obj |-> obj, done |-> FALSE, ignore |-> FALSE, size |-> Scalar,
               null |-> FALSE, value |-> 0, cells |-> <<>>]

Ok(arg) == [res |-> "ok", arg |-> [arg EXCEPT !.done = TRUE]]
Fails(arg) == [res |-> "error", arg |-> arg]
Crashes(arg) == [res |-> "crash", arg |-> arg]

Null(arg) == Ok([arg EXCEPT !.null = TRUE])
Cells(arg, cells) == Ok([arg EXCEPT !.cells = cells])

PrepareInt(ta, arg, input) ==
    CASE arg.ignore    -> Null(arg)
      [] ~arg.ignore /\ Has(ta, "out")  -> Cells(arg, <<"junk">>)
      [] ~arg.ignore /\ ~Has(ta, "out") -> Ok([arg EXCEPT !.value = input.n, !.cells = <<"data">>])

PreparePointer(ta, arg, input) ==
    CASE Has(ta, "out")                -> Cells(arg, <<"zero">>)
      [] ~Has(ta, "out") /\ ~input.set -> Crashes(arg)
      [] ~Has(ta, "out") /\ input.set  ->
            IF input.n = 0 /\ ~Has(ta, "novaluechecks") THEN Fails(arg)
            ELSE Cells(arg, <<IF input.n = 0 THEN "zero" ELSE "data">>)

PrepareStruct(ta, arg, input) ==
    IF Has(ta, "nullifempty") /\ ~arg.ignore /\ ~input.set THEN Crashes(arg)
    ELSE IF Has(ta, "nullifempty") /\ (arg.ignore \/ input.n = 0) THEN Null(arg)
    ELSE IF ~Has(ta, "out") /\ input.n = 0 THEN Fails(arg)
    ELSE Cells(arg, <<IF Has(ta, "out") THEN "junk" ELSE "data">>)

PrepareList(ta, arg, input) ==
    CASE Has(ta, "out")  -> Cells(arg, Repeat(IF ta.base = "int" THEN "zero" ELSE "junk", arg.size))
      [] ~Has(ta, "out") -> Cells(arg, Filled(Length(input.n), arg.size, "zero"))

PrepareString(ta, arg, input) ==
    LET cells == PrepareChars(ta.base, arg.size)
        n     == Length(input.n)
    IN CASE Has(ta, "out")  -> Cells(arg, cells)
         [] ~Has(ta, "out") ->
                IF n >= arg.size THEN Fails(arg)
                ELSE IF n = 0 /\ Has(ta, "in") /\ Has(ta, "nullifempty") THEN Null(arg)
                ELSE Cells(arg, WithString(cells, n))

PrepareBytes(ta, arg, input) ==
    LET n == Length(input.n)
    IN CASE Has(ta, "out")  -> Cells(arg, Repeat("junk", arg.size))
         [] ~Has(ta, "out") ->
                IF n > arg.size THEN Fails(arg)
                ELSE IF n = 0 /\ Has(ta, "in")
                THEN IF Has(ta, "nullifempty") THEN Null(arg) ELSE Fails(arg)
                ELSE Cells(arg, Filled(n, arg.size, "junk"))

Prepare(ta, arg, input) ==
    IF arg.size # Scalar /\ (arg.size = 0 \/ arg.ignore)
    THEN IF Has(ta, "novaluechecks") \/ arg.ignore THEN Null(arg) ELSE Fails(arg)
    ELSE CASE ta.base = "int" /\ arg.size = Scalar     -> PrepareInt(ta, arg, input)
           [] ta.base = "pointer" /\ arg.size = Scalar -> PreparePointer(ta, arg, input)
           [] ta.base = "struct" /\ arg.size = Scalar  -> PrepareStruct(ta, arg, input)
           [] ta.base \in {"int", "pointer", "struct"} /\ arg.size # Scalar
                                                       -> PrepareList(ta, arg, input)
           [] StringCells(ta.base)                     -> PrepareString(ta, arg, input)
           [] ta.base = "bytes"                        -> PrepareBytes(ta, arg, input)

\* An output with an empty name is passed as NULL when it may be.
WithNames(ta, arg) ==
    [arg EXCEPT !.ignore = IsOutput(ta) /\ ~Has(ta, "retval")
                              /\ Has(ta, "nullifempty") /\ arg.obj.name = ""]

\* What the argument is made of: the word, or the variable it names.
InputOf(ta, arg) ==
    IF ~IsOutput(ta) THEN Value(arg.obj.n)
    ELSE IF Has(ta, "retval") \/ arg.obj.name \notin Var THEN Unset
    ELSE IF Has(ta, "inout") /\ ta.base = "struct" /\ ~vars[arg.obj.name].set THEN Value(0)
    ELSE vars[arg.obj.name]

ArgPrepare(ta, arg, size) ==
    LET named == [WithNames(ta, arg) EXCEPT !.size = size]
        input == InputOf(ta, named)
    IN IF Has(ta, "inout") /\ ~named.ignore /\ ~input.set THEN Fails(arg)
       ELSE Prepare(ta, named, input)
-----------------------------------------------------------------------------
(* CffiArgPostProcess                                                      *)

\* Mutant: the count is that of the call, not the one C left.
Reported_AsAllocated(i) == args[i].size

\* The elements that C says there are, or those there is room for.
Reported(i) ==
    LET count == args[CountOf(i)].value
    IN IF IsVLA(i) /\ count >= 0 /\ count <= args[i].size THEN count ELSE args[i].size

AnyJunk(cells, n) == \E k \in DOMAIN cells : k <= n /\ cells[k] = "junk"

\* Where a string is found to end, given that there is a zero behind its first k
\* cells: at a zero, or at a cell nobody wrote that happens to be one.
EndsFound(cells, k) ==
    {e \in 1 .. k + 1 : cells[e] # "data" /\ \A j \in 1 .. e - 1 : cells[j] # "zero"}

ReadList(cells, n) == [set |-> TRUE, n |-> n, junk |-> AnyJunk(cells, n)]

\* What the script gets of k elements, or of a scalar, strings apart.
Read(ta, arg, k) ==
    CASE k = 0 -> Value(0)
      [] k = Scalar /\ ta.base = "int" ->
            [set |-> TRUE, n |-> arg.value, junk |-> AnyJunk(arg.cells, 1)]
      [] k = Scalar /\ ta.base \in {"pointer", "struct"} ->
            [set |-> TRUE, n |-> IF arg.cells = <<"zero">> THEN 0 ELSE 1,
             junk |-> AnyJunk(arg.cells, 1)]
      [] k > 0 -> ReadList(arg.cells, k)

\* All that the script may get.
Readings(ta, arg, k) ==
    IF k # 0 /\ StringCells(ta.base)
    THEN {ReadList(arg.cells, e - 1) : e \in EndsFound(arg.cells, k)}
    ELSE {Read(ta, arg, k)}

\* The cell behind the reported elements of a string, of any other a zero.
Guard(ta, arg, k) ==
    IF StringCells(ta.base) /\ k > 0 /\ k + 1 \in DOMAIN arg.cells THEN arg.cells[k + 1] ELSE "zero"

\* Mutant: what was passed as NULL is stored like the rest.
Skipped_NotNull(ta, arg) == Has(ta, "in")

Skipped(ta, arg) == Has(ta, "in") \/ arg.ignore

\* What it dereferences: the name of the variable, and the buffer.
ReadsNull(arg, k) == arg.ignore \/ (arg.null /\ k # 0)

\* Stored depending on how the return value fared; the result, on success.
Wanted(ta) ==
    IF Has(ta, "retval") THEN held
    ELSE held = ~Has(ta, "storeonerror") \/ Has(ta, "storealways")

-----------------------------------------------------------------------------
(* The call.                                                               *)

NoProto == [params |-> <<>>, checked |-> FALSE]

Init ==
    /\ proto = NoProto
    /\ vars = [v \in Var \cup {Result} |-> Unset]
    /\ phase = "idle" /\ at = 1 /\ args = <<>>
    /\ held = TRUE /\ outcome = "none"

\* cffi::Wrapper function
DefineOneFunction(p) ==
    /\ proto = NoProto
    /\ PrototypeAccepted(p, ParamTypes(p))
    /\ proto' = PrototypeParse(p)
    /\ UNCHANGED <<vars, phase, at, args, held, outcome>>

\* The script assigns a variable between calls.
SetVar(v, n) ==
    /\ phase = "idle"
    /\ vars' = [vars EXCEPT ![v] = Value(n)]
    /\ args' = <<>> /\ outcome' = "none" /\ held' = TRUE
    /\ UNCHANGED <<proto, phase, at>>

\* The position in the command of the word for a parameter.
Given(i) == Cardinality({j \in 1 .. i : ~Has(Type(j), "retval")})

HasDefault(i) == Type(i).slot = "default"

ObjFor(i, words) ==
    IF Has(Type(i), "retval") THEN NullObj
    ELSE IF Given(i) <= Len(words) THEN words[Given(i)] ELSE DefaultWord

NumArgsRight(words) ==
    /\ Len(words) <= Given(Len(proto.params))
    /\ \A i \in Params :
          ~Has(Type(i), "retval") /\ Given(i) > Len(words) => HasDefault(i)

\* Words a script would write: outputs get names, and "" where it stands for NULL.
Sensible(i, words) ==
    ~Has(Type(i), "retval") /\ Given(i) <= Len(words) =>
        LET word == words[Given(i)]
        IN IF IsOutput(Type(i))
           THEN word.n = 0 /\ (word.name \in Var \/ Has(Type(i), "nullifempty"))
           ELSE word.name = ""

Start(words) ==
    /\ proto # NoProto /\ phase = "idle"
    /\ NumArgsRight(words)
    /\ \A i \in Params : Sensible(i, words)
    /\ phase' = "pass1" /\ at' = 1 /\ held' = TRUE /\ outcome' = "none"
    /\ args' = [i \in Params |-> Fresh(ObjFor(i, words))]
    /\ UNCHANGED <<proto, vars>>

\* Mutant: the first pass is repeated until every argument is ready.
Advance_UntilReady(next) ==
    IF at < Len(proto.params) THEN at' = at + 1 /\ UNCHANGED phase
    ELSE at' = 1 /\ phase' = IF \A i \in Params : args[i].done THEN next ELSE phase

\* To the next parameter, and after the last one to the next phase.
Advance(next) ==
    IF at < Len(proto.params) THEN at' = at + 1 /\ UNCHANGED phase
    ELSE at' = 1 /\ phase' = next

Ends(how) ==
    /\ phase' = IF how \in {"ok", "error"} THEN "idle" ELSE "gone"
    /\ outcome' = how /\ at' = 1

PrepareOne(size, next) ==
    LET done == ArgPrepare(Type(at), args[at], size)
    IN /\ args' = [args EXCEPT ![at] = done.arg]
       /\ IF done.res = "ok" THEN Advance(next) /\ UNCHANGED outcome ELSE Ends(done.res)

\* Mutant: one pass, that takes counts as it finds them.
Deferred_Never == FALSE

Deferred == IsVLA(at)

\* CffiFunctionSetupArgs prepares the arguments that depend on no other first,
SetupFirst ==
    /\ phase = "pass1"
    /\ IF Deferred THEN Advance("pass2") /\ UNCHANGED <<args, outcome>>
       ELSE PrepareOne(IF IsVLA(at) THEN args[CountOf(at)].value ELSE Type(at).size, "pass2")
    /\ UNCHANGED <<proto, vars, held>>

\* and then arrays whose count is another argument.
SetupSecond ==
    /\ phase = "pass2"
    /\ IF args[at].done THEN Advance("running") /\ UNCHANGED <<args, outcome>>
       ELSE IF args[CountOf(at)].value < 0 THEN Ends("error") /\ UNCHANGED args
       ELSE PrepareOne(args[CountOf(at)].value, "running")
    /\ UNCHANGED <<proto, vars, held>>

Upto(cells, n) == [k \in DOMAIN cells |-> IF k <= n THEN "data" ELSE cells[k]]

\* What C may do to an argument: fill any number of its cells, from the first
\* on, and end a string there or leave it open.  It stays within the buffer.
Written(ta, arg) ==
    IF arg.null \/ "byref" \notin ta.flags \/ (Has(ta, "in") /\ ta.base # "int") THEN {arg}
    ELSE IF arg.size = Scalar /\ ta.base = "int"
    THEN {arg} \cup {[arg EXCEPT !.value = n, !.cells = <<"data">>] : n \in -1 .. MaxCount}
    ELSE LET size == IF arg.size = Scalar THEN 1 ELSE arg.size
         IN {[arg EXCEPT !.cells = Upto(@, n)] : n \in 0 .. size}
            \cup {[arg EXCEPT !.cells = WithString(@, n)] :
                     n \in {m \in 0 .. size - 1 : StringCells(ta.base)}}

\* The function runs, one argument at a time, and returns.
Callee ==
    /\ phase = "running"
    /\ \E written \in Written(Type(at), args[at]) : args' = [args EXCEPT ![at] = written]
    /\ Advance("storing")
    /\ held' \in IF proto.checked /\ at = Len(proto.params) THEN BOOLEAN ELSE {held}
    /\ UNCHANGED <<proto, vars, outcome>>

StoreTarget(i) == IF Has(Type(i), "retval") THEN Result ELSE args[i].obj.name

\* The next output, or the end of the call.
Stored ==
    IF at < Len(proto.params) THEN at' = at + 1 /\ UNCHANGED <<phase, outcome>>
    ELSE Ends(IF held THEN "ok" ELSE "error")

\* An output is stored, in the variable that was named or as the result.  The
\* code takes the result last, which no other output can tell.
Store ==
    /\ phase = "storing"
    /\ LET ta  == Type(at)
           arg == args[at]
           k   == Reported(at)
       IN IF Skipped(ta, arg) \/ ~Wanted(ta)
          THEN UNCHANGED vars /\ Stored
          ELSE IF ReadsNull(arg, k) THEN UNCHANGED vars /\ Ends("crash")
          ELSE \/ /\ Guard(ta, arg, k) \in {"zero", "junk"}
                  /\ \E value \in Readings(ta, arg, k) :
                        vars' = [vars EXCEPT ![StoreTarget(at)] = value]
                  /\ Stored
               \/ /\ Guard(ta, arg, k) \in {"data", "junk"}
                  /\ UNCHANGED vars /\ Ends("panic")
    /\ UNCHANGED <<proto, args, held>>

Next ==
    \/ \E p \in Prototypes : DefineOneFunction(p)
    \/ \E v \in Var, n \in 0 .. MaxCount : SetVar(v, n)
    \/ \E k \in 0 .. Len(proto.params) :
          \E words \in [1 .. k -> [name : Var \cup {""}, n : -1 .. MaxCount]] : Start(words)
    \/ SetupFirst
    \/ SetupSecond
    \/ Callee
    \/ Store

\* The steps the package takes by itself are fair: they are iterations of loops
\* of one thread that waits for nothing.  The script need not call anything,
\* and the C function need not return.
Spec == Init /\ [][Next]_state /\ WF_state(SetupFirst \/ SetupSecond \/ Store)

-----------------------------------------------------------------------------
(* Properties.                                                             *)

\* When C is entered, every argument is ready, and every array whose size is
\* another argument has exactly that many elements, whichever order they were
\* declared in (CffiFunctionSetupArgs).
CountsAgree ==
    phase = "running" /\ at = 1 =>
        \A i \in Params :
            /\ args[i].done
            /\ IsVLA(i) => args[i].size = args[CountOf(i)].value
            /\ args[i].null \/ Len(args[i].cells) >= args[i].size

StoredNow(i) ==
    /\ phase = "idle" /\ outcome = "ok"
    /\ IsOutput(Type(i)) /\ ~Skipped(Type(i), args[i]) /\ Wanted(Type(i))

OnlyTarget(i) ==
    \A j \in Params \ {i} : StoredNow(j) => StoreTarget(j) # StoreTarget(i)

\* After a call, what the script finds in the variable of an array and in that
\* of its count fit together: the list has as many elements as C reported, or
\* as there was room for when that is fewer.
ReportedLength ==
    \A i \in Params :
        StoredNow(i) /\ OnlyTarget(i) /\ IsVLA(i) =>
            LET c == CountOf(i)
                length == vars[StoreTarget(i)].n
                count == vars[StoreTarget(c)].n
            IN StoredNow(c) /\ OnlyTarget(c) =>
                  /\ length <= args[i].size
                  /\ count >= 0 => length <= count
                  /\ ~StringCells(Type(i).base) /\ count >= 0 =>
                        length \in {count, args[i].size}

\* Passing "" for an output that may be NULL never makes the program read
\* through NULL, pointers and structs apart.
EmptyNameIsSafe ==
    outcome = "crash" =>
        \E i \in Params : /\ Type(i).base \in {"pointer", "struct"}
                          /\ Type(i).size = Scalar /\ Has(Type(i), "nullifempty")

\* C began a string and did not end it, and nothing else did right behind.
LeftOpen(cells) ==
    \E k \in DOMAIN cells : /\ k > 1 /\ cells[k] = "junk"
                            /\ \A j \in 1 .. k - 1 : cells[j] = "data"

\* What nobody wrote never reaches the script as an array of numbers or as a
\* pointer, and as a string only when C itself left that open: a C function that
\* fails before it writes anything does no harm (CffiArgPrepareChars and
\* CffiArgPrepareUniChars put a terminator in front, Function.c:137-147, 198-202).
NothingUninitialised ==
    \A i \in Params :
        /\ StoredNow(i) /\ OnlyTarget(i)
        /\ \/ StringCells(Type(i).base) /\ ~LeftOpen(args[i].cells)
           \/ Type(i).base = "int" /\ Type(i).size # Scalar
           \/ Type(i).base = "pointer" /\ Type(i).size = Scalar
        => ~vars[StoreTarget(i)].junk

\* A C function that stays within its buffers makes the program panic only
\* when it changed the count of a string that has one.
PanicNeedsCount ==
    outcome = "panic" =>
        \E i \in Params : /\ StringCells(Type(i).base) /\ IsVLA(i)
                          /\ args[CountOf(i)].value # args[i].size

\* Whatever depends on what in a prototype, CffiFunctionSetupArgs gets to the C
\* function or gives the call up; and once that returned, every output is dealt
\* with and the call comes back to the script, or the program is gone.
CallMovesOn ==
    /\ phase \in {"pass1", "pass2"} ~> phase \in {"running", "idle", "gone"}
    /\ phase = "storing" ~> phase \in {"idle", "gone"}
=============================================================================

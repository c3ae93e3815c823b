------------------------------ MODULE Lifetimes ------------------------------
(***************************************************************************)
(* How long libraries, prototypes, functions and callbacks live:           *)
(* generic/tclCffiLoad.c, tclCffiWrapper.c, tclCffiPrototype.c,            *)
(* tclCffiFunction.c, tclCffiCallback.c and tclCffiLibffi.c.               *)
(*                                                                         *)
(* The method tables of interfaces, which hold prototypes too, are here    *)
(* just a set of slots; module Interfaces fills and clears them.           *)
(*                                                                         *)
(* Libraries, prototypes and functions carry a reference count (nRefs).    *)
(* An object whose count drops to zero is freed, and its block may be      *)
(* allocated again, so refs[o] = 0 stands for memory that is not an        *)
(* object.  A callback has no count: it is allocated while it is in the    *)
(* table of closures, and guarded by its depth while it runs.              *)
(*                                                                         *)
(* Scripts run at the top, in callbacks and in onerror handlers, where     *)
(* they may delete anything, what is running included.  The stack holds    *)
(* the calls and callbacks under way.                                      *)
(***************************************************************************)
EXTENDS Integers, Sequences, FiniteSets

CONSTANTS
    Lib,        \* library contexts
    Proto,      \* prototype blocks
    Fn,         \* function blocks
    Callback,   \* callback blocks
    Wrapper,    \* names of Wrapper commands
    Command,    \* names of commands bound to functions
    Slot,       \* slots of method tables
    None,
    MaxDepth    \* bound: calls and callbacks under way

Object == Lib \cup Proto \cup Fn

ASSUME LifetimesAssumption ==
    /\ Lib \cap Proto = {} /\ Lib \cap Fn = {} /\ Proto \cap Fn = {}
    /\ None \notin Object \cup Callback
    /\ IsFiniteSet(Slot)
    /\ MaxDepth \in Nat

VARIABLES
    refs,       \* nRefs, and 0 when not allocated
    fnProto,    \* the prototype of a function
    fnLib,      \* the library of a function, or None
    cbProto,    \* the prototype of a callback
    slotProto,  \* the prototype in a slot of a method table
    depth,      \* the activations of a callback
    wrappers,   \* the library of each Wrapper command
    commands,   \* the function of each command
    named,      \* prototypes in the name table
    closures,   \* callbacks in the table of closures
    stack       \* calls and callbacks under way, the innermost last

vars == <<refs, fnProto, fnLib, cbProto, slotProto, depth, wrappers, commands, named,
          closures, stack>>

bindings == <<fnProto, fnLib, cbProto, slotProto>>

\* A function is called through its command, or through cffi::call, which makes
\* a function for the purpose.
Frames ==
    [kind : {"call", "handler"}, fn : Fn, temp : BOOLEAN]
        \cup [kind : {"callback"}, cb : Callback]

TypeOK ==
    /\ refs \in [Object -> Nat]
    /\ fnProto \in [Fn -> Proto \cup {None}]
    /\ fnLib \in [Fn -> Lib \cup {None}]
    /\ cbProto \in [Callback -> Proto \cup {None}]
    /\ slotProto \in [Slot -> Proto \cup {None}]
    /\ depth \in [Callback -> Nat]
    /\ wrappers \in [Wrapper -> Lib \cup {None}]
    /\ commands \in [Command -> Fn \cup {None}]
    /\ named \subseteq Proto
    /\ closures \subseteq Callback
    /\ stack \in Seq(Frames)

Init ==
    /\ refs = [o \in Object |-> 0]
    /\ fnProto = [f \in Fn |-> None]
    /\ fnLib = [f \in Fn |-> None]
    /\ cbProto = [c \in Callback |-> None]
    /\ slotProto = [s \in Slot |-> None]
    /\ depth = [c \in Callback |-> 0]
    /\ wrappers = [w \in Wrapper |-> None]
    /\ commands = [n \in Command |-> None]
    /\ named = {}
    /\ closures = {}
    /\ stack = <<>>

Top == stack[Len(stack)]

Below == SubSeq(stack, 1, Len(stack) - 1)

ScriptRuns == stack # <<>> => Top.kind # "call"

InC == stack # <<>> /\ Top.kind = "call"

-----------------------------------------------------------------------------
(* Reference counts.                                                       *)

One(condition) == IF condition THEN 1 ELSE 0

Each(objects) == [o \in Object |-> One(o \in objects)]

Nothing == Each({})

\* Mutant: a freed function keeps its library loaded.
FunctionDrops_KeepsLib(f, n) ==
    IF f = None THEN Nothing
    ELSE [o \in Object |-> IF o = f THEN n ELSE One(refs[f] <= n /\ o = fnProto[f])]

\* What n times CffiFunctionUnref(f) takes from each count: when the last
\* reference goes, CffiFunctionCleanup releases the prototype and the library.
FunctionDrops(f, n) ==
    IF f = None THEN Nothing
    ELSE [o \in Object |-> IF o = f THEN n
                           ELSE One(refs[f] <= n /\ o \in {fnProto[f], fnLib[f]})]

\* Counts go up before they go down.  One that is 0 already belongs to a freed
\* object.
Recount(gain, drop) ==
    refs' = [o \in Object |-> IF drop[o] > refs[o] + gain[o] THEN 0
                              ELSE refs[o] + gain[o] - drop[o]]

-----------------------------------------------------------------------------
(* Libraries.                                                              *)

\* A Wrapper command of the same name is replaced, hence deleted.
WrapperCreate(w, l) ==
    /\ ScriptRuns
    /\ refs[l] = 0
    /\ Recount(Each({l}), Each({wrappers[w]}))
    /\ wrappers' = [wrappers EXCEPT ![w] = l]
    /\ UNCHANGED <<bindings, depth, commands, named, closures, stack>>

\* The library is unloaded when the last function bound to it goes, too.
WrapperDestroy(w) ==
    /\ ScriptRuns
    /\ wrappers[w] # None
    /\ Recount(Nothing, Each({wrappers[w]}))
    /\ wrappers' = [wrappers EXCEPT ![w] = None]
    /\ UNCHANGED <<bindings, depth, commands, named, closures, stack>>

-----------------------------------------------------------------------------
(* Functions.                                                              *)

\* The function, its prototype and its command are new; a command of the same
\* name is replaced.
DefineFunction(w, n, f, p) ==
    /\ ScriptRuns
    /\ wrappers[w] # None
    /\ refs[f] = 0 /\ refs[p] = 0
    /\ Recount(Each({f, p, wrappers[w]}), FunctionDrops(commands[n], 1))
    /\ fnProto' = [fnProto EXCEPT ![f] = p]
    /\ fnLib' = [fnLib EXCEPT ![f] = wrappers[w]]
    /\ commands' = [commands EXCEPT ![n] = f]
    /\ UNCHANGED <<cbProto, slotProto, depth, wrappers, named, closures, stack>>

\* rename or redefinition of the command: CffiFunctionInstanceDeleter.
FunctionDelete(n) ==
    /\ ScriptRuns
    /\ commands[n] # None
    /\ Recount(Nothing, FunctionDrops(commands[n], 1))
    /\ commands' = [commands EXCEPT ![n] = None]
    /\ UNCHANGED <<bindings, depth, wrappers, named, closures, stack>>

\* The call holds a reference until it is over.
FunctionCall(n) ==
    /\ ScriptRuns
    /\ Len(stack) < MaxDepth
    /\ commands[n] # None
    /\ Recount(Each({commands[n]}), Nothing)
    /\ stack' = Append(stack, [kind |-> "call", fn |-> commands[n], temp |-> FALSE])
    /\ UNCHANGED <<bindings, depth, wrappers, commands, named, closures>>

\* A function made for one call, which holds a reference of its own in addition.
CallProto(f, p) ==
    /\ ScriptRuns
    /\ Len(stack) < MaxDepth
    /\ refs[f] = 0
    /\ Recount([Each({p}) EXCEPT ![f] = 2], Nothing)
    /\ fnProto' = [fnProto EXCEPT ![f] = p]
    /\ fnLib' = [fnLib EXCEPT ![f] = None]
    /\ stack' = Append(stack, [kind |-> "call", fn |-> f, temp |-> TRUE])
    /\ UNCHANGED <<cbProto, slotProto, depth, wrappers, commands, named, closures>>

\* cffi::call.
CallPointer(f, p) == p \in named /\ CallProto(f, p)

\* A method is called through the prototype in its slot.
CallMethod(f, s) == slotProto[s] # None /\ CallProto(f, slotProto[s])

\* The C function has returned an error for which a script is to be run.
ErrorHandler ==
    /\ InC
    /\ stack' = Append(Below, [Top EXCEPT !.kind = "handler"])
    /\ UNCHANGED <<refs, bindings, depth, wrappers, commands, named,
                   closures>>

FunctionReturn ==
    /\ stack # <<>> /\ Top.kind \in {"call", "handler"}
    /\ Recount(Nothing, FunctionDrops(Top.fn, IF Top.temp THEN 2 ELSE 1))
    /\ stack' = Below
    /\ UNCHANGED <<bindings, depth, wrappers, commands, named, closures>>

-----------------------------------------------------------------------------
(* Prototypes.  A definition whose name is taken has no effect.            *)

PrototypeDefine(p) ==
    /\ ScriptRuns
    /\ refs[p] = 0
    /\ Recount(Each({p}), Nothing)
    /\ named' = named \cup {p}
    /\ UNCHANGED <<bindings, depth, wrappers, commands, closures, stack>>

\* prototype delete PATTERN and prototype clear.
PrototypeDelete(P) ==
    /\ ScriptRuns
    /\ Recount(Nothing, Each(P))
    /\ named' = named \ P
    /\ UNCHANGED <<bindings, depth, wrappers, commands, closures, stack>>

-----------------------------------------------------------------------------
(* Method tables.  New slots get new prototypes or share those of other    *)
(* slots; the slots of interfaces that are freed at the same time are      *)
(* cleared.                                                                *)

Available(S, p) == refs[p] = 0 \/ \E s \in Slot \ S : slotProto[s] = p

SlotsChange(new, S) ==
    /\ ScriptRuns
    /\ \A s \in S : slotProto[s] # None
    /\ \A s \in DOMAIN new : slotProto[s] = None /\ Available(S, new[s])
    /\ Recount([o \in Object |-> Cardinality({s \in DOMAIN new : new[s] = o})],
               [o \in Object |-> Cardinality({s \in S : slotProto[s] = o})])
    /\ slotProto' = [s \in Slot |-> IF s \in DOMAIN new THEN new[s]
                                    ELSE IF s \in S THEN None ELSE slotProto[s]]
    /\ UNCHANGED <<fnProto, fnLib, cbProto, depth, wrappers, commands, named, closures,
                   stack>>

-----------------------------------------------------------------------------
(* Callbacks.                                                              *)

CallbackNew(c, p) ==
    /\ ScriptRuns
    /\ c \notin closures /\ p \in named
    /\ Recount(Each({p}), Nothing)
    /\ cbProto' = [cbProto EXCEPT ![c] = p]
    /\ depth' = [depth EXCEPT ![c] = 0]
    /\ closures' = closures \cup {c}
    /\ UNCHANGED <<fnProto, fnLib, slotProto, wrappers, commands, named, stack>>

\* Mutant: an active callback is freed like any other.
CallbackFree_Active(c) ==
    /\ ScriptRuns
    /\ c \in closures
    /\ Recount(Nothing, Each({cbProto[c]}))
    /\ closures' = closures \ {c}
    /\ UNCHANGED <<bindings, depth, wrappers, commands, named, stack>>

\* An active callback is not freed.  (Nor is one whose pointer a script has
\* unregistered: it then stays as it is.)
CallbackFree(c) ==
    /\ ScriptRuns
    /\ c \in closures
    /\ depth[c] = 0
    /\ Recount(Nothing, Each({cbProto[c]}))
    /\ closures' = closures \ {c}
    /\ UNCHANGED <<bindings, depth, wrappers, commands, named, stack>>

\* A C function calls the closure, which evaluates the script.
CallbackInvoke(c) ==
    /\ InC
    /\ Len(stack) < MaxDepth
    /\ c \in closures
    /\ depth' = [depth EXCEPT ![c] = @ + 1]
    /\ stack' = Append(stack, [kind |-> "callback", cb |-> c])
    /\ UNCHANGED <<refs, bindings, wrappers, commands, named, closures>>

\* Mutant: depth is a flag, cleared when any activation ends.
CallbackReturn_Clears ==
    /\ stack # <<>> /\ Top.kind = "callback"
    /\ depth' = [depth EXCEPT ![Top.cb] = 0]
    /\ stack' = Below
    /\ UNCHANGED <<refs, bindings, wrappers, commands, named, closures>>

CallbackReturn ==
    /\ stack # <<>> /\ Top.kind = "callback"
    /\ depth' = [depth EXCEPT ![Top.cb] = @ - 1]
    /\ stack' = Below
    /\ UNCHANGED <<refs, bindings, wrappers, commands, named, closures>>

\* What goes on besides interfaces.
Ordinary ==
    \/ \E w \in Wrapper, l \in Lib : WrapperCreate(w, l)
    \/ \E w \in Wrapper : WrapperDestroy(w)
    \/ \E w \in Wrapper, n \in Command, f \in Fn, p \in Proto : DefineFunction(w, n, f, p)
    \/ \E n \in Command : FunctionDelete(n)
    \/ \E n \in Command : FunctionCall(n)
    \/ \E f \in Fn, p \in Proto : CallPointer(f, p)
    \/ ErrorHandler
    \/ FunctionReturn
    \/ \E p \in Proto : PrototypeDefine(p)
    \/ \E P \in (SUBSET named) \ {{}} : PrototypeDelete(P)
    \/ \E c \in Callback, p \in Proto : CallbackNew(c, p)
    \/ \E c \in Callback : CallbackFree(c)
    \/ \E c \in Callback : CallbackInvoke(c)
    \/ CallbackReturn

Next ==
    \/ Ordinary
    \/ \E f \in Fn, s \in Slot : CallMethod(f, s)
    \/ \E T, S \in SUBSET Slot : \E new \in [T -> Proto] : SlotsChange(new, S)

Spec == Init /\ [][Next]_vars

-----------------------------------------------------------------------------
(* Properties.                                                             *)

\* The references to an object that exist, each as a token of its own.
FunctionHolders(f) ==
    {<<"command", n>> : n \in {m \in Command : commands[m] = f}}
        \cup {<<"call", i>> : i \in {j \in DOMAIN stack :
                                        stack[j].kind # "callback" /\ stack[j].fn = f}}
        \cup {<<"temp", i>> : i \in {j \in DOMAIN stack :
                                        /\ stack[j].kind # "callback" /\ stack[j].fn = f
                                        /\ stack[j].temp}}

Functions == {f \in Fn : FunctionHolders(f) # {}}

LibHolders(l) ==
    {<<"wrapper", w>> : w \in {v \in Wrapper : wrappers[v] = l}}
        \cup {<<"function", f>> : f \in {g \in Functions : fnLib[g] = l}}

ProtoHolders(p) ==
    {<<"name", q>> : q \in named \cap {p}}
        \cup {<<"function", f>> : f \in {g \in Functions : fnProto[g] = p}}
        \cup {<<"callback", c>> : c \in {d \in closures : cbProto[d] = p}}
        \cup {<<"slot", s>> : s \in {r \in Slot : slotProto[r] = p}}

Holders(o) ==
    CASE o \in Fn    -> FunctionHolders(o)
      [] o \in Lib   -> LibHolders(o)
      [] o \in Proto -> ProtoHolders(o)

\* Each object is referenced exactly as often as its count says, in whatever order
\* commands, names and callbacks are made, replaced and deleted and calls return:
\* nothing that is referenced has been freed, and nothing unreferenced is left
\* allocated (CffiFunctionUnref, Int.h:1089; CffiProtoUnref, Prototype.c:46;
\* CffiLibCtxUnref, Load.c:10).
RefsExact == \A o \in Object : refs[o] = Cardinality(Holders(o))

\* A call or callback under way never outlives what it runs on, although the script
\* it runs may delete the command, the library, the prototype or the callback, and
\* although a callback may be active more than once.
RunningIsAllocated ==
    \A i \in DOMAIN stack :
        IF stack[i].kind = "callback"
        THEN stack[i].cb \in closures /\ refs[cbProto[stack[i].cb]] > 0
        ELSE /\ refs[stack[i].fn] > 0
             /\ refs[fnProto[stack[i].fn]] > 0
             /\ fnLib[stack[i].fn] # None => refs[fnLib[stack[i].fn]] > 0
=============================================================================

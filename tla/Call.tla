-------------------------------- MODULE Call --------------------------------
(***************************************************************************)
(* Calls of C functions from scripts (generic/tclCffiFunction.c), as far   *)
(* as they verify, dispose of and register pointers.                       *)
(*                                                                         *)
(* The activations of CffiFunctionCall form a stack: a script that runs    *)
(* while a call is under way, in a trace on the variable of a parameter,   *)
(* in a callback or in an onerror handler, may make calls of its own.  A   *)
(* call passes through the phases                                          *)
(*     preparing the arguments are verified one by one, and the variable   *)
(*               of a parameter is read when it is its turn,               *)
(*     running   the C function has been entered,                          *)
(*     finished  it has done its work and is about to return,              *)
(*     storing   pointers are disposed of, the result is wrapped and the   *)
(*               output parameters are being stored one by one,            *)
(*     handler   the script of the onerror annotation runs.                *)
(*                                                                         *)
(* The library behind the functions is external.  It keeps its side of     *)
(* the annotations: refs counts, for every address, the references to the  *)
(* object there that the script was given and has not given back.  A       *)
(* dispose parameter gives one back whatever the call returns, a           *)
(* disposeonsuccess parameter only when the call succeeds; a safe or       *)
(* counted result or output hands one out.                                 *)
(*                                                                         *)
(* An array of pointers, of a fixed size here, is as many parameters as it *)
(* has elements.  Types other than pointers, and tags, are left out.       *)
(***************************************************************************)
EXTENDS PointerTable, Sequences, FiniteSets

CONSTANTS
    Null,       \* the NULL pointer
    Shared,     \* addresses of objects the library counts references of
    Static,     \* addresses of objects the library never gives away
    Protos,     \* the prototypes of the functions a script calls
    Reenter,    \* where scripts run: subset of Places
    EnvOps,     \* subset of {"safe", "counted", "pin", "dispose", "invalidate"}
    MaxDepth,   \* bound: nested calls
    MaxRefs     \* bound: references to one object

Values == Address \cup {Null}

\* Traces run when a variable is read and when it is set.
Places == {"read", "callback", "trace", "handler"}

Safeties == {"safe", "counted", "pinned", "unsafe"}

Params == [dir    : {"in", "inout", "out"},
           own    : {"keep", "dispose", "disposeonsuccess"},
           safety : Safeties,
           store  : {"onsuccess", "onerror", "always"},
           nullok : BOOLEAN]

\* checked: an error check annotation applies, or the pointer must not be NULL.
Returns == [type    : {"void", "number", "pointer", "struct"},
            byref   : BOOLEAN,
            safety  : Safeties,
            checked : BOOLEAN,
            discard : BOOLEAN,
            onerror : BOOLEAN]

ASSUME CallAssumption ==
    /\ Null \notin Address
    /\ Shared \subseteq Address /\ Static \subseteq Address /\ Shared \cap Static = {}
    /\ \A p \in Protos : p.params \in Seq(Params) /\ p.ret \in Returns
    /\ Reenter \subseteq Places
    /\ EnvOps \subseteq {"safe", "counted", "pin", "dispose", "invalidate"}
    /\ MaxDepth \in Nat /\ MaxRefs \in Nat

VARIABLES
    stack,      \* the calls under way, the innermost last
    registry,   \* registered pointers
    refs        \* references the script owns, by address

vars == <<stack, registry, refs>>

Outcomes == {"ok", "fails", "null"}

Phases == {"preparing", "running", "finished", "storing", "handler"}

Activations ==
    {act \in [proto   : Protos,
              args    : Seq(Values),  \* savedValue, or Null for an output
              phase   : Phases,
              outcome : Outcomes,
              value   : Values,       \* the pointer returned
              outs    : Seq(Values),  \* what the output parameters hold
              next    : Nat] :        \* the parameter to be prepared or stored next
        /\ DOMAIN act.args = DOMAIN act.proto.params
        /\ DOMAIN act.outs = DOMAIN act.args}

TypeOK ==
    /\ stack \in Seq(Activations)
    /\ registry \in [Address -> Entry]
    /\ refs \in [Address -> Nat]

Init ==
    /\ stack = <<>>
    /\ registry = [a \in Address |-> Unregistered]
    /\ refs = [a \in Address |-> 0]

NoSuper == [t \in Tag |-> Void]

Top == stack[Len(stack)]

Callers == SubSeq(stack, 1, Len(stack) - 1)

\* An output parameter is given a value in the case it is meant for, and stored
\* in its variable in that case.
Produces(param, outcome) ==
    /\ param.dir # "in"
    /\ \/ param.store = "always"
       \/ param.store = "onsuccess" /\ outcome = "ok"
       \/ param.store = "onerror" /\ outcome # "ok"

\* The variable of a parameter has just been set, which fires its traces.
VariableSet(act) ==
    /\ act.phase = "storing"
    /\ act.next - 1 \in DOMAIN act.proto.params
    /\ Produces(act.proto.params[act.next - 1], act.outcome)

\* The variable of a parameter is read, which fires its traces, before its value
\* is prepared: for an output as well, to see whether it exists.
VariableRead(act) ==
    /\ act.phase = "preparing"
    /\ act.next \in DOMAIN act.proto.params
    /\ act.proto.params[act.next].dir # "in"

\* A script runs: the main one, or one that a call under way has started.
ScriptRuns ==
    \/ stack = <<>>
    \/ stack # <<>> /\ VariableRead(Top) /\ "read" \in Reenter
    \/ stack # <<>> /\ Top.phase \in {"running", "finished"} /\ "callback" \in Reenter
    \/ stack # <<>> /\ VariableSet(Top) /\ "trace" \in Reenter
    \/ stack # <<>> /\ Top.phase = "handler" /\ "handler" \in Reenter

-----------------------------------------------------------------------------
(* Entering a call.                                                        *)

\* Mutant: registration is not looked at.
PointerFromObj_Unchecked(param, v) == v = Null => param.nullok

\* CffiPointerFromObj, with tags left out.
PointerFromObj(param, v) ==
    IF v = Null THEN param.nullok
    ELSE param.safety = "unsafe" \/ PointerValid(registry, NoSuper, v, Void)

\* CffiArgPrepare: what goes in is verified, an output starts as NULL.
ArgPrepare(param, v) ==
    IF param.dir = "out" THEN v = Null ELSE PointerFromObj(param, v)

\* The annotation suits the object: tags keep pointers to the others apart.
Suits(safety, v) ==
    /\ safety = "safe"    => v \notin Shared \cup Static
    /\ safety = "counted" => v \in Shared \cup {Null}
    /\ safety = "pinned"  => v \in Static \cup {Null}

\* CffiFunctionCall begins, with no argument prepared.
FunctionCall(p) ==
    /\ ScriptRuns
    /\ Len(stack) < MaxDepth
    /\ LET none == [k \in DOMAIN p.params |-> Null] IN
       stack' = Append(stack, [proto   |-> p,
                               args    |-> none,
                               phase   |-> "preparing",
                               outcome |-> "ok",
                               value   |-> Null,
                               outs    |-> none,
                               next    |-> 1])
    /\ UNCHANGED <<registry, refs>>

\* CffiFunctionSetupArgs: the next argument is prepared.  The call is given up
\* when it does not pass; those before it are not looked at again.
PrepareParam(v) ==
    /\ stack # <<>>
    /\ Top.phase = "preparing"
    /\ Top.next \in DOMAIN Top.proto.params
    /\ LET param == Top.proto.params[Top.next] IN
       /\ param.dir = "inout" => Suits(param.safety, v)
       /\ param.dir = "out"   => v = Null
       /\ stack' = IF ArgPrepare(param, v)
                   THEN Append(Callers, [Top EXCEPT !.args[Top.next] = v, !.next = @ + 1])
                   ELSE Callers
    /\ UNCHANGED <<registry, refs>>

\* All are prepared: the C function is called.
EnterFunction ==
    /\ stack # <<>>
    /\ Top.phase = "preparing"
    /\ Top.next \notin DOMAIN Top.proto.params
    /\ stack' = Append(Callers, [Top EXCEPT !.phase = "running", !.next = 1])
    /\ UNCHANGED <<registry, refs>>

-----------------------------------------------------------------------------
(* The C function (external).                                              *)

\* "fails" is a return value that does not pass the checks, "null" a NULL where
\* the value itself is returned by reference.
PossibleOutcomes(ret) ==
    {"ok"} \cup {o \in {"fails"} : ret.checked}
           \cup {o \in {"null"} : ret.byref /\ ret.type \in {"number", "pointer"}}

\* The library takes back the reference passed for this parameter.
Consumes(param, outcome) ==
    /\ param.dir # "out"
    /\ param.own = "dispose" \/ (param.own = "disposeonsuccess" /\ outcome = "ok")

Consumed(act, outcome, a) ==
    Cardinality({k \in DOMAIN act.args :
                    Consumes(act.proto.params[k], outcome) /\ act.args[k] = a})

\* A pointer of this safety hands a reference to the script.
Owning(safety) == safety \in {"safe", "counted"}

\* An inout parameter that the function does not touch.
Untouched(act, outs, k) ==
    /\ act.proto.params[k].dir = "inout"
    /\ act.proto.params[k].own = "keep"
    /\ outs[k] = act.args[k]

Handed(act, value, outs, a) ==
    (IF Owning(act.proto.ret.safety) /\ value = a THEN 1 ELSE 0)
    + Cardinality({k \in DOMAIN outs : /\ Owning(act.proto.params[k].safety)
                                       /\ ~Untouched(act, outs, k)
                                       /\ act.proto.params[k].dir # "in"
                                       /\ outs[k] = a})

CFunction ==
    /\ stack # <<>>
    /\ Top.phase = "running"
    /\ \E outcome \in PossibleOutcomes(Top.proto.ret),
          value \in Values,
          outs \in [DOMAIN Top.args -> Values] :
          LET left(a)  == IF Consumed(Top, outcome, a) > refs[a] THEN 0
                          ELSE refs[a] - Consumed(Top, outcome, a)
              given(a) == Handed(Top, value, outs, a)
          IN
          /\ Suits(Top.proto.ret.safety, value)
          /\ IF Top.proto.ret.type = "pointer" /\ outcome = "ok"
             THEN value = Null => ~Top.proto.ret.checked
             ELSE value = Null
          /\ \A k \in DOMAIN outs :
                IF Produces(Top.proto.params[k], outcome)
                THEN \/ Untouched(Top, outs, k)
                     \/ Suits(Top.proto.params[k].safety, outs[k])
                ELSE outs[k] = Null
          /\ \A a \in Address :
                /\ given(a) > 0 /\ a \notin Shared => left(a) + given(a) = 1
                /\ left(a) + given(a) <= MaxRefs
          /\ refs' = [a \in Address |-> left(a) + given(a)]
          /\ stack' = Append(Callers, [Top EXCEPT !.phase = "finished",
                                                  !.outcome = outcome,
                                                  !.value = value,
                                                  !.outs = outs])
    /\ UNCHANGED registry

-----------------------------------------------------------------------------
(* Returning from it.                                                      *)

\* Wrapping a pointer registers it as its type says: CffiPointerToObj.
PointerToObj(reg, safety, v) ==
    IF v = Null \/ safety = "unsafe" THEN reg
    ELSE CASE safety = "counted" -> RegisterCounted(reg, NoSuper, v, Void)
           [] safety = "pinned"  -> RegisterPinned(reg, v)
           [] safety = "safe"    -> RegisterSafe(reg, NoSuper, v, Void)

\* Mutant: disposeonsuccess is taken for dispose.
Disposes_Always(param, outcome) == param.dir # "out" /\ param.own # "keep"

\* Whether the pointer passed for a parameter is unregistered.
Disposes(param, outcome) ==
    /\ param.dir # "out"
    /\ param.own = "dispose" \/ (param.own = "disposeonsuccess" /\ outcome = "ok")

\* Mutant: a counted pointer is never removed.
ReleasedTimes_NoFloor(e, n) ==
    CASE n = 0 \/ e.kind = "pinned"  -> e
      [] e.kind = "counted"          -> [e EXCEPT !.count = @ - n]
      [] OTHER                       -> Unregistered

\* n registrations of an entry are released.
ReleasedTimes(e, n) ==
    CASE n = 0 \/ e.kind = "pinned"         -> e
      [] e.kind = "counted" /\ e.count > n  -> [e EXCEPT !.count = @ - n]
      [] OTHER                              -> Unregistered

\* CffiPointerArgsDispose: every saved pointer, once for each time it was passed.
PointerArgsDispose(reg, act) ==
    [a \in Address |->
        ReleasedTimes(reg[a],
                      Cardinality({k \in DOMAIN act.args :
                                      /\ Disposes(act.proto.params[k], act.outcome)
                                      /\ act.args[k] = a}))]

\* The branches of the switch on the return type that reach the disposal: not
\* those for a NULL in place of a value and for a struct returned by value.
ReachesDispose(act) ==
    /\ act.outcome # "null"
    /\ ~(act.proto.ret.type = "struct" /\ ~act.proto.ret.byref)

\* ret is TCL_ERROR after the switch: nothing is stored, no handler is called.
NotWrapped(act) ==
    \/ act.outcome = "null"
    \/ act.proto.ret.type = "struct" /\ act.outcome = "fails"

Wrapped(reg, act) ==
    IF act.proto.ret.type = "pointer" /\ ~act.proto.ret.discard
    THEN PointerToObj(reg, act.proto.ret.safety, act.value)
    ELSE reg

Disposed(act) ==
    IF ReachesDispose(act) THEN PointerArgsDispose(registry, act) ELSE registry

AfterReturn(act) ==
    IF NotWrapped(act) THEN Callers
    ELSE Append(Callers, [act EXCEPT !.phase = "storing"])

\* Mutant: the result is wrapped before the arguments are disposed of.
FunctionReturn_WrapsFirst ==
    /\ stack # <<>>
    /\ Top.phase = "finished"
    /\ registry' = IF ReachesDispose(Top)
                   THEN PointerArgsDispose(Wrapped(registry, Top), Top)
                   ELSE Wrapped(registry, Top)
    /\ stack' = AfterReturn(Top)
    /\ UNCHANGED refs

\* Arguments are disposed of before the result is wrapped, as it may be one of
\* them.
FunctionReturn ==
    /\ stack # <<>>
    /\ Top.phase = "finished"
    /\ registry' = Wrapped(Disposed(Top), Top)
    /\ stack' = AfterReturn(Top)
    /\ UNCHANGED refs

\* CffiArgPostProcess for the next parameter, if it is to be stored.
StoreParam ==
    /\ stack # <<>>
    /\ Top.phase = "storing"
    /\ Top.next \in DOMAIN Top.proto.params
    /\ LET param == Top.proto.params[Top.next] IN
       registry' = IF Produces(param, Top.outcome)
                   THEN PointerToObj(registry, param.safety, Top.outs[Top.next])
                   ELSE registry
    /\ stack' = Append(Callers, [Top EXCEPT !.next = @ + 1])
    /\ UNCHANGED refs

\* All is stored: the result is set, or the failure is reported.
ReportResult ==
    /\ stack # <<>>
    /\ Top.phase = "storing"
    /\ Top.next \notin DOMAIN Top.proto.params
    /\ stack' = IF Top.outcome = "fails" /\ Top.proto.ret.onerror
                THEN Append(Callers, [Top EXCEPT !.phase = "handler"])
                ELSE Callers
    /\ UNCHANGED <<registry, refs>>

\* CffiCustomErrorHandler returns.
HandlerReturn ==
    /\ stack # <<>>
    /\ Top.phase = "handler"
    /\ stack' = Callers
    /\ UNCHANGED <<registry, refs>>

-----------------------------------------------------------------------------
(* The pointer command, applied by a script to a pointer it holds.         *)

EnvPointer(a) ==
    /\ ScriptRuns
    /\ \/ "safe" \in EnvOps /\ registry' = RegisterSafe(registry, NoSuper, a, Void)
       \/ /\ "counted" \in EnvOps
          /\ registry[a].count < MaxRefs
          /\ registry' = RegisterCounted(registry, NoSuper, a, Void)
       \/ "pin" \in EnvOps /\ registry' = RegisterPinned(registry, a)
       \/ "dispose" \in EnvOps /\ registry' = Unregister(registry, a)
       \/ "invalidate" \in EnvOps /\ registry' = Invalidate(registry, a)
    /\ UNCHANGED <<stack, refs>>

Next ==
    \/ \E p \in Protos : FunctionCall(p)
    \/ \E v \in Values : PrepareParam(v)
    \/ EnterFunction
    \/ CFunction
    \/ FunctionReturn
    \/ StoreParam
    \/ ReportResult
    \/ HandlerReturn
    \/ \E a \in Address : EnvPointer(a)

Spec == Init /\ [][Next]_vars

-----------------------------------------------------------------------------
(* Properties.                                                             *)

Registrations(e) ==
    CASE e.kind = "none" -> 0
      [] e.kind = "safe" -> 1
      [] OTHER           -> e.count

\* The conditions under which registrations and references agree.  Scripts run in
\* traces and in error handlers, and leave the registry to calls.
ScriptsOnlyCall == Reenter \subseteq {"read", "trace", "handler"} /\ EnvOps = {}

\* The declarations for which the account is kept.  The result is of a type that
\* reaches the disposal, and an owned one is not discarded; a struct that fails
\* its check returns without storing anything, so nothing may be produced then.
KeepsResult(ret, params) ==
    /\ ret.byref => ret.type \notin {"number", "pointer"}
    /\ ret.type = "struct" =>
          /\ ret.byref
          /\ ret.checked => \A k \in DOMAIN params : ~Produces(params[k], "fails")
    /\ Owning(ret.safety) => ~ret.discard

\* An inout pointer that the call does not give back and registers again when it
\* stores the parameter.
StoredAgain(param) == param.dir = "inout" /\ param.own = "keep" /\ param.safety = "safe"

\* Of a parameter that is disposed of the pointer is verified, and one is given back
\* in a call.  An inout pointer that is not given back stays registered until it is
\* stored: no script can run, and nothing is disposed of, before that.  Where
\* variables have read traces, no variable is read once a pointer that is to stay
\* registered has been verified: a script that frees it meanwhile is not noticed.
KeepsArguments(params) ==
    /\ \A k \in DOMAIN params : params[k].own # "keep" => params[k].safety # "unsafe"
    /\ \A k, l \in DOMAIN params :
          params[k].own # "keep" /\ params[l].own # "keep" => k = l
    /\ \A k \in DOMAIN params :
          params[k].dir = "inout" /\ params[k].own = "keep" => params[k].safety # "counted"
    /\ \A k, l \in DOMAIN params :
          StoredAgain(params[k]) =>
             params[l].own = "keep" /\ (l < k => params[l].dir = "in")
    /\ \A k, l \in DOMAIN params :
          /\ "read" \in Reenter
          /\ params[k].own # "keep" \/ StoredAgain(params[k])
          /\ k < l
          => params[l].dir = "in"

Accountable(p) == KeepsResult(p.ret, p.params) /\ KeepsArguments(p.params)

KeepsAccounts == \A p \in Protos : Accountable(p)

\* Whenever no call is inside C or storing its results, each object is registered
\* exactly as many times as the script owns references to it: none that the script
\* must still release has become unusable, and none that it has released can be
\* passed again.  This is for the declarations of KeepsAccounts, and for scripts that
\* run in traces and handlers but not in callbacks (the order of steps in
\* CffiFunctionCall, Function.c:1596-1751 and 2004-2325).
Balanced ==
    (\A i \in DOMAIN stack : stack[i].phase \in {"preparing", "handler"}) =>
        \A a \in Address \ Static : Registrations(registry[a]) = refs[a]

\* No function is entered that gives back a reference the script does not own, or
\* that another call under way is giving back already: under the same conditions
\* the library is never made to free an object twice (CffiPointerFromObj,
\* Types.c:2608, before the variables of the later parameters are read,
\* Function.c:482).
NeverOverReleased ==
    \A a \in Address \ Static :
        LET Releasing(i) == {k \in DOMAIN stack[i].args :
                                /\ stack[i].phase = "running"
                                /\ stack[i].proto.params[k].own # "keep"
                                /\ stack[i].args[k] = a}
        IN  Cardinality(UNION {{i} \X Releasing(i) : i \in DOMAIN stack})
            <= refs[a]

\* The pointer that a call has just returned is registered, whatever scripts did
\* meanwhile and although it may be one of the pointers the call disposed of
\* (the note on pointer disposal, Function.c:1987-1995).
ResultRegistered ==
    [][ \A a \in Address :
            /\ stack # <<>> /\ stack' # <<>>
            /\ Top.phase = "finished" /\ Top'.phase = "storing"
            /\ Top.proto.ret.type = "pointer" /\ Top.value = a
            /\ Top.proto.ret.safety # "unsafe" /\ ~Top.proto.ret.discard
            => IsRegistered(registry', a) ]_vars

\* dispose: "The parameter is a pointer that is unregistered irrespective of
\* function return status" (doc/concepts.ruff:89).
DisposedWhateverReturned ==
    [][ /\ stack # <<>> /\ Top.phase = "finished" /\ stack' # stack
        /\ Len(stack') <= Len(stack)
        => \A k \in DOMAIN Top.args :
              /\ Top.proto.params[k].own = "dispose"
              /\ Top.args[k] \in Address
              /\ Top.args[k] # Top.value
              => ~IsRegistered(registry', Top.args[k]) ]_vars
=============================================================================

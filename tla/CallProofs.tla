----------------------------- MODULE CallProofs -----------------------------
(***************************************************************************)
(* Proofs about calls, for every set of addresses and prototypes and every *)
(* depth of nesting.                                                       *)
(***************************************************************************)
EXTENDS Call, FiniteSetTheorems, SequenceTheorems, TLAPS

\* The innermost activation and those below it.
LEMMA TopTyped ==
    ASSUME TypeOK, stack # <<>>
    PROVE  /\ Top \in Activations
           /\ Callers \in Seq(Activations)
           /\ Len(stack) \in Nat \ {0}
  BY DEF TypeOK, Top, Callers

\* Pushing an activation makes it the innermost one.
LEMMA PushedOnTop ==
    ASSUME NEW S, NEW s \in Seq(S), NEW x \in S
    PROVE  /\ Append(s, x) \in Seq(S)
           /\ Append(s, x) # <<>>
           /\ Append(s, x)[Len(Append(s, x))] = x
  OBVIOUS

\* The annotations of an activation's prototype.
LEMMA ProtoTyped ==
    ASSUME NEW act \in Activations
    PROVE  /\ act.proto.params \in Seq(Params)
           /\ act.proto.ret.safety \in Safeties
           /\ \A k \in DOMAIN act.proto.params : act.proto.params[k].safety \in Safeties
  <1>1. act.proto.params \in Seq(Params) /\ act.proto.ret \in Returns
    BY CallAssumption DEF Activations
  <1>2. \A k \in DOMAIN act.proto.params : act.proto.params[k] \in Params
    BY <1>1
  <1> QED BY <1>1, <1>2 DEF Params, Returns

\* The parameters of an argument list that satisfy a condition can be counted.
LEMMA CountTyped ==
    ASSUME NEW S, NEW s \in Seq(S), NEW K \in SUBSET DOMAIN s
    PROVE  Cardinality(K) \in Nat
  <1>1. IsFiniteSet(1 .. Len(s))
    BY LenProperties, FS_Interval
  <1>2. IsFiniteSet(K)
    BY <1>1, FS_Subset, LenProperties
  <1> QED BY <1>2, FS_CardinalityType

\* The registry operators keep the registry a table of entries.
LEMMA RegistryTyped ==
    ASSUME NEW reg \in [Address -> Entry], NEW a \in Address
    PROVE  /\ RegisterSafe(reg, NoSuper, a, Void) \in [Address -> Entry]
           /\ RegisterCounted(reg, NoSuper, a, Void) \in [Address -> Entry]
           /\ RegisterPinned(reg, a) \in [Address -> Entry]
           /\ Unregister(reg, a) \in [Address -> Entry]
           /\ Invalidate(reg, a) \in [Address -> Entry]
  <1>1. RegisterSafe(reg, NoSuper, a, Void) \in [Address -> Entry]
    BY DEF RegisterSafe, SafeEntry, MergedTag, Entry, Kinds, Tags
  <1>2. RegisterCounted(reg, NoSuper, a, Void) \in [Address -> Entry]
    BY DEF RegisterCounted, CountedEntry, MergedTag, Entry, Kinds, Tags
  <1>3. RegisterPinned(reg, a) \in [Address -> Entry]
    BY DEF RegisterPinned, PinnedEntry, Entry, Kinds, Tags
  <1>4. Unregister(reg, a) \in [Address -> Entry]
    BY DEF Unregister, ReleasedEntry, Unregistered, Entry, Kinds, Tags
  <1>5. Invalidate(reg, a) \in [Address -> Entry]
    BY DEF Invalidate, Unregistered, Entry, Kinds, Tags
  <1> QED BY <1>1, <1>2, <1>3, <1>4, <1>5

\* So does wrapping a pointer.
LEMMA WrapTyped ==
    ASSUME NEW reg \in [Address -> Entry], NEW safety \in Safeties, NEW v \in Values
    PROVE  PointerToObj(reg, safety, v) \in [Address -> Entry]
  <1>1. CASE v = Null
    BY <1>1 DEF PointerToObj
  <1>2. CASE v \in Address
    <2> DEFINE safe    == RegisterSafe(reg, NoSuper, v, Void)
               counted == RegisterCounted(reg, NoSuper, v, Void)
               pinned  == RegisterPinned(reg, v)
    <2>1. {safe, counted, pinned} \subseteq [Address -> Entry]
      BY <1>2, RegistryTyped
    <2>2. PointerToObj(reg, safety, v) \in {reg, safe, counted, pinned}
      BY DEF PointerToObj, Safeties
    <2> QED BY <2>1, <2>2
  <1> QED BY <1>1, <1>2 DEF Values

\* A wrapped pointer is registered.
LEMMA WrapRegisters ==
    ASSUME NEW reg \in [Address -> Entry], NEW safety \in Safeties, NEW a \in Address,
           safety # "unsafe"
    PROVE  IsRegistered(PointerToObj(reg, safety, a), a)
  <1>1. a # Null
    BY CallAssumption
  <1>2. SafeEntry(NoSuper, reg[a], Void).kind # "none"
    BY DEF SafeEntry
  <1>3. CountedEntry(NoSuper, reg[a], Void).kind # "none"
    BY DEF CountedEntry
  <1>4. PinnedEntry.kind # "none"
    BY DEF PinnedEntry
  <1> QED BY <1>1, <1>2, <1>3, <1>4
          DEF PointerToObj, Safeties, IsRegistered, RegisterSafe, RegisterCounted,
              RegisterPinned

\* Disposing of the arguments of a call does, too.
LEMMA DisposeTyped ==
    ASSUME NEW reg \in [Address -> Entry], NEW act \in Activations
    PROVE  PointerArgsDispose(reg, act) \in [Address -> Entry]
  <1>1. ASSUME NEW e \in Entry, NEW n \in Nat PROVE ReleasedTimes(e, n) \in Entry
    BY <1>1 DEF ReleasedTimes, Unregistered, Entry, Kinds, Tags
  <1>2. ASSUME NEW a \in Address
        PROVE  Cardinality({k \in DOMAIN act.args :
                               /\ Disposes(act.proto.params[k], act.outcome)
                               /\ act.args[k] = a}) \in Nat
    <2>1. act.args \in Seq(Values)
      BY DEF Activations
    <2> QED BY <2>1, CountTyped
  <1> QED BY <1>1, <1>2 DEF PointerArgsDispose

\* What the C function chooses, and what it makes of the references.
Chosen(outcome, value, outs) ==
    /\ Suits(Top.proto.ret.safety, value)
    /\ IF Top.proto.ret.type = "pointer" /\ outcome = "ok"
       THEN value = Null => ~Top.proto.ret.checked
       ELSE value = Null
    /\ \A k \in DOMAIN outs :
          IF Produces(Top.proto.params[k], outcome)
          THEN \/ Untouched(Top, outs, k)
               \/ Suits(Top.proto.params[k].safety, outs[k])
          ELSE outs[k] = Null
    /\ \A a \in Address :
          /\ /\ Handed(Top, value, outs, a) > 0
             /\ a \notin Shared
             => (IF Consumed(Top, outcome, a) > refs[a] THEN 0
                 ELSE refs[a] - Consumed(Top, outcome, a))
                + Handed(Top, value, outs, a) = 1
          /\ (IF Consumed(Top, outcome, a) > refs[a] THEN 0
              ELSE refs[a] - Consumed(Top, outcome, a))
             + Handed(Top, value, outs, a) <= MaxRefs
    /\ refs' = [a \in Address |->
                   (IF Consumed(Top, outcome, a) > refs[a] THEN 0
                    ELSE refs[a] - Consumed(Top, outcome, a))
                   + Handed(Top, value, outs, a)]
    /\ stack' = Append(Callers, [Top EXCEPT !.phase = "finished",
                                            !.outcome = outcome,
                                            !.value = value,
                                            !.outs = outs])

LEMMA CFunctionChoice ==
    ASSUME CFunction
    PROVE  \E outcome \in PossibleOutcomes(Top.proto.ret), value \in Values,
              outs \in [DOMAIN Top.args -> Values] : Chosen(outcome, value, outs)
  BY Zenon DEF CFunction, Chosen

-----------------------------------------------------------------------------

\* A call that has begun, and one whose next argument has passed.
Begun(p) ==
    [proto |-> p, args |-> [k \in DOMAIN p.params |-> Null], phase |-> "preparing",
     outcome |-> "ok", value |-> Null, outs |-> [k \in DOMAIN p.params |-> Null], next |-> 1]

Prepared(act, v) == [act EXCEPT !.args[act.next] = v, !.next = @ + 1]

LEMMA BegunTyped ==
    ASSUME NEW p \in Protos
    PROVE  Begun(p) \in Activations
  <1> DEFINE none == [k \in DOMAIN p.params |-> Null]
  <1>1. p.params \in Seq(Params)
    BY CallAssumption
  <1>2. DOMAIN p.params = 1 .. Len(p.params) /\ Len(p.params) \in Nat
    BY <1>1, LenProperties
  <1>3. none \in Seq(Values) /\ DOMAIN none = DOMAIN p.params
    BY <1>2 DEF Values
  <1> HIDE DEF none
  <1>4. [proto |-> p, args |-> none, phase |-> "preparing", outcome |-> "ok",
         value |-> Null, outs |-> none, next |-> 1] \in Activations
    BY <1>3 DEF Activations, Phases, Outcomes, Values
  <1> QED BY <1>4 DEF Begun, none

LEMMA PreparedTyped ==
    ASSUME NEW act \in Activations, NEW v \in Values, act.next \in DOMAIN act.proto.params
    PROVE  /\ Prepared(act, v) \in Activations
           /\ Prepared(act, v).args = [act.args EXCEPT ![act.next] = v]
           /\ Prepared(act, v).next = act.next + 1
           /\ \A field \in {"proto", "phase", "outcome", "value", "outs"} :
                 Prepared(act, v)[field] = act[field]
  <1> DEFINE new == [act.args EXCEPT ![act.next] = v]
             x   == Prepared(act, v)
  <1>1. act.args \in Seq(Values) /\ act.next \in DOMAIN act.args /\ act.next \in Nat
    BY DEF Activations
  <1>2. new \in Seq(Values) /\ DOMAIN new = DOMAIN act.args
    BY <1>1
  <1>3. x = [act EXCEPT !.args = new, !.next = act.next + 1]
    BY DEF Prepared, Activations
  <1>4. act.next + 1 \in Nat
    BY <1>1
  <1> HIDE DEF new
  <1>5. [act EXCEPT !.args = new, !.next = act.next + 1] \in Activations
    BY <1>2, <1>4 DEF Activations
  <1>6. /\ x.args = new /\ x.next = act.next + 1
        /\ \A field \in {"proto", "phase", "outcome", "value", "outs"} : x[field] = act[field]
    BY <1>3 DEF Activations
  <1> QED BY <1>3, <1>5, <1>6 DEF new

\* The stack of calls, the registry and the references stay well typed
\* (CffiFunctionCall, Function.c:1758-2388).
THEOREM CallTypeCorrect == Spec => []TypeOK
  <1>1. Init => TypeOK
    BY DEF Init, TypeOK, Unregistered, Entry, Kinds, Tags
  <1>2. TypeOK /\ [Next]_vars => TypeOK'
    <2> SUFFICES ASSUME TypeOK, [Next]_vars PROVE TypeOK'
      OBVIOUS
    <2>1. ASSUME NEW p \in Protos, FunctionCall(p) PROVE TypeOK'
      <3>1. stack' = Append(stack, Begun(p)) /\ UNCHANGED <<registry, refs>>
        BY <2>1 DEF FunctionCall, Begun
      <3> QED BY <3>1, BegunTyped, PushedOnTop DEF TypeOK
    <2>9. ASSUME NEW v \in Values, PrepareParam(v) PROVE TypeOK'
      <3>1. Top \in Activations /\ Callers \in Seq(Activations)
        BY <2>9, TopTyped DEF PrepareParam
      <3>2. Prepared(Top, v) \in Activations
        BY <2>9, <3>1, PreparedTyped DEF PrepareParam
      <3>3. stack' \in Seq(Activations)
        BY <2>9, <3>1, <3>2, PushedOnTop DEF PrepareParam, Prepared
      <3> QED BY <2>9, <3>3 DEF PrepareParam, TypeOK
    <2>10. CASE EnterFunction
      <3>1. Top \in Activations /\ Callers \in Seq(Activations)
        BY <2>10, TopTyped DEF EnterFunction
      <3>2. [Top EXCEPT !.phase = "running", !.next = 1] \in Activations
        BY <3>1 DEF Activations, Phases
      <3>3. stack' \in Seq(Activations)
        BY <2>10, <3>1, <3>2, PushedOnTop DEF EnterFunction
      <3> QED BY <2>10, <3>3 DEF EnterFunction, TypeOK
    <2>2. CASE CFunction
      <3>1. /\ Top \in Activations /\ Callers \in Seq(Activations)
            /\ Top.args \in Seq(Values)
        BY <2>2, TopTyped DEF CFunction, Activations
      <3>2. PICK outcome \in PossibleOutcomes(Top.proto.ret), value \in Values,
                 outs \in [DOMAIN Top.args -> Values] : Chosen(outcome, value, outs)
        BY <2>2, CFunctionChoice
      <3>3. outs \in Seq(Values)
        BY <3>1, LenProperties
      <3>4. ASSUME NEW a \in Address
            PROVE  Consumed(Top, outcome, a) \in Nat /\ Handed(Top, value, outs, a) \in Nat
        <4>1. Consumed(Top, outcome, a) \in Nat
          BY <3>1, CountTyped DEF Consumed
        <4>2. Cardinality({k \in DOMAIN outs :
                              /\ Owning(Top.proto.params[k].safety)
                              /\ ~Untouched(Top, outs, k)
                              /\ Top.proto.params[k].dir # "in"
                              /\ outs[k] = a}) \in Nat
          BY <3>3, CountTyped
        <4> QED BY <4>1, <4>2 DEF Handed
      <3>5. refs' \in [Address -> Nat]
        BY <3>2, <3>4 DEF TypeOK, Chosen
      <3>6. outcome \in Outcomes
        BY DEF PossibleOutcomes, Outcomes
      <3>7. [Top EXCEPT !.phase = "finished", !.outcome = outcome, !.value = value,
                        !.outs = outs] \in Activations
        BY <3>1, <3>3, <3>6 DEF Activations, Phases
      <3>8. stack' \in Seq(Activations)
        BY <3>1, <3>2, <3>7, PushedOnTop DEF Chosen
      <3> QED BY <2>2, <3>5, <3>8 DEF TypeOK, CFunction
    <2>3. CASE FunctionReturn
      <3>1. Top \in Activations /\ Callers \in Seq(Activations)
        BY <2>3, TopTyped DEF FunctionReturn
      <3>2. Disposed(Top) \in [Address -> Entry]
        BY <3>1, DisposeTyped DEF Disposed, TypeOK
      <3>3. Top.value \in Values
        BY <3>1 DEF Activations
      <3>4. registry' \in [Address -> Entry]
        BY <2>3, <3>1, <3>2, <3>3, WrapTyped, ProtoTyped DEF FunctionReturn, Wrapped
      <3>5. [Top EXCEPT !.phase = "storing"] \in Activations
        BY <3>1 DEF Activations, Phases
      <3>6. stack' \in Seq(Activations)
        BY <2>3, <3>1, <3>5, PushedOnTop DEF FunctionReturn, AfterReturn
      <3> QED BY <2>3, <3>4, <3>6 DEF FunctionReturn, TypeOK
    <2>4. CASE StoreParam
      <3>1. Top \in Activations /\ Callers \in Seq(Activations)
        BY <2>4, TopTyped DEF StoreParam
      <3>2. [Top EXCEPT !.next = @ + 1] \in Activations
        <4>1. Top.next + 1 \in Nat
          BY <3>1 DEF Activations
        <4> QED BY <3>1, <4>1 DEF Activations
      <3>3. stack' \in Seq(Activations)
        BY <2>4, <3>1, <3>2, PushedOnTop DEF StoreParam
      <3>4. Top.outs[Top.next] \in Values
        <4>1. Top.outs \in Seq(Values) /\ Top.next \in DOMAIN Top.outs
          BY <2>4, <3>1 DEF StoreParam, Activations
        <4> QED BY <4>1
      <3>5. Top.proto.params[Top.next].safety \in Safeties
        BY <2>4, <3>1, ProtoTyped DEF StoreParam
      <3>6. registry' \in [Address -> Entry]
        BY <2>4, <3>4, <3>5, WrapTyped DEF StoreParam, TypeOK
      <3> QED BY <2>4, <3>3, <3>6 DEF StoreParam, TypeOK
    <2>5. CASE ReportResult
      <3>1. Top \in Activations /\ Callers \in Seq(Activations)
        BY <2>5, TopTyped DEF ReportResult
      <3>2. [Top EXCEPT !.phase = "handler"] \in Activations
        BY <3>1 DEF Activations, Phases
      <3>3. stack' \in Seq(Activations)
        BY <2>5, <3>1, <3>2, PushedOnTop DEF ReportResult
      <3> QED BY <2>5, <3>3 DEF ReportResult, TypeOK
    <2>6. CASE HandlerReturn
      <3>1. Callers \in Seq(Activations)
        BY <2>6, TopTyped DEF HandlerReturn
      <3> QED BY <2>6, <3>1 DEF HandlerReturn, TypeOK
    <2>7. ASSUME NEW a \in Address, EnvPointer(a) PROVE TypeOK'
      <3>1. registry' \in [Address -> Entry]
        BY <2>7, RegistryTyped DEF EnvPointer, TypeOK
      <3> QED BY <2>7, <3>1 DEF EnvPointer, TypeOK
    <2>8. CASE UNCHANGED vars
      BY <2>8 DEF vars, TypeOK
    <2> QED BY <2>1, <2>2, <2>3, <2>4, <2>5, <2>6, <2>7, <2>8, <2>9, <2>10 DEF Next
  <1> QED BY <1>1, <1>2, PTL DEF Spec

\* The pointer a call returns is registered when the call has returned, even if
\* the call disposed of the same pointer (Function.c:2117-2124).
THEOREM ResultCorrect == Spec => ResultRegistered
  <1> DEFINE Step(a) == /\ stack # <<>> /\ stack' # <<>>
                        /\ Top.phase = "finished" /\ Top'.phase = "storing"
                        /\ Top.proto.ret.type = "pointer" /\ Top.value = a
                        /\ Top.proto.ret.safety # "unsafe" /\ ~Top.proto.ret.discard
                        => IsRegistered(registry', a)
  <1>1. TypeOK /\ [Next]_vars => [\A a \in Address : Step(a)]_vars
    <2> SUFFICES ASSUME TypeOK, [Next]_vars, NEW a \in Address,
                        stack # <<>>, stack' # <<>>,
                        Top.phase = "finished", Top'.phase = "storing",
                        Top.proto.ret.type = "pointer", Top.value = a,
                        Top.proto.ret.safety # "unsafe", ~Top.proto.ret.discard
                 PROVE  IsRegistered(registry', a)
      OBVIOUS
    <2>1. Top \in Activations /\ Callers \in Seq(Activations)
      BY TopTyped
    <2>2. CASE FunctionReturn
      <3>1. Disposed(Top) \in [Address -> Entry]
        BY <2>1, DisposeTyped DEF Disposed, TypeOK
      <3>2. Top.proto.ret.safety \in Safeties
        BY <2>1, ProtoTyped
      <3>3. registry' = PointerToObj(Disposed(Top), Top.proto.ret.safety, a)
        BY <2>2 DEF FunctionReturn, Wrapped
      <3> QED BY <3>1, <3>2, <3>3, WrapRegisters
    <2>3. ASSUME NEW p \in Protos, FunctionCall(p) PROVE FALSE
      <3>1. stack' = Append(stack, Begun(p))
        BY <2>3 DEF FunctionCall, Begun
      <3>2. stack'[Len(stack')] = Begun(p)
        BY <3>1, BegunTyped, PushedOnTop DEF TypeOK
      <3> QED BY <3>2 DEF Top, Begun
    <2>4. ASSUME UNCHANGED stack PROVE FALSE
      BY <2>4 DEF Top
    <2> QED BY <2>2, <2>3, <2>4
            DEF Next, vars, PrepareParam, EnterFunction, CFunction, StoreParam,
                ReportResult, HandlerReturn, EnvPointer
  <1>2. Spec => [][\A a \in Address : Step(a)]_vars
    BY <1>1, CallTypeCorrect, PTL DEF Spec
  <1> QED BY <1>2 DEF ResultRegistered

-----------------------------------------------------------------------------
(* Registrations and references agree.                                     *)
(*                                                                         *)
(* What holds between two calls is a special case of an account that every *)
(* state of every call keeps: the registrations of an object, and the      *)
(* registrations that calls under way are still to make of it, add up to   *)
(* the references that the script owns.                                    *)

\* The addresses that references are counted for, and those of objects that have
\* a single owner.
Owned == Address \ Static

Plain == Address \ (Shared \cup Static)

\* The registrations of its result and of its outputs that a call has still to
\* make at an address: 0 stands for the result.
OwedResult(act, a) ==
    IF act.phase = "finished" /\ Owning(act.proto.ret.safety) /\ act.value = a
    THEN {0} ELSE {}

OwedOutputs(act, a) ==
    {k \in DOMAIN act.outs :
        /\ act.phase \in {"finished", "storing"} /\ k >= act.next
        /\ Owning(act.proto.params[k].safety)
        /\ ~Untouched(act, act.outs, k)
        /\ act.proto.params[k].dir # "in"
        /\ act.outs[k] = a}

Owed(act, a) == OwedResult(act, a) \cup OwedOutputs(act, a)

Debts(s, a) == {d \in (DOMAIN s) \X Nat : d[2] \in Owed(s[d[1]], a)}

\* The registry as it will be when a call that has finished has disposed of its
\* arguments.
Settled == IF stack # <<>> /\ Top.phase = "finished" THEN Disposed(Top) ELSE registry

\* The library's kinds of objects are registered as their annotations say.
KindOK(e, a) ==
    IF a \in Shared THEN e.kind = "none" \/ (e.kind = "counted" /\ e.count > 0)
                    ELSE e.kind \in {"none", "safe"}

KindsOK(reg) == \A a \in Owned : KindOK(reg[a], a)

\* What an activation keeps of the annotations, whatever the registry.
Sound(act) ==
    /\ act.next >= 1
    /\ act.phase \in {"running", "finished"} => act.next = 1
    /\ \A k \in DOMAIN act.args :
          /\ act.phase = "preparing" /\ k >= act.next => act.args[k] = Null
          /\ act.proto.params[k].dir = "out" => act.args[k] = Null
          /\ act.proto.params[k].dir = "inout" =>
                Suits(act.proto.params[k].safety, act.args[k])
    /\ act.phase \in {"finished", "storing"} =>
          /\ act.outcome \in PossibleOutcomes(act.proto.ret)
          /\ Suits(act.proto.ret.safety, act.value)
          /\ act.value # Null => act.proto.ret.type = "pointer"
          /\ \A k \in DOMAIN act.outs :
                IF Produces(act.proto.params[k], act.outcome)
                THEN \/ Untouched(act, act.outs, k)
                     \/ Suits(act.proto.params[k].safety, act.outs[k])
                ELSE act.outs[k] = Null

SoundActivations == {act \in Activations : Sound(act)}

\* A call is under way while a script that it has started runs.
Waiting(act) ==
    \/ act.phase = "handler"
    \/ VariableSet(act)
    \/ VariableRead(act) /\ "read" \in Reenter

WaitingActivations == {act \in Activations : Waiting(act)}

\* The parameters that are stored again after the present step.
StillStored(act, k) ==
    /\ act.phase # "handler"
    /\ act.phase = "preparing" \/ k >= act.next
    /\ StoredAgain(act.proto.params[k])

StillDisposed(act, k) ==
    act.phase \in {"preparing", "running"} /\ act.proto.params[k].own # "keep"

\* The arguments of the innermost call that are still to be disposed of, and those
\* that are to be stored again, are registered.
Verified(act) ==
    \A k \in DOMAIN act.args :
        /\ StillDisposed(act, k) \/ StillStored(act, k)
        /\ act.args[k] \in Address
        => IsRegistered(registry, act.args[k])

Account(a) ==
    /\ IsFiniteSet(Debts(stack, a))
    /\ Registrations(Settled[a]) + Cardinality(Debts(stack, a)) = refs[a]

CallInv ==
    /\ TypeOK
    /\ KindsOK(registry)
    /\ \A a \in Plain : refs[a] <= 1
    /\ stack \in Seq(SoundActivations)
    /\ Callers \in Seq(WaitingActivations)
    /\ stack # <<>> => Verified(Top)
    /\ \A a \in Owned : Account(a)

-----------------------------------------------------------------------------
(* The stack.                                                              *)

\* A sequence without its last element.
LEMMA Popped ==
    ASSUME NEW S, NEW s \in Seq(S)
    PROVE  /\ SubSeq(s, 1, Len(s) - 1) \in Seq(S)
           /\ s # <<>> => /\ s[Len(s)] \in S
                          /\ s = Append(SubSeq(s, 1, Len(s) - 1), s[Len(s)])
           /\ \A x \in S : SubSeq(Append(s, x), 1, Len(Append(s, x)) - 1) = s
  <1>1. SubSeq(s, 1, Len(s) - 1) \in Seq(S)
    BY SubSeqProperties, LenProperties, ElementOfSeq
  <1>2. ASSUME s # <<>>
        PROVE  s[Len(s)] \in S /\ s = Append(SubSeq(s, 1, Len(s) - 1), s[Len(s)])
    BY <1>2
  <1>3. ASSUME NEW x \in S PROVE SubSeq(Append(s, x), 1, Len(Append(s, x)) - 1) = s
    OBVIOUS
  <1> QED BY <1>1, <1>2, <1>3

\* The fields of an activation.
LEMMA ActivationTyped ==
    ASSUME NEW act \in Activations
    PROVE  /\ act.proto \in Protos /\ act.proto.params \in Seq(Params)
           /\ act.proto.ret \in Returns
           /\ \A k \in DOMAIN act.args : act.proto.params[k] \in Params
           /\ act.args \in Seq(Values) /\ act.outs \in Seq(Values)
           /\ DOMAIN act.args = DOMAIN act.proto.params
           /\ DOMAIN act.outs = DOMAIN act.args
           /\ DOMAIN act.args \subseteq Nat \ {0}
           /\ \A k \in DOMAIN act.args : act.args[k] \in Values /\ act.outs[k] \in Values
           /\ act.outcome \in Outcomes /\ act.value \in Values /\ act.next \in Nat
           /\ act.phase \in Phases
  <1>1. /\ act.proto \in Protos
        /\ act.args \in Seq(Values) /\ act.outs \in Seq(Values)
        /\ DOMAIN act.args = DOMAIN act.proto.params /\ DOMAIN act.outs = DOMAIN act.args
        /\ act.outcome \in Outcomes /\ act.value \in Values /\ act.next \in Nat
        /\ act.phase \in Phases
    BY DEF Activations
  <1>2. act.proto.params \in Seq(Params) /\ act.proto.ret \in Returns
    BY <1>1, CallAssumption
  <1>3. \A k \in DOMAIN act.args : act.proto.params[k] \in Params
    BY <1>1, <1>2
  <1>4. DOMAIN act.args \subseteq Nat \ {0}
    BY <1>1, LenProperties
  <1>5. \A k \in DOMAIN act.args : act.args[k] \in Values /\ act.outs[k] \in Values
    BY <1>1
  <1> QED BY <1>1, <1>2, <1>3, <1>4, <1>5

\* What an activation still owes is a finite set of parameters.
LEMMA OwedFinite ==
    ASSUME NEW act \in Activations, NEW a
    PROVE  /\ Owed(act, a) \subseteq Nat
           /\ IsFiniteSet(OwedOutputs(act, a)) /\ IsFiniteSet(Owed(act, a))
           /\ Cardinality(OwedOutputs(act, a)) \in Nat
           /\ Cardinality(Owed(act, a)) =
                 Cardinality(OwedOutputs(act, a)) + (IF OwedResult(act, a) = {} THEN 0 ELSE 1)
  <1> DEFINE O == OwedOutputs(act, a)
  <1>1. O \subseteq Nat \ {0} /\ O \subseteq DOMAIN act.outs
    BY ActivationTyped DEF OwedOutputs
  <1>2. IsFiniteSet(DOMAIN act.outs)
    <2>1. act.outs \in Seq(Values)
      BY ActivationTyped
    <2>2. DOMAIN act.outs = 1 .. Len(act.outs) /\ Len(act.outs) \in Nat
      BY <2>1, LenProperties
    <2>3. IsFiniteSet(1 .. Len(act.outs))
      BY <2>2, FS_Interval
    <2> QED BY <2>2, <2>3
  <1>3. IsFiniteSet(O) /\ Cardinality(O) \in Nat
    BY <1>1, <1>2, FS_Subset, FS_CardinalityType
  <1>4. OwedResult(act, a) = {} \/ OwedResult(act, a) = {0}
    BY DEF OwedResult
  <1>5. Owed(act, a) = O \/ Owed(act, a) = O \cup {0}
    BY <1>4 DEF Owed
  <1>6. IsFiniteSet(O \cup {0}) /\ Cardinality(O \cup {0}) = Cardinality(O) + 1
    BY <1>1, <1>3, FS_AddElement
  <1>7. CASE OwedResult(act, a) = {}
    <2>1. Owed(act, a) = O
      BY <1>7 DEF Owed
    <2> QED BY <2>1, <1>7, <1>1, <1>3
  <1>8. CASE OwedResult(act, a) = {0}
    <2>1. Owed(act, a) = O \cup {0}
      BY <1>8 DEF Owed
    <2> QED BY <2>1, <1>8, <1>1, <1>3, <1>6
  <1> QED BY <1>4, <1>7, <1>8

\* The debts of a stack are those of the callers and of the innermost call.
LEMMA DebtsAppend ==
    ASSUME NEW s \in Seq(Activations), NEW x \in Activations, NEW a
    PROVE  /\ IsFiniteSet(Debts(Append(s, x), a)) <=> IsFiniteSet(Debts(s, a))
           /\ IsFiniteSet(Debts(s, a)) =>
                 /\ Cardinality(Debts(s, a)) \in Nat
                 /\ Cardinality(Owed(x, a)) \in Nat
                 /\ Cardinality(Debts(Append(s, x), a)) =
                       Cardinality(Debts(s, a)) + Cardinality(Owed(x, a))
  <1> DEFINE n == Len(s) + 1
             D == Debts(s, a)
             N == {n} \X Owed(x, a)
  <1>1. /\ Owed(x, a) \subseteq Nat /\ IsFiniteSet(Owed(x, a))
        /\ Cardinality(Owed(x, a)) \in Nat
    BY OwedFinite, FS_CardinalityType
  <1>2. /\ DOMAIN Append(s, x) = DOMAIN s \cup {n} /\ n \notin DOMAIN s
        /\ Append(s, x)[n] = x /\ \A i \in DOMAIN s : Append(s, x)[i] = s[i]
    OBVIOUS
  <1>3. Debts(Append(s, x), a) = D \cup N
    <2>1. ASSUME NEW d \in Debts(Append(s, x), a) PROVE d \in D \cup N
      <3>1. PICK i \in DOMAIN s \cup {n}, k \in Nat : d = <<i, k>> /\ k \in Owed(Append(s, x)[i], a)
        BY <2>1, <1>2 DEF Debts
      <3> QED BY <3>1, <1>2 DEF Debts
    <2>2. ASSUME NEW d \in D PROVE d \in Debts(Append(s, x), a)
      BY <2>2, <1>2 DEF Debts
    <2>3. ASSUME NEW d \in N PROVE d \in Debts(Append(s, x), a)
      <3>1. PICK k \in Owed(x, a) : d = <<n, k>>
        BY <2>3
      <3> QED BY <3>1, <1>1, <1>2 DEF Debts
    <2> QED BY <2>1, <2>2, <2>3
  <1>4. D \cap N = {}
    <2>1. \A d \in D : d[1] \in DOMAIN s
      BY DEF Debts
    <2>2. \A d \in N : d[1] = n
      OBVIOUS
    <2> QED BY <2>1, <2>2, <1>2
  <1>5. IsFiniteSet({n}) /\ Cardinality({n}) = 1
    BY FS_Singleton
  <1>6. IsFiniteSet(N) /\ Cardinality(N) = Cardinality(Owed(x, a))
    BY <1>1, <1>5, FS_Product
  <1> HIDE DEF D, N
  <1>7. IsFiniteSet(D \cup N) => IsFiniteSet(D)
    BY FS_Subset
  <1>8. ASSUME IsFiniteSet(D)
        PROVE  /\ IsFiniteSet(D \cup N) /\ Cardinality(D) \in Nat
               /\ Cardinality(D \cup N) = Cardinality(D) + Cardinality(N)
    <2>1. Cardinality(D) \in Nat /\ Cardinality(N) \in Nat
      BY <1>8, <1>6, FS_CardinalityType
    <2>2. /\ IsFiniteSet(D \cup N)
          /\ Cardinality(D \cup N) = Cardinality(D) + Cardinality(N) - Cardinality(D \cap N)
      BY <1>8, <1>6, FS_Union
    <2>3. Cardinality(D \cap N) = 0
      BY <1>4, FS_EmptySet
    <2> QED BY <2>1, <2>2, <2>3
  <1>9. Cardinality(N) \in Nat
    BY <1>6, FS_CardinalityType
  <1> QED BY <1>1, <1>3, <1>6, <1>7, <1>8, <1>9 DEF D

-----------------------------------------------------------------------------
(* The registry.                                                           *)

\* Wrapping a pointer that suits its object adds a registration when it hands out
\* a reference, and never removes one.
LEMMA WrapCounts ==
    ASSUME NEW reg \in [Address -> Entry], KindsOK(reg),
           NEW safety \in Safeties, NEW v \in Values, Suits(safety, v)
    PROVE  /\ KindsOK(PointerToObj(reg, safety, v))
           /\ \A a \in Address : IsRegistered(reg, a)
                                 => IsRegistered(PointerToObj(reg, safety, v), a)
           /\ \A a \in Owned :
                 Registrations(PointerToObj(reg, safety, v)[a]) =
                    IF /\ Owning(safety) /\ v = a
                       /\ a \in Shared \/ Registrations(reg[a]) = 0
                    THEN Registrations(reg[a]) + 1
                    ELSE Registrations(reg[a])
  <1> DEFINE new == PointerToObj(reg, safety, v)
  <1>1. CASE v = Null \/ safety = "unsafe"
    <2>1. new = reg
      BY <1>1 DEF PointerToObj
    <2>2. \A a \in Owned : ~(Owning(safety) /\ v = a)
      BY <1>1, CallAssumption DEF Owned, Owning
    <2> QED BY <2>1, <2>2
  <1>2. CASE safety = "safe" /\ v \in Address
    <2>1. v \in Owned /\ v \notin Shared
      BY <1>2 DEF Suits, Owned
    <2>2. new = [reg EXCEPT ![v] = SafeEntry(NoSuper, reg[v], Void)]
      BY <1>2, CallAssumption DEF PointerToObj, RegisterSafe
    <2>3. reg[v].kind \in {"none", "safe"}
      BY <2>1 DEF KindsOK, KindOK
    <2>4. SafeEntry(NoSuper, reg[v], Void).kind = "safe"
      BY <2>3 DEF SafeEntry
    <2>5. \A a \in Address : new[a] = IF a = v THEN SafeEntry(NoSuper, reg[v], Void) ELSE reg[a]
      BY <2>2, <1>2
    <2> HIDE DEF new
    <2>6. KindsOK(new)
      BY <2>4, <2>5, <2>1 DEF KindsOK, KindOK, Owned
    <2>7. \A a \in Address : IsRegistered(reg, a) => IsRegistered(new, a)
      BY <2>4, <2>5 DEF IsRegistered
    <2>8. Registrations(new[v]) = 1 /\ Registrations(reg[v]) \in {0, 1}
      BY <2>3, <2>4, <2>5, <1>2 DEF Registrations
    <2>9. \A a \in Owned \ {v} : new[a] = reg[a]
      BY <2>5 DEF Owned
    <2> QED BY <2>1, <2>6, <2>7, <2>8, <2>9, <1>2 DEF new, Owning
  <1>3. CASE safety = "counted" /\ v \in Address
    <2>1. v \in Shared /\ v \in Owned
      BY <1>3, CallAssumption DEF Suits, Owned
    <2>2. new = [reg EXCEPT ![v] = CountedEntry(NoSuper, reg[v], Void)]
      BY <1>3, CallAssumption DEF PointerToObj, RegisterCounted
    <2>3. /\ reg[v].kind = "none" \/ (reg[v].kind = "counted" /\ reg[v].count > 0)
          /\ reg[v].count \in Nat
      BY <2>1, <1>3 DEF KindsOK, KindOK, Entry
    <2>4. /\ CountedEntry(NoSuper, reg[v], Void).kind = "counted"
          /\ CountedEntry(NoSuper, reg[v], Void).count > 0
          /\ CountedEntry(NoSuper, reg[v], Void).count = Registrations(reg[v]) + 1
      BY <2>3 DEF CountedEntry, Registrations
    <2>5. \A a \in Address : new[a] = IF a = v THEN CountedEntry(NoSuper, reg[v], Void) ELSE reg[a]
      BY <2>2, <1>3
    <2> HIDE DEF new
    <2>6. KindsOK(new)
      BY <2>4, <2>5, <2>1 DEF KindsOK, KindOK, Owned
    <2>7. \A a \in Address : IsRegistered(reg, a) => IsRegistered(new, a)
      BY <2>4, <2>5 DEF IsRegistered
    <2>8. Registrations(new[v]) = Registrations(reg[v]) + 1
      BY <2>4, <2>5, <1>3 DEF Registrations
    <2>9. \A a \in Owned \ {v} : new[a] = reg[a]
      BY <2>5 DEF Owned
    <2> QED BY <2>1, <2>6, <2>7, <2>8, <2>9, <1>3 DEF new, Owning
  <1>4. CASE safety = "pinned" /\ v \in Address
    <2>1. v \in Static /\ v \notin Owned
      BY <1>4, CallAssumption DEF Suits, Owned
    <2>2. new = [reg EXCEPT ![v] = PinnedEntry]
      BY <1>4, CallAssumption DEF PointerToObj, RegisterPinned
    <2>3. \A a \in Address : new[a] = IF a = v THEN PinnedEntry ELSE reg[a]
      BY <2>2, <1>4
    <2>4. PinnedEntry.kind = "pinned"
      BY DEF PinnedEntry
    <2> HIDE DEF new
    <2>5. \A a \in Owned : new[a] = reg[a]
      BY <2>1, <2>3 DEF Owned
    <2>6. KindsOK(new)
      BY <2>5 DEF KindsOK
    <2>7. \A a \in Address : IsRegistered(reg, a) => IsRegistered(new, a)
      BY <2>3, <2>4 DEF IsRegistered
    <2> QED BY <2>5, <2>6, <2>7, <1>4 DEF new, Owning
  <1> QED BY <1>1, <1>2, <1>3, <1>4 DEF Values, Safeties

\* Releasing an entry n times takes n registrations from it, as far as there are
\* that many.
LEMMA ReleaseCounts ==
    ASSUME NEW e \in Entry, NEW a \in Owned, KindOK(e, a), NEW n \in Nat
    PROVE  /\ KindOK(ReleasedTimes(e, n), a)
           /\ Registrations(e) \in Nat
           /\ Registrations(e) = 0 <=> e.kind = "none"
           /\ Registrations(ReleasedTimes(e, n)) =
                 IF n > Registrations(e) THEN 0 ELSE Registrations(e) - n
  <1>1. e.count \in Nat
    BY DEF Entry
  <1>2. CASE e.kind = "none"
    BY <1>2 DEF KindOK, ReleasedTimes, Unregistered, Registrations
  <1>3. CASE e.kind = "safe"
    BY <1>3 DEF KindOK, ReleasedTimes, Unregistered, Registrations
  <1>4. CASE e.kind = "counted" /\ e.count > 0 /\ a \in Shared
    <2>1. CASE e.count > n /\ n > 0
      <3>1. ReleasedTimes(e, n) = [e EXCEPT !.count = @ - n]
        BY <2>1, <1>4 DEF ReleasedTimes
      <3>2. ReleasedTimes(e, n).kind = "counted" /\ ReleasedTimes(e, n).count = e.count - n
        BY <3>1, <1>4 DEF Entry
      <3> QED BY <3>2, <2>1, <1>4, <1>1 DEF KindOK, Registrations
    <2>2. CASE n = 0
      BY <2>2, <1>4, <1>1 DEF KindOK, ReleasedTimes, Registrations
    <2>3. CASE e.count <= n
      <3>1. ReleasedTimes(e, n) = Unregistered
        BY <2>3, <1>4, <1>1 DEF ReleasedTimes
      <3> QED BY <3>1, <2>3, <1>4, <1>1 DEF KindOK, Unregistered, Registrations
    <2> QED BY <2>1, <2>2, <2>3, <1>1
  <1> QED BY <1>2, <1>3, <1>4 DEF KindOK

\* The calls for which arguments are disposed of release each as often as it was
\* passed, and what is not passed to be disposed of stays as it is.
LEMMA DisposeCounts ==
    ASSUME NEW reg \in [Address -> Entry], KindsOK(reg), NEW act \in Activations
    PROVE  /\ KindsOK(PointerArgsDispose(reg, act))
           /\ \A a \in Address :
                 (\A k \in DOMAIN act.args : act.proto.params[k].own = "keep")
                 => PointerArgsDispose(reg, act)[a] = reg[a]
           /\ \A a \in Owned :
                 /\ Consumed(act, act.outcome, a) \in Nat
                 /\ Registrations(PointerArgsDispose(reg, act)[a]) =
                       IF Consumed(act, act.outcome, a) > Registrations(reg[a]) THEN 0
                       ELSE Registrations(reg[a]) - Consumed(act, act.outcome, a)
  <1> DEFINE new == PointerArgsDispose(reg, act)
             n(a) == Consumed(act, act.outcome, a)
  <1>1. \A a \in Address : n(a) \in Nat /\ new[a] = ReleasedTimes(reg[a], n(a))
    <2>1. act.args \in Seq(Values)
      BY ActivationTyped
    <2>2. \A a : n(a) \in Nat
      BY <2>1, CountTyped DEF Consumed
    <2> QED BY <2>2 DEF PointerArgsDispose, Consumed, Consumes, Disposes
  <1>2. ASSUME \A k \in DOMAIN act.args : act.proto.params[k].own = "keep", NEW a \in Address
        PROVE  new[a] = reg[a]
    <2>1. {k \in DOMAIN act.args :
              Consumes(act.proto.params[k], act.outcome) /\ act.args[k] = a} = {}
      BY <1>2 DEF Consumes
    <2>2. n(a) = 0
      BY <2>1, FS_EmptySet DEF Consumed
    <2>3. reg[a] \in Entry /\ ReleasedTimes(reg[a], 0) = reg[a]
      <3>1. reg[a] \in Entry /\ reg[a].count - 0 = reg[a].count
        BY DEF Entry
      <3>2. [reg[a] EXCEPT !.count = @ - 0] = reg[a]
        BY <3>1 DEF Entry
      <3> QED BY <3>1, <3>2 DEF ReleasedTimes
    <2> QED BY <1>1, <2>2, <2>3
  <1>3. Owned \subseteq Address
    BY DEF Owned
  <1> HIDE DEF new, n
  <1>4. \A a \in Owned : /\ KindOK(new[a], a)
                         /\ Registrations(new[a]) = IF n(a) > Registrations(reg[a]) THEN 0
                                                    ELSE Registrations(reg[a]) - n(a)
    BY <1>1, <1>3, ReleaseCounts DEF KindsOK
  <1> QED BY <1>1, <1>2, <1>3, <1>4 DEF KindsOK, new, n

-----------------------------------------------------------------------------
(* What steps do to the stack.                                             *)

\* The innermost call and those that wait for it.
LEMMA Stacked ==
    ASSUME CallInv, stack # <<>>
    PROVE  /\ stack = Append(Callers, Top)
           /\ Top \in Activations /\ Top \in SoundActivations
           /\ Callers \in Seq(Activations) /\ Callers \in Seq(SoundActivations)
           /\ Callers \in Seq(WaitingActivations)
  <1>1. stack \in Seq(SoundActivations) /\ Callers \in Seq(WaitingActivations)
    BY DEF CallInv
  <1>2. /\ Callers \in Seq(SoundActivations) /\ Top \in SoundActivations
        /\ stack = Append(Callers, Top)
    BY <1>1, Popped DEF Callers, Top
  <1>3. SoundActivations \subseteq Activations
    BY DEF SoundActivations
  <1> QED BY <1>1, <1>2, <1>3, SeqMonotonic

\* A script makes a call.
LEMMA Pushed ==
    ASSUME CallInv, NEW x \in SoundActivations, stack' = Append(stack, x),
           stack # <<>> => Waiting(Top)
    PROVE  /\ stack' \in Seq(SoundActivations) /\ Callers' \in Seq(WaitingActivations)
           /\ stack' # <<>> /\ Top' = x
  <1>1. stack \in Seq(SoundActivations)
    BY DEF CallInv
  <1>2. stack' \in Seq(SoundActivations) /\ stack' # <<>> /\ stack'[Len(stack')] = x
    BY <1>1, PushedOnTop
  <1>3. Callers' = stack
    BY <1>1, Popped DEF Callers
  <1>4. stack \in Seq(WaitingActivations)
    <2>1. CASE stack = <<>>
      BY <2>1
    <2>2. CASE stack # <<>>
      <3>1. Top \in WaitingActivations
        BY <2>2, Stacked DEF WaitingActivations
      <3> QED BY <2>2, <3>1, Stacked, PushedOnTop
    <2> QED BY <2>1, <2>2
  <1> QED BY <1>2, <1>3, <1>4 DEF Top

\* The innermost call goes on.
LEMMA Replaced ==
    ASSUME CallInv, stack # <<>>, NEW x \in SoundActivations, stack' = Append(Callers, x)
    PROVE  /\ stack' \in Seq(SoundActivations) /\ Callers' \in Seq(WaitingActivations)
           /\ stack' # <<>> /\ Top' = x
  <1>1. Callers \in Seq(SoundActivations) /\ Callers \in Seq(WaitingActivations)
    BY Stacked
  <1> DEFINE C == Callers
  <1> HIDE DEF C
  <1>2. C \in Seq(SoundActivations) /\ stack' = Append(C, x)
    BY <1>1 DEF C
  <1>3. stack' \in Seq(SoundActivations) /\ stack' # <<>> /\ stack'[Len(stack')] = x
    BY <1>2, PushedOnTop
  <1>4. SubSeq(stack', 1, Len(stack') - 1) = C
    BY <1>2, Popped
  <1> QED BY <1>1, <1>3, <1>4 DEF Top, Callers, C

\* The innermost call ends.
LEMMA Returned ==
    ASSUME CallInv, stack # <<>>, stack' = Callers
    PROVE  /\ stack' \in Seq(SoundActivations) /\ Callers' \in Seq(WaitingActivations)
           /\ stack' # <<>> => Top' \in SoundActivations /\ Waiting(Top')
  <1>1. stack' \in Seq(SoundActivations) /\ stack' \in Seq(WaitingActivations)
    BY Stacked
  <1>2. SubSeq(stack', 1, Len(stack') - 1) \in Seq(WaitingActivations)
    BY <1>1, Popped
  <1>3. stack' # <<>> => /\ stack'[Len(stack')] \in SoundActivations
                         /\ stack'[Len(stack')] \in WaitingActivations
    BY <1>1, Popped
  <1> QED BY <1>1, <1>2, <1>3 DEF Top, Callers, WaitingActivations

\* A waiting call has no arguments that must be registered: none has been verified
\* when a read trace runs, and another trace runs when the parameter before the next
\* one has been set.
LEMMA WaitingOwesNothing ==
    ASSUME KeepsAccounts, NEW act \in SoundActivations, Waiting(act)
    PROVE  /\ act.phase \notin {"running", "finished"}
           /\ \A k \in DOMAIN act.args :
                 StillDisposed(act, k) \/ StillStored(act, k) => act.args[k] \notin Address
  <1>1. act \in Activations /\ Sound(act)
    BY DEF SoundActivations
  <1>2. /\ KeepsArguments(act.proto.params) /\ act.next \in Nat
        /\ DOMAIN act.args = DOMAIN act.proto.params /\ DOMAIN act.args \subseteq Nat
    BY <1>1, ActivationTyped DEF KeepsAccounts, Accountable
  <1>3. act.phase \notin {"running", "finished"}
    BY DEF Waiting, VariableSet, VariableRead
  <1>4. ASSUME NEW k \in DOMAIN act.args, StillDisposed(act, k) \/ StillStored(act, k)
        PROVE  act.args[k] \notin Address
    <2>1. CASE act.phase = "preparing"
      <3>1. /\ act.next \in DOMAIN act.proto.params /\ "read" \in Reenter
            /\ act.proto.params[act.next].dir # "in"
        BY <2>1 DEF Waiting, VariableSet, VariableRead
      <3>2. act.proto.params[k].own # "keep" \/ StoredAgain(act.proto.params[k])
        BY <1>4 DEF StillDisposed, StillStored
      <3>3. ~(k < act.next)
        BY <1>2, <3>1, <3>2 DEF KeepsArguments
      <3>4. k >= act.next
        BY <1>2, <3>3
      <3>5. act.args[k] = Null
        BY <1>1, <2>1, <3>4 DEF Sound
      <3> QED BY <3>5, CallAssumption
    <2>2. CASE act.phase # "preparing"
      <3>1. /\ act.phase = "storing" /\ act.next - 1 \in DOMAIN act.proto.params
            /\ act.proto.params[act.next - 1].dir # "in"
            /\ k >= act.next /\ StoredAgain(act.proto.params[k])
        BY <2>2, <1>3, <1>4
           DEF Waiting, VariableSet, VariableRead, Produces, StillDisposed, StillStored
      <3>2. act.next - 1 < k
        BY <1>2, <3>1
      <3> QED BY <1>2, <3>1, <3>2 DEF KeepsArguments
    <2> QED BY <2>1, <2>2
  <1> QED BY <1>3, <1>4

LEMMA ReturnedVerified ==
    ASSUME CallInv, KeepsAccounts, stack # <<>>, stack' = Callers
    PROVE  /\ stack' # <<>> => Verified(Top)'
           /\ Settled' = registry'
  <1>1. CASE stack' = <<>>
    BY <1>1 DEF Settled
  <1>2. CASE stack' # <<>>
    <2>1. Top' \in SoundActivations /\ Waiting(Top')
      BY <1>2, Returned
    <2>2. /\ Top'.phase \notin {"running", "finished"}
          /\ \A k \in DOMAIN Top'.args :
                StillDisposed(Top', k) \/ StillStored(Top', k) => Top'.args[k] \notin Address
      BY <2>1, WaitingOwesNothing
    <2> QED BY <2>2 DEF Verified, Settled, StillDisposed, StillStored
  <1> QED BY <1>1, <1>2

-----------------------------------------------------------------------------
(* The account.                                                            *)

\* The account with the innermost call apart.
LEMMA AccountSplit ==
    ASSUME CallInv, stack # <<>>, NEW a \in Owned
    PROVE  /\ IsFiniteSet(Debts(Callers, a)) /\ Cardinality(Debts(Callers, a)) \in Nat
           /\ Cardinality(Owed(Top, a)) \in Nat
           /\ Registrations(Settled[a]) + (Cardinality(Debts(Callers, a))
                 + Cardinality(Owed(Top, a))) = refs[a]
  <1>1. /\ IsFiniteSet(Debts(stack, a))
        /\ Registrations(Settled[a]) + Cardinality(Debts(stack, a)) = refs[a]
    BY DEF CallInv, Account
  <1>2. Callers \in Seq(Activations) /\ Top \in Activations /\ stack = Append(Callers, Top)
    BY Stacked
  <1>3. IsFiniteSet(Debts(Callers, a))
    BY <1>1, <1>2, DebtsAppend
  <1>4. /\ Cardinality(Debts(Callers, a)) \in Nat /\ Cardinality(Owed(Top, a)) \in Nat
        /\ Cardinality(Debts(stack, a)) =
              Cardinality(Debts(Callers, a)) + Cardinality(Owed(Top, a))
    BY <1>2, <1>3, DebtsAppend
  <1> QED BY <1>1, <1>3, <1>4

\* The account when the innermost call goes on.
LEMMA AccountReplaced ==
    ASSUME CallInv, stack # <<>>, NEW a \in Owned,
           NEW x \in Activations, stack' = Append(Callers, x),
           Registrations(Settled'[a]) + (Cardinality(Debts(Callers, a))
              + Cardinality(Owed(x, a))) = refs'[a]
    PROVE  Account(a)'
  <1>1. IsFiniteSet(Debts(Callers, a)) /\ Callers \in Seq(Activations)
    BY AccountSplit, Stacked
  <1>2. /\ IsFiniteSet(Debts(stack', a))
        /\ Cardinality(Debts(stack', a)) =
              Cardinality(Debts(Callers, a)) + Cardinality(Owed(x, a))
    BY <1>1, DebtsAppend
  <1> QED BY <1>2 DEF Account

\* The account when the innermost call ends.
LEMMA AccountReturned ==
    ASSUME CallInv, stack # <<>>, NEW a \in Owned, stack' = Callers,
           Registrations(Settled'[a]) + Cardinality(Debts(Callers, a)) = refs'[a]
    PROVE  Account(a)'
  <1>1. IsFiniteSet(Debts(Callers, a))
    BY AccountSplit
  <1> QED BY <1>1 DEF Account

\* An object with a single owner is not registered while a registration of it is
\* still to be made.
LEMMA OwedUnregistered ==
    ASSUME CallInv, stack # <<>>, NEW a \in Owned, Owed(Top, a) # {},
           Registrations(Settled[a]) \in Nat
    PROVE  a \in Shared \/ Registrations(Settled[a]) = 0
  <1>1. Top \in Activations
    BY Stacked
  <1>2. IsFiniteSet(Owed(Top, a))
    BY <1>1, OwedFinite
  <1>3. Cardinality(Owed(Top, a)) # 0
    BY <1>2, FS_EmptySet
  <1>4. a \notin Shared => refs[a] <= 1
    BY DEF CallInv, Plain, Owned
  <1>5. a \notin Shared => Registrations(Settled[a]) = 0
    BY <1>3, <1>4, AccountSplit
  <1> QED BY <1>5

-----------------------------------------------------------------------------
(* The steps keep the account.                                             *)

\* Owing nothing: until the C function has done its work, in a handler, and once
\* all is stored.
LEMMA NothingOwed ==
    ASSUME NEW act \in SoundActivations, NEW a,
           \/ act.phase \in {"preparing", "running", "handler"}
           \/ act.phase = "storing" /\ act.next \notin DOMAIN act.proto.params
    PROVE  Owed(act, a) = {} /\ Cardinality(Owed(act, a)) = 0
  <1>1. act \in Activations /\ act.next >= 1
    BY DEF SoundActivations, Sound
  <1>2. act.next \in Nat /\ DOMAIN act.outs = DOMAIN act.proto.params
    BY <1>1, ActivationTyped
  <1>3. DOMAIN act.outs = 1 .. Len(act.outs) /\ Len(act.outs) \in Nat
    <2>1. act.outs \in Seq(Values)
      BY <1>1, ActivationTyped
    <2> QED BY <2>1, LenProperties
  <1>4. OwedResult(act, a) = {}
    BY DEF OwedResult
  <1>5. OwedOutputs(act, a) = {}
    BY <1>1, <1>2, <1>3 DEF OwedOutputs
  <1> QED BY <1>4, <1>5, FS_EmptySet DEF Owed

LEMMA CallKeepsInv ==
    ASSUME CallInv, TypeOK', ScriptsOnlyCall, NEW p \in Protos, FunctionCall(p)
    PROVE  CallInv'
  <1>1. PICK x : x = Begun(p)
    OBVIOUS
  <1>2. /\ stack' = Append(stack, x) /\ UNCHANGED <<registry, refs>>
        /\ ScriptRuns
    BY <1>1 DEF FunctionCall, Begun
  <1>3. stack # <<>> => Waiting(Top)
    BY <1>2 DEF ScriptRuns, ScriptsOnlyCall, Waiting
  <1>4. /\ x \in Activations /\ x.phase = "preparing" /\ x.next = 1
        /\ \A k \in DOMAIN x.args : x.args[k] = Null
    BY <1>1, BegunTyped DEF Begun
  <1>5. x \in SoundActivations
    BY <1>4, CallAssumption DEF SoundActivations, Sound, Suits, Values
  <1>6. /\ stack' \in Seq(SoundActivations) /\ Callers' \in Seq(WaitingActivations)
        /\ stack' # <<>> /\ Top' = x
    BY <1>2, <1>3, <1>5, Pushed
  <1>7. Verified(Top)'
    BY <1>4, <1>6, CallAssumption DEF Verified
  <1>8. Settled = registry /\ Settled' = registry'
    <2>1. stack # <<>> => Top.phase # "finished"
      BY <1>3 DEF Waiting, VariableSet, VariableRead
    <2> QED BY <2>1, <1>4, <1>6 DEF Settled
  <1>9. ASSUME NEW a \in Owned PROVE Account(a)'
    <2>1. /\ IsFiniteSet(Debts(stack, a))
          /\ Registrations(Settled[a]) + Cardinality(Debts(stack, a)) = refs[a]
      BY DEF CallInv, Account
    <2>2. Cardinality(Owed(x, a)) = 0
      BY <1>4, <1>5, NothingOwed
    <2>3. stack \in Seq(Activations)
      BY DEF CallInv, TypeOK
    <2>4. /\ IsFiniteSet(Debts(stack', a)) /\ Cardinality(Debts(stack, a)) \in Nat
          /\ Cardinality(Debts(stack', a)) = Cardinality(Debts(stack, a)) + 0
      BY <1>2, <1>4, <2>1, <2>2, <2>3, DebtsAppend
    <2> QED BY <1>2, <1>8, <2>1, <2>4 DEF Account
  <1> QED BY <1>2, <1>6, <1>7, <1>9 DEF CallInv

\* A step of the innermost call before the C function is entered leaves the account
\* as it is.
LEMMA PreparingKeepsInv ==
    ASSUME CallInv, TypeOK', stack # <<>>, Top.phase = "preparing",
           NEW x \in SoundActivations, x.phase \in {"preparing", "running"},
           stack' = Append(Callers, x), UNCHANGED <<registry, refs>>,
           Verified(x)
    PROVE  CallInv'
  <1>1. /\ stack' \in Seq(SoundActivations) /\ Callers' \in Seq(WaitingActivations)
        /\ stack' # <<>> /\ Top' = x
    BY Replaced
  <1>2. Verified(Top)'
    BY <1>1 DEF Verified, StillDisposed, StillStored
  <1>3. Settled = registry /\ Settled' = registry'
    BY <1>1 DEF Settled
  <1>4. ASSUME NEW a \in Owned PROVE Account(a)'
    <2>1. Cardinality(Owed(Top, a)) = 0
      BY Stacked, NothingOwed
    <2>2. Cardinality(Owed(x, a)) = 0 /\ x \in Activations
      BY NothingOwed DEF SoundActivations
    <2>3. Registrations(Settled'[a]) + (Cardinality(Debts(Callers, a))
             + Cardinality(Owed(x, a))) = refs'[a]
      BY <1>3, <2>1, <2>2, AccountSplit
    <2> QED BY <2>2, <2>3, AccountReplaced
  <1> QED BY <1>1, <1>2, <1>4 DEF CallInv

\* An argument that passes is registered, as it must be if it is disposed of or
\* stored again; the others stay as they are.
LEMMA PrepareKeepsInv ==
    ASSUME CallInv, TypeOK', KeepsAccounts, NEW v \in Values, PrepareParam(v),
           stack' # Callers
    PROVE  CallInv'
  <1>1. PICK act : act = Top
    OBVIOUS
  <1>2. PICK j : j = act.next
    OBVIOUS
  <1>3. PICK param : param = act.proto.params[j]
    OBVIOUS
  <1>4. PICK x : x = Prepared(act, v)
    OBVIOUS
  <1>5. /\ stack # <<>> /\ act.phase = "preparing" /\ j \in DOMAIN act.proto.params
        /\ param.dir = "inout" => Suits(param.safety, v)
        /\ param.dir = "out" => v = Null
        /\ ArgPrepare(param, v) /\ stack' = Append(Callers, x)
        /\ UNCHANGED <<registry, refs>>
    BY <1>1, <1>2, <1>3, <1>4 DEF PrepareParam, Prepared
  <1>6. act \in Activations /\ Sound(act) /\ Verified(act)
    BY <1>1, <1>5, Stacked DEF SoundActivations, CallInv
  <1>7. /\ KeepsArguments(act.proto.params) /\ DOMAIN act.args = DOMAIN act.proto.params
        /\ j \in Nat \ {0} /\ DOMAIN act.args \subseteq Nat
    BY <1>2, <1>5, <1>6, ActivationTyped DEF KeepsAccounts, Accountable
  <1>8. /\ x \in Activations /\ x.next = j + 1 /\ x.args = [act.args EXCEPT ![j] = v]
        /\ x.proto = act.proto /\ x.phase = "preparing"
    <2>1. /\ x \in Activations /\ x.next = j + 1 /\ x.args = [act.args EXCEPT ![j] = v]
          /\ \A field \in {"proto", "phase", "outcome", "value", "outs"} : x[field] = act[field]
      BY <1>2, <1>4, <1>5, <1>6, PreparedTyped
    <2>2. x["proto"] = act["proto"] /\ x["phase"] = act["phase"]
      BY <2>1
    <2> QED BY <1>5, <2>1, <2>2
  <1>9. /\ DOMAIN x.args = DOMAIN act.args /\ x.args[j] = v
        /\ \A k \in DOMAIN act.args \ {j} : x.args[k] = act.args[k]
    BY <1>5, <1>7, <1>8
  <1>10. x \in SoundActivations
    <2>1. ASSUME NEW k \in DOMAIN x.args
          PROVE  /\ k >= x.next => x.args[k] = Null
                 /\ x.proto.params[k].dir = "out" => x.args[k] = Null
                 /\ x.proto.params[k].dir = "inout" =>
                       Suits(x.proto.params[k].safety, x.args[k])
      <3>1. CASE k = j
        BY <3>1, <1>3, <1>5, <1>7, <1>8, <1>9
      <3>2. CASE k # j
        <4>1. k >= j + 1 => k >= j
          BY <1>7, <1>9
        <4> QED BY <3>2, <4>1, <1>2, <1>5, <1>6, <1>8, <1>9 DEF Sound
      <3> QED BY <3>1, <3>2
    <2>2. x.next >= 1
      BY <1>7, <1>8
    <2> QED BY <2>1, <2>2, <1>8 DEF SoundActivations, Sound
  <1>11. Verified(x)
    <2> SUFFICES ASSUME NEW k \in DOMAIN x.args, x.args[k] \in Address,
                        x.proto.params[k].own # "keep" \/ StoredAgain(x.proto.params[k])
                 PROVE  IsRegistered(registry, x.args[k])
      BY DEF Verified, StillDisposed, StillStored
    <2>1. CASE k = j
      <3>1. param.safety # "unsafe"
        BY <2>1, <1>3, <1>5, <1>7, <1>8 DEF KeepsArguments, StoredAgain
      <3>2. v # Null /\ param.dir # "out"
        BY <2>1, <1>5, <1>9, CallAssumption
      <3> QED BY <2>1, <3>1, <3>2, <1>5, <1>9 DEF ArgPrepare, PointerFromObj, PointerValid
    <2>2. CASE k # j
      BY <2>2, <1>5, <1>6, <1>8, <1>9 DEF Verified, StillDisposed, StillStored
    <2> QED BY <2>1, <2>2
  <1> QED BY <1>1, <1>5, <1>8, <1>10, <1>11, PreparingKeepsInv

LEMMA EnterKeepsInv ==
    ASSUME CallInv, TypeOK', EnterFunction
    PROVE  CallInv'
  <1>1. PICK act : act = Top
    OBVIOUS
  <1>2. PICK x : x = [act EXCEPT !.phase = "running", !.next = 1]
    OBVIOUS
  <1>3. /\ stack # <<>> /\ act.phase = "preparing" /\ stack' = Append(Callers, x)
        /\ UNCHANGED <<registry, refs>>
    BY <1>1, <1>2 DEF EnterFunction
  <1>4. act \in Activations /\ Sound(act) /\ Verified(act)
    BY <1>1, <1>3, Stacked DEF SoundActivations, CallInv
  <1>5. /\ x \in Activations /\ x.proto = act.proto /\ x.args = act.args
        /\ x.phase = "running" /\ x.next = 1
    BY <1>2, <1>4 DEF Activations, Phases
  <1>6. x \in SoundActivations
    BY <1>4, <1>5 DEF SoundActivations, Sound
  <1>7. Verified(x)
    BY <1>3, <1>4, <1>5 DEF Verified, StillDisposed, StillStored
  <1> QED BY <1>1, <1>3, <1>5, <1>6, <1>7, PreparingKeepsInv

\* What the C function hands out is what its activation then owes.
LEMMA OwedIsHanded ==
    ASSUME NEW act \in Activations, act.phase = "finished", act.next = 1, NEW a,
           NEW old, old.proto = act.proto, old.args = act.args
    PROVE  Cardinality(Owed(act, a)) = Handed(old, act.value, act.outs, a)
  <1> DEFINE H == {k \in DOMAIN act.outs : /\ Owning(old.proto.params[k].safety)
                                           /\ ~Untouched(old, act.outs, k)
                                           /\ old.proto.params[k].dir # "in"
                                           /\ act.outs[k] = a}
  <1>1. DOMAIN act.outs \subseteq Nat \ {0}
    BY ActivationTyped
  <1>2. \A k : Untouched(old, act.outs, k) <=> Untouched(act, act.outs, k)
    BY DEF Untouched
  <1>3. OwedOutputs(act, a) = H
    BY <1>1, <1>2 DEF OwedOutputs
  <1>4. (OwedResult(act, a) = {}) <=> ~(Owning(old.proto.ret.safety) /\ act.value = a)
    BY DEF OwedResult
  <1> HIDE DEF H
  <1>5. Cardinality(Owed(act, a)) = Cardinality(H) + (IF OwedResult(act, a) = {} THEN 0 ELSE 1)
        /\ Cardinality(H) \in Nat
    BY <1>3, OwedFinite
  <1>6. Handed(old, act.value, act.outs, a) =
           (IF Owning(old.proto.ret.safety) /\ act.value = a THEN 1 ELSE 0) + Cardinality(H)
    BY DEF Handed, H
  <1> QED BY <1>4, <1>5, <1>6

\* At most one argument is given back, and it is registered.
LEMMA OneConsumed ==
    ASSUME CallInv, KeepsAccounts, stack # <<>>, Top.phase = "running", NEW outcome,
           NEW a \in Owned
    PROVE  /\ Consumed(Top, outcome, a) \in {0, 1}
           /\ Consumed(Top, outcome, a) = 1 => Registrations(registry[a]) > 0
  <1> DEFINE K == {k \in DOMAIN Top.args :
                      Consumes(Top.proto.params[k], outcome) /\ Top.args[k] = a}
  <1>1. Top \in Activations /\ a \in Address
    BY Stacked DEF Owned
  <1>2. KeepsArguments(Top.proto.params) /\ DOMAIN Top.args = DOMAIN Top.proto.params
    BY <1>1, ActivationTyped DEF KeepsAccounts, Accountable
  <1>3. \A k \in K : k \in DOMAIN Top.proto.params /\ Top.proto.params[k].own # "keep"
    BY <1>2 DEF Consumes
  <1>4. \A k, l \in K : k = l
    BY <1>2, <1>3 DEF KeepsArguments
  <1>5. CASE K = {}
    BY <1>5, FS_EmptySet DEF Consumed
  <1>6. CASE K # {}
    <2>1. PICK k \in K : TRUE
      BY <1>6
    <2>2. K = {k}
      BY <2>1, <1>4
    <2>3. Consumed(Top, outcome, a) = 1
      BY <2>2, FS_Singleton DEF Consumed
    <2>4. IsRegistered(registry, a)
      BY <2>1, <1>1, <1>3 DEF CallInv, Verified, StillDisposed
    <2>5. registry[a] \in Entry /\ KindOK(registry[a], a)
      BY <1>1 DEF CallInv, TypeOK, KindsOK
    <2>6. Registrations(registry[a]) \in Nat /\ Registrations(registry[a]) # 0
      BY <2>4, <2>5, ReleaseCounts DEF IsRegistered
    <2> QED BY <2>3, <2>6
  <1> QED BY <1>5, <1>6

LEMMA CFunctionKeepsInv ==
    ASSUME CallInv, TypeOK', KeepsAccounts, CFunction
    PROVE  CallInv'
  <1>1. stack # <<>> /\ Top.phase = "running" /\ registry' = registry
    BY DEF CFunction
  <1>2. PICK outcome \in PossibleOutcomes(Top.proto.ret), value \in Values,
             outs \in [DOMAIN Top.args -> Values] : Chosen(outcome, value, outs)
    BY CFunctionChoice
  <1>13. PICK x : x = [Top EXCEPT !.phase = "finished", !.outcome = outcome,
                               !.value = value, !.outs = outs]
    OBVIOUS
  <1>3. Top \in Activations /\ Top \in SoundActivations /\ Sound(Top) /\ Top.next = 1
    BY <1>1, Stacked DEF SoundActivations, Sound
  <1>4. /\ x.proto = Top.proto /\ x.args = Top.args /\ x.phase = "finished"
        /\ x.outcome = outcome /\ x.value = value /\ x.outs = outs /\ x.next = 1
    BY <1>3, <1>13 DEF Activations
  <1>5. x \in Activations
    <2>1. stack' \in Seq(Activations) /\ Callers \in Seq(Activations)
      BY <1>1, Stacked DEF TypeOK
    <2>2. stack'[Len(Callers) + 1] = x /\ Len(Callers) + 1 \in DOMAIN stack'
      BY <1>2, <1>13, <2>1 DEF Chosen
    <2> QED BY <2>1, <2>2
  <1>6. x \in SoundActivations
    <2>1. \A k : Untouched(x, outs, k) <=> Untouched(Top, outs, k)
      BY <1>4 DEF Untouched
    <2>2. \A k \in DOMAIN x.args :
             /\ x.proto.params[k].dir = "out" => x.args[k] = Null
             /\ x.proto.params[k].dir = "inout" => Suits(x.proto.params[k].safety, x.args[k])
      BY <1>3, <1>4 DEF Sound
    <2>3. \A k \in DOMAIN x.outs :
             IF Produces(x.proto.params[k], x.outcome)
             THEN Untouched(x, x.outs, k) \/ Suits(x.proto.params[k].safety, x.outs[k])
             ELSE x.outs[k] = Null
      BY <1>2, <1>4, <2>1 DEF Chosen
    <2>4. /\ x.outcome \in PossibleOutcomes(x.proto.ret)
          /\ Suits(x.proto.ret.safety, x.value)
          /\ x.value # Null => x.proto.ret.type = "pointer"
      BY <1>2, <1>4 DEF Chosen
    <2>5. Sound(x)
      BY <1>4, <2>2, <2>3, <2>4 DEF Sound
    <2> QED BY <1>5, <2>5 DEF SoundActivations
  <1>7. stack' = Append(Callers, x)
    BY <1>2, <1>13 DEF Chosen
  <1>8. /\ stack' \in Seq(SoundActivations) /\ Callers' \in Seq(WaitingActivations)
        /\ stack' # <<>> /\ Top' = x
    BY <1>1, <1>6, <1>7, Replaced
  <1>9. Verified(Top)'
    BY <1>1, <1>3, <1>4, <1>8 DEF Verified, CallInv, StillDisposed, StillStored
  <1>10. Settled = registry /\ Settled' = PointerArgsDispose(registry, x)
    <2>1. KeepsResult(x.proto.ret, x.proto.params)
      BY <1>5, ActivationTyped DEF KeepsAccounts, Accountable
    <2>2. ReachesDispose(x)
      BY <1>2, <1>4, <2>1 DEF ReachesDispose, KeepsResult, PossibleOutcomes
    <2>3. Settled' = Disposed(x)'
      BY <1>4, <1>8 DEF Settled
    <2> QED BY <1>1, <2>2, <2>3 DEF Settled, Disposed
  <1>11. ASSUME NEW a \in Owned PROVE Account(a)'
    <2> DEFINE R == Registrations(registry[a])
               C == Consumed(Top, outcome, a)
               H == Handed(Top, value, outs, a)
               D == Cardinality(Debts(Callers, a))
    <2>1. /\ registry \in [Address -> Entry] /\ KindsOK(registry) /\ a \in Address
          /\ refs[a] \in Nat
      BY DEF CallInv, TypeOK, Owned
    <2>2. R \in Nat
      BY <2>1, ReleaseCounts DEF KindsOK
    <2>3. Consumed(x, x.outcome, a) = C
      BY <1>4 DEF Consumed
    <2>4. Registrations(Settled'[a]) = IF C > R THEN 0 ELSE R - C
      <3>1. Registrations(PointerArgsDispose(registry, x)[a]) =
               IF Consumed(x, x.outcome, a) > Registrations(registry[a]) THEN 0
               ELSE Registrations(registry[a]) - Consumed(x, x.outcome, a)
        BY <1>5, <2>1, DisposeCounts
      <3> QED BY <1>10, <2>3, <3>1
    <2>5. C \in {0, 1} /\ (C = 1 => R > 0)
      BY <1>1, OneConsumed
    <2>6. Cardinality(Owed(x, a)) = H
      BY <1>4, <1>5, OwedIsHanded
    <2>7. H \in Nat
      BY <1>5, <2>6, OwedFinite, FS_CardinalityType
    <2>8. D \in Nat /\ R + D = refs[a]
      <3>1. Cardinality(Owed(Top, a)) = 0
        BY <1>1, <1>3, NothingOwed
      <3> QED BY <1>1, <1>10, <3>1, <2>2, AccountSplit
    <2>9. refs'[a] = (IF C > refs[a] THEN 0 ELSE refs[a] - C) + H
      BY <1>2, <2>1 DEF Chosen
    <2> HIDE DEF R, C, H, D
    <2>10. Registrations(Settled'[a]) + (D + H) = refs'[a]
      BY <2>2, <2>4, <2>5, <2>7, <2>8, <2>9
    <2> QED BY <1>1, <1>5, <1>7, <2>6, <2>10, AccountReplaced DEF D
  <1>12. ASSUME NEW a \in Plain PROVE refs'[a] <= 1
    <2> DEFINE C == Consumed(Top, outcome, a)
               H == Handed(Top, value, outs, a)
    <2>1. a \in Address /\ a \in Owned /\ a \notin Shared /\ refs[a] \in Nat /\ refs[a] <= 1
      BY DEF CallInv, TypeOK, Plain, Owned
    <2>2. C \in Nat
      BY <1>1, <2>1, OneConsumed
    <2>3. Cardinality(Owed(x, a)) = H
      BY <1>4, <1>5, OwedIsHanded
    <2>4. H \in Nat
      BY <1>5, <2>3, OwedFinite, FS_CardinalityType
    <2>5. /\ refs'[a] = (IF C > refs[a] THEN 0 ELSE refs[a] - C) + H
          /\ H > 0 => (IF C > refs[a] THEN 0 ELSE refs[a] - C) + H = 1
      BY <1>2, <2>1 DEF Chosen
    <2> HIDE DEF C, H
    <2> QED BY <2>1, <2>2, <2>4, <2>5
  <1> QED BY <1>1, <1>8, <1>9, <1>11, <1>12 DEF CallInv

\* A registration still owed when the innermost call has finished is made by the
\* step that wraps its pointer.
LEMMA ReturnKeepsInv ==
    ASSUME CallInv, TypeOK', KeepsAccounts, FunctionReturn
    PROVE  CallInv'
  <1>1. /\ stack # <<>> /\ Top.phase = "finished" /\ refs' = refs
        /\ registry' = Wrapped(Disposed(Top), Top) /\ stack' = AfterReturn(Top)
    BY DEF FunctionReturn
  <1>2. PICK act : act = Top
    OBVIOUS
  <1>3. /\ act \in Activations /\ act \in SoundActivations /\ Sound(act) /\ act.next = 1
        /\ act.phase = "finished" /\ act.outcome \in PossibleOutcomes(act.proto.ret)
    BY <1>1, <1>2, Stacked DEF SoundActivations, Sound
  <1>4. /\ KeepsResult(act.proto.ret, act.proto.params) /\ KeepsArguments(act.proto.params)
        /\ DOMAIN act.args = DOMAIN act.proto.params /\ DOMAIN act.outs = DOMAIN act.args
        /\ act.proto.ret \in Returns
    BY <1>3, ActivationTyped DEF KeepsAccounts, Accountable
  <1>5. act.outcome # "null"
    BY <1>3, <1>4 DEF KeepsResult, PossibleOutcomes
  <1>6. ReachesDispose(act)
    BY <1>4, <1>5 DEF ReachesDispose, KeepsResult
  <1> DEFINE S == PointerArgsDispose(registry, act)
  <1>7. Settled = S /\ registry' = Wrapped(S, act)
    BY <1>1, <1>2, <1>6 DEF Settled, Disposed
  <1>8. registry \in [Address -> Entry] /\ KindsOK(registry)
    BY DEF CallInv, TypeOK
  <1>9. S \in [Address -> Entry] /\ KindsOK(S)
    BY <1>3, <1>8, DisposeTyped, DisposeCounts
  <1> HIDE DEF S
  <1>10. /\ KindsOK(registry')
         /\ \A a \in Address : IsRegistered(S, a) => IsRegistered(registry', a)
         /\ \A a \in Owned : Registrations(registry'[a]) =
               Registrations(S[a]) + (IF OwedResult(act, a) = {} THEN 0 ELSE 1)
    <2>1. \A a \in Owned : Registrations(S[a]) \in Nat
      BY <1>9, ReleaseCounts DEF KindsOK, Owned
    <2>2. \A a \in Owned : OwedResult(act, a) = {} <=> ~(Owning(act.proto.ret.safety) /\ act.value = a)
      BY <1>3 DEF OwedResult
    <2>3. CASE act.proto.ret.type = "pointer" /\ ~act.proto.ret.discard
      <3>1. registry' = PointerToObj(S, act.proto.ret.safety, act.value)
        BY <1>7, <2>3 DEF Wrapped
      <3>2. /\ act.proto.ret.safety \in Safeties /\ act.value \in Values
            /\ Suits(act.proto.ret.safety, act.value)
        BY <1>3, <1>4, ActivationTyped DEF Returns, Sound
      <3>3. \A a \in Owned : OwedResult(act, a) # {} => a \in Shared \/ Registrations(S[a]) = 0
        <4> SUFFICES ASSUME NEW a \in Owned, OwedResult(act, a) # {}
                     PROVE  a \in Shared \/ Registrations(S[a]) = 0
          OBVIOUS
        <4>1. Owed(Top, a) # {}
          BY <1>2 DEF Owed
        <4> QED BY <1>1, <1>7, <2>1, <4>1, OwedUnregistered
      <3>4. /\ KindsOK(registry')
            /\ \A a \in Address : IsRegistered(S, a) => IsRegistered(registry', a)
            /\ \A a \in Owned :
                 Registrations(registry'[a]) =
                    IF /\ Owning(act.proto.ret.safety) /\ act.value = a
                       /\ a \in Shared \/ Registrations(S[a]) = 0
                    THEN Registrations(S[a]) + 1
                    ELSE Registrations(S[a])
        BY <1>9, <3>1, <3>2, WrapCounts
      <3> QED BY <2>1, <2>2, <3>3, <3>4
    <2>4. CASE ~(act.proto.ret.type = "pointer" /\ ~act.proto.ret.discard)
      <3>1. registry' = S
        BY <1>7, <2>4 DEF Wrapped
      <3>2. act.value = Null \/ ~Owning(act.proto.ret.safety)
        BY <1>3, <1>4, <2>4 DEF Sound, KeepsResult, Returns
      <3>3. \A a \in Owned : OwedResult(act, a) = {}
        BY <2>2, <3>2, CallAssumption DEF Owned
      <3> QED BY <1>9, <2>1, <3>1, <3>3
    <2> QED BY <2>3, <2>4
  <1>11. ASSUME NEW a \in Owned
         PROVE  /\ Registrations(S[a]) \in Nat
                /\ Cardinality(Debts(Callers, a)) \in Nat
                /\ Cardinality(OwedOutputs(act, a)) \in Nat
                /\ Registrations(registry'[a]) + (Cardinality(Debts(Callers, a))
                      + Cardinality(OwedOutputs(act, a))) = refs'[a]
    <2>1. Registrations(S[a]) \in Nat
      BY <1>9, ReleaseCounts DEF KindsOK, Owned
    <2>2. /\ Cardinality(Debts(Callers, a)) \in Nat
          /\ Registrations(S[a]) + (Cardinality(Debts(Callers, a))
                + Cardinality(Owed(act, a))) = refs[a]
      BY <1>1, <1>2, <1>7, AccountSplit
    <2>3. /\ Cardinality(OwedOutputs(act, a)) \in Nat
          /\ Cardinality(Owed(act, a)) = Cardinality(OwedOutputs(act, a))
                + (IF OwedResult(act, a) = {} THEN 0 ELSE 1)
      BY <1>3, OwedFinite
    <2>4. Registrations(registry'[a]) =
               Registrations(S[a]) + (IF OwedResult(act, a) = {} THEN 0 ELSE 1)
      BY <1>10
    <2> QED BY <1>1, <2>1, <2>2, <2>3, <2>4
  <1>12. CASE NotWrapped(act)
    <2>1. stack' = Callers
      BY <1>1, <1>2, <1>12 DEF AfterReturn
    <2>2. act.proto.ret.type = "struct" /\ act.outcome = "fails" /\ act.proto.ret.checked
      BY <1>3, <1>5, <1>12 DEF NotWrapped, PossibleOutcomes
    <2>3. \A k \in DOMAIN act.outs : act.outs[k] = Null
      BY <1>3, <1>4, <2>2 DEF Sound, KeepsResult
    <2>4. ASSUME NEW a \in Owned PROVE Account(a)'
      <3>1. OwedOutputs(act, a) = {}
        BY <2>3, CallAssumption DEF OwedOutputs, Owned
      <3>2. Cardinality(OwedOutputs(act, a)) = 0
        BY <3>1, FS_EmptySet
      <3>3. Registrations(Settled'[a]) + Cardinality(Debts(Callers, a)) = refs'[a]
        BY <1>1, <1>11, <2>1, <3>2, ReturnedVerified
      <3> QED BY <1>1, <2>1, <3>3, AccountReturned
    <2>5. /\ stack' \in Seq(SoundActivations) /\ Callers' \in Seq(WaitingActivations)
          /\ stack' # <<>> => Verified(Top)'
      BY <1>1, <2>1, Returned, ReturnedVerified
    <2> QED BY <1>1, <1>10, <2>4, <2>5 DEF CallInv
  <1>13. CASE ~NotWrapped(act)
    <2>1. PICK x : x = [act EXCEPT !.phase = "storing"]
      OBVIOUS
    <2>2. stack' = Append(Callers, x)
      BY <1>1, <1>2, <1>13, <2>1 DEF AfterReturn
    <2>3. /\ x \in Activations /\ x.proto = act.proto /\ x.args = act.args
          /\ x.phase = "storing" /\ x.outcome = act.outcome /\ x.value = act.value
          /\ x.outs = act.outs /\ x.next = act.next
      BY <1>3, <2>1 DEF Activations, Phases
    <2>4. \A k : Untouched(x, x.outs, k) <=> Untouched(act, act.outs, k)
      BY <2>3 DEF Untouched
    <2>5. x \in SoundActivations
      <3>1. Sound(x)
        BY <1>3, <2>3, <2>4 DEF Sound
      <3> QED BY <2>3, <3>1 DEF SoundActivations
    <2>6. /\ stack' \in Seq(SoundActivations) /\ Callers' \in Seq(WaitingActivations)
          /\ stack' # <<>> /\ Top' = x
      BY <1>1, <2>2, <2>5, Replaced
    <2>7. Settled' = registry'
      BY <2>3, <2>6 DEF Settled
    <2>8. ASSUME NEW a \in Owned PROVE Account(a)'
      <3>1. OwedOutputs(x, a) = OwedOutputs(act, a)
        BY <1>3, <2>3, <2>4 DEF OwedOutputs
      <3>2. OwedResult(x, a) = {}
        BY <2>3 DEF OwedResult
      <3>3. Cardinality(Owed(x, a)) = Cardinality(OwedOutputs(act, a))
        BY <3>1, <3>2 DEF Owed
      <3>4. Registrations(Settled'[a]) + (Cardinality(Debts(Callers, a))
               + Cardinality(Owed(x, a))) = refs'[a]
        BY <1>11, <2>7, <3>3
      <3> QED BY <1>1, <2>2, <2>3, <3>4, AccountReplaced
    <2>9. Verified(Top)'
      <3>1. ASSUME NEW k \in DOMAIN x.args, k >= x.next, StoredAgain(x.proto.params[k]),
                   x.args[k] \in Address
            PROVE  IsRegistered(registry', x.args[k])
        <4>1. \A l \in DOMAIN act.args : act.proto.params[l].own = "keep"
          BY <1>4, <2>3, <3>1 DEF KeepsArguments
        <4>2. S[x.args[k]] = registry[x.args[k]]
          BY <1>3, <1>8, <3>1, <4>1, DisposeCounts DEF S
        <4>3. IsRegistered(registry, x.args[k])
          BY <1>1, <1>2, <2>3, <3>1 DEF CallInv, Verified, StillStored
        <4>4. IsRegistered(S, x.args[k])
          BY <4>2, <4>3 DEF IsRegistered
        <4> QED BY <1>10, <3>1, <4>4
      <3> QED BY <2>3, <2>6, <3>1 DEF Verified, StillDisposed, StillStored
    <2> QED BY <1>1, <1>10, <2>6, <2>8, <2>9 DEF CallInv
  <1> QED BY <1>12, <1>13

\* Storing an output makes the registration owed for it; one that was not touched
\* is registered already.
LEMMA StoreKeepsInv ==
    ASSUME CallInv, TypeOK', KeepsAccounts, StoreParam
    PROVE  CallInv'
  <1>1. PICK act : act = Top
    OBVIOUS
  <1>2. PICK k : k = act.next
    OBVIOUS
  <1>3. PICK param : param = act.proto.params[k]
    OBVIOUS
  <1>4. PICK v : v = act.outs[k]
    OBVIOUS
  <1>5. /\ stack # <<>> /\ act.phase = "storing" /\ k \in DOMAIN act.proto.params /\ refs' = refs
        /\ registry' = IF Produces(param, act.outcome)
                       THEN PointerToObj(registry, param.safety, v) ELSE registry
        /\ stack' = Append(Callers, [act EXCEPT !.next = @ + 1])
    BY <1>1, <1>2, <1>3, <1>4 DEF StoreParam
  <1>6. act \in Activations /\ act \in SoundActivations /\ Sound(act)
    BY <1>1, <1>5, Stacked DEF SoundActivations
  <1>7. /\ KeepsArguments(act.proto.params) /\ param \in Params /\ v \in Values
        /\ DOMAIN act.args = DOMAIN act.proto.params /\ DOMAIN act.outs = DOMAIN act.args
        /\ k \in Nat \ {0}
    BY <1>2, <1>3, <1>4, <1>5, <1>6, ActivationTyped DEF KeepsAccounts, Accountable
  <1>8. registry \in [Address -> Entry] /\ KindsOK(registry) /\ Settled = registry
    BY <1>1, <1>5 DEF CallInv, TypeOK, Settled
  <1>9. \A a \in Owned : Registrations(registry[a]) \in Nat
    BY <1>8, ReleaseCounts DEF KindsOK, Owned
  <1>10. /\ Produces(param, act.outcome) => Suits(param.safety, v)
         /\ ~Produces(param, act.outcome) => v = Null
    BY <1>3, <1>4, <1>5, <1>6, <1>7 DEF Sound, Untouched
  \* The next parameter is among those owed when it hands out a reference.
  <1>11. /\ \A a : k \in OwedOutputs(act, a) =>
                      Owning(param.safety) /\ v = a /\ ~Untouched(act, act.outs, k)
         /\ \A a : /\ Owning(param.safety) /\ v = a /\ param.dir # "in"
                   /\ k \notin OwedOutputs(act, a)
                   => Untouched(act, act.outs, k)
    BY <1>2, <1>3, <1>4, <1>5, <1>7 DEF OwedOutputs
  <1>12. /\ KindsOK(registry')
         /\ \A a \in Address : IsRegistered(registry, a) => IsRegistered(registry', a)
         /\ \A a \in Owned : Registrations(registry'[a]) =
               Registrations(registry[a]) + (IF k \in OwedOutputs(act, a) THEN 1 ELSE 0)
    <2>1. CASE ~Produces(param, act.outcome)
      <3>1. \A a \in Owned : k \notin OwedOutputs(act, a)
        BY <1>10, <1>11, <2>1, CallAssumption DEF Owned
      <3> QED BY <1>5, <1>8, <1>9, <2>1, <3>1
    <2>2. CASE Produces(param, act.outcome)
      <3>1. param.safety \in Safeties /\ Suits(param.safety, v) /\ param.dir # "in"
        BY <1>7, <1>10, <2>2 DEF Params, Produces
      <3>2. /\ KindsOK(registry')
            /\ \A a \in Address : IsRegistered(registry, a) => IsRegistered(registry', a)
            /\ \A a \in Owned :
                  Registrations(registry'[a]) =
                     IF /\ Owning(param.safety) /\ v = a
                        /\ a \in Shared \/ Registrations(registry[a]) = 0
                     THEN Registrations(registry[a]) + 1
                     ELSE Registrations(registry[a])
        BY <1>5, <1>7, <1>8, <2>2, <3>1, WrapCounts
      <3>3. \A a \in Owned : k \in OwedOutputs(act, a) =>
                                a \in Shared \/ Registrations(registry[a]) = 0
        <4> SUFFICES ASSUME NEW a \in Owned, k \in OwedOutputs(act, a)
                     PROVE  a \in Shared \/ Registrations(registry[a]) = 0
          OBVIOUS
        <4>1. Owed(Top, a) # {}
          BY <1>1 DEF Owed
        <4> QED BY <1>5, <1>8, <1>9, <4>1, OwedUnregistered
      <3>4. ASSUME NEW a \in Owned, Owning(param.safety), v = a, k \notin OwedOutputs(act, a)
            PROVE  a \notin Shared /\ Registrations(registry[a]) # 0
        <4>1. Untouched(act, act.outs, k)
          BY <1>11, <3>1, <3>4
        <4>2. param.dir = "inout" /\ param.own = "keep" /\ act.args[k] = a
          BY <1>3, <1>4, <3>4, <4>1 DEF Untouched
        <4>3. param.safety = "safe"
          BY <1>3, <1>5, <1>7, <3>4, <4>2 DEF KeepsArguments, Owning
        <4>4. a \in Address /\ a \notin Shared
          BY <3>1, <3>4, <4>3 DEF Suits, Owned
        <4>5. Verified(act)
          BY <1>1, <1>5 DEF CallInv
        <4>6. IsRegistered(registry, a)
          BY <1>2, <1>3, <1>5, <1>7, <4>2, <4>3, <4>4, <4>5
             DEF Verified, StillStored, StoredAgain
        <4>7. registry[a].kind # "none" /\ registry[a] \in Entry /\ KindOK(registry[a], a)
          BY <1>8, <4>4, <4>6 DEF KindsOK, IsRegistered
        <4> QED BY <4>4, <4>7, ReleaseCounts
      <3> QED BY <1>9, <1>11, <3>2, <3>3, <3>4
    <2> QED BY <2>1, <2>2
  <1>13. PICK x : x = [act EXCEPT !.next = k + 1]
    OBVIOUS
  <1>14. stack' = Append(Callers, x)
    BY <1>2, <1>5, <1>13
  <1>15. /\ x \in Activations /\ x.proto = act.proto /\ x.args = act.args
         /\ x.phase = "storing" /\ x.outcome = act.outcome /\ x.value = act.value
         /\ x.outs = act.outs /\ x.next = k + 1
    <2>1. act \in Activations /\ act.phase = "storing" /\ k + 1 \in Nat
      BY <1>5, <1>6, <1>7
    <2> QED BY <1>13, <2>1 DEF Activations
  <1>16. \A l : Untouched(x, x.outs, l) <=> Untouched(act, act.outs, l)
    BY <1>15 DEF Untouched
  <1>17. x \in SoundActivations
    <2>1. Sound(x)
      BY <1>5, <1>6, <1>7, <1>15, <1>16 DEF Sound
    <2> QED BY <1>15, <2>1 DEF SoundActivations
  <1>18. /\ stack' \in Seq(SoundActivations) /\ Callers' \in Seq(WaitingActivations)
         /\ stack' # <<>> /\ Top' = x
    BY <1>5, <1>14, <1>17, Replaced
  <1>19. Settled' = registry'
    BY <1>15, <1>18 DEF Settled
  <1>20. ASSUME NEW a \in Owned PROVE Account(a)'
    <2> DEFINE O == OwedOutputs(act, a)
               P == OwedOutputs(x, a)
    <2>1. DOMAIN act.outs \subseteq Nat
      BY <1>6, ActivationTyped
    <2>2. P = O \ {k}
      BY <1>2, <1>5, <1>7, <1>15, <1>16, <2>1 DEF OwedOutputs
    <2>3. OwedResult(x, a) = {} /\ OwedResult(act, a) = {}
      BY <1>5, <1>15 DEF OwedResult
    <2>4. Owed(x, a) = P /\ Owed(act, a) = O
      BY <2>3 DEF Owed
    <2>5. IsFiniteSet(O)
      BY <1>6, OwedFinite
    <2> HIDE DEF O, P
    <2>6. Cardinality(P) = (IF k \in O THEN Cardinality(O) - 1 ELSE Cardinality(O))
          /\ Cardinality(O) \in Nat
      BY <2>2, <2>5, FS_RemoveElement, FS_CardinalityType
    <2>7. /\ Cardinality(Debts(Callers, a)) \in Nat
          /\ Registrations(registry[a]) + (Cardinality(Debts(Callers, a)) + Cardinality(O))
                = refs[a]
      BY <1>1, <1>5, <1>8, <2>4, AccountSplit
    <2>8. Registrations(registry'[a]) =
             Registrations(registry[a]) + (IF k \in O THEN 1 ELSE 0)
      BY <1>12 DEF O
    <2>9. Registrations(registry[a]) \in Nat
      BY <1>9
    <2>10. Registrations(Settled'[a]) + (Cardinality(Debts(Callers, a))
              + Cardinality(Owed(x, a))) = refs'[a]
      BY <1>5, <1>19, <2>4, <2>6, <2>7, <2>8, <2>9
    <2> QED BY <1>5, <1>14, <1>15, <2>10, AccountReplaced
  <1>21. Verified(Top)'
    <2>1. ASSUME NEW l \in DOMAIN x.args, l >= x.next, StoredAgain(x.proto.params[l]),
                 x.args[l] \in Address
          PROVE  IsRegistered(registry', x.args[l])
      <3>1. l \in Nat /\ l >= act.next
        BY <1>2, <1>7, <1>15, <2>1, ActivationTyped
      <3>2. IsRegistered(registry, x.args[l])
        BY <1>1, <1>5, <1>15, <2>1, <3>1 DEF CallInv, Verified, StillStored
      <3> QED BY <1>12, <2>1, <3>2
    <2> QED BY <1>15, <1>18, <2>1 DEF Verified, StillDisposed, StillStored
  <1> QED BY <1>5, <1>12, <1>18, <1>20, <1>21 DEF CallInv

\* A call that has nothing left to register ends.
LEMMA ReturnedKeepsInv ==
    ASSUME CallInv, TypeOK', KeepsAccounts, stack # <<>>, stack' = Callers,
           UNCHANGED <<registry, refs>>,
           \/ Top.phase \in {"preparing", "handler"}
           \/ Top.phase = "storing" /\ Top.next \notin DOMAIN Top.proto.params
    PROVE  CallInv'
  <1>1. Settled = registry /\ Settled' = registry'
    BY ReturnedVerified DEF Settled
  <1>2. ASSUME NEW a \in Owned PROVE Account(a)'
    <2>1. Cardinality(Owed(Top, a)) = 0
      BY Stacked, NothingOwed
    <2>2. Registrations(Settled'[a]) + Cardinality(Debts(Callers, a)) = refs'[a]
      BY <1>1, <2>1, AccountSplit
    <2> QED BY <2>2, AccountReturned
  <1>3. /\ stack' \in Seq(SoundActivations) /\ Callers' \in Seq(WaitingActivations)
        /\ stack' # <<>> => Verified(Top)'
    BY Returned, ReturnedVerified
  <1> QED BY <1>2, <1>3 DEF CallInv

LEMMA ReportKeepsInv ==
    ASSUME CallInv, TypeOK', KeepsAccounts, ReportResult
    PROVE  CallInv'
  <1>1. /\ stack # <<>> /\ Top.phase = "storing" /\ Top.next \notin DOMAIN Top.proto.params
        /\ UNCHANGED <<registry, refs>>
    BY DEF ReportResult
  <1>2. CASE stack' = Callers
    BY <1>1, <1>2, ReturnedKeepsInv
  <1>3. CASE stack' = Append(Callers, [Top EXCEPT !.phase = "handler"])
    <2>1. PICK act : act = Top
      OBVIOUS
    <2>2. PICK x : x = [act EXCEPT !.phase = "handler"]
      OBVIOUS
    <2>3. act \in Activations /\ act \in SoundActivations /\ Sound(act)
      BY <1>1, <2>1, Stacked DEF SoundActivations
    <2>4. /\ x \in Activations /\ x.proto = act.proto /\ x.args = act.args
          /\ x.phase = "handler" /\ x.next = act.next
      BY <2>2, <2>3 DEF Activations, Phases
    <2>5. x \in SoundActivations
      BY <2>3, <2>4 DEF Sound, SoundActivations
    <2>6. stack' = Append(Callers, x)
      BY <1>3, <2>1, <2>2
    <2>7. /\ stack' \in Seq(SoundActivations) /\ Callers' \in Seq(WaitingActivations)
          /\ stack' # <<>> /\ Top' = x
      BY <1>1, <2>5, <2>6, Replaced
    <2>8. Verified(Top)'
      BY <2>4, <2>7 DEF Verified, StillDisposed, StillStored
    <2>9. Settled = registry /\ Settled' = registry'
      BY <1>1, <2>4, <2>7 DEF Settled
    <2>10. ASSUME NEW a \in Owned PROVE Account(a)'
      <3>1. Cardinality(Owed(Top, a)) = 0
        BY <1>1, <2>1, <2>3, NothingOwed
      <3>2. Cardinality(Owed(x, a)) = 0
        BY <2>4, <2>5, NothingOwed
      <3>3. Registrations(Settled'[a]) + (Cardinality(Debts(Callers, a))
               + Cardinality(Owed(x, a))) = refs'[a]
        BY <1>1, <2>9, <3>1, <3>2, AccountSplit
      <3> QED BY <1>1, <2>4, <2>6, <3>3, AccountReplaced
    <2> QED BY <1>1, <2>7, <2>8, <2>10 DEF CallInv
  <1> QED BY <1>2, <1>3 DEF ReportResult

\* Between the steps of every call, whatever the depth of nesting, the
\* registrations of an object and those still to be made of it add up to the
\* references the script owns (CffiFunctionCall, Function.c:1758-2388).
THEOREM AccountsKept ==
    ASSUME ScriptsOnlyCall, KeepsAccounts
    PROVE  Spec => []CallInv
  <1>1. Init => CallInv
    <2> SUFFICES ASSUME Init PROVE CallInv
      OBVIOUS
    <2>1. TypeOK
      BY DEF Init, TypeOK, Unregistered, Entry, Kinds, Tags
    <2>2. stack = <<>> /\ Callers = <<>> /\ Settled = registry
      BY DEF Init, Callers, Settled
    <2>3. KindsOK(registry) /\ \A a \in Owned : Registrations(registry[a]) = 0 /\ refs[a] = 0
      BY DEF Init, KindsOK, KindOK, Unregistered, Registrations, Owned
    <2>4. ASSUME NEW a \in Plain PROVE refs[a] <= 1
      <3>1. refs[a] = 0
        BY DEF Init, Plain
      <3> QED BY <3>1
    <2>5. ASSUME NEW a \in Owned PROVE Account(a)
      <3>1. Debts(stack, a) = {}
        BY <2>2 DEF Debts
      <3>2. IsFiniteSet(Debts(stack, a)) /\ Cardinality(Debts(stack, a)) = 0
        BY <3>1, FS_EmptySet
      <3>3. Registrations(Settled[a]) = 0 /\ refs[a] = 0
        BY <2>2, <2>3
      <3> QED BY <3>2, <3>3 DEF Account
    <2> QED BY <2>1, <2>2, <2>3, <2>4, <2>5 DEF CallInv
  <1>2. CallInv /\ TypeOK' /\ [Next]_vars => CallInv'
    <2> SUFFICES ASSUME CallInv, TypeOK', [Next]_vars PROVE CallInv'
      OBVIOUS
    <2>1. ASSUME NEW p \in Protos, FunctionCall(p) PROVE CallInv'
      BY <2>1, CallKeepsInv
    <2>9. ASSUME NEW v \in Values, PrepareParam(v) PROVE CallInv'
      <3>1. /\ stack # <<>> /\ Top.phase = "preparing" /\ UNCHANGED <<registry, refs>>
        BY <2>9 DEF PrepareParam
      <3> QED BY <2>9, <3>1, PrepareKeepsInv, ReturnedKeepsInv
    <2>10. CASE EnterFunction
      BY <2>10, EnterKeepsInv
    <2>2. CASE CFunction
      BY <2>2, CFunctionKeepsInv
    <2>3. CASE FunctionReturn
      BY <2>3, ReturnKeepsInv
    <2>4. CASE StoreParam
      BY <2>4, StoreKeepsInv
    <2>5. CASE ReportResult
      BY <2>5, ReportKeepsInv
    <2>6. CASE HandlerReturn
      BY <2>6, ReturnedKeepsInv DEF HandlerReturn
    <2>7. ASSUME NEW a \in Address, EnvPointer(a) PROVE FALSE
      BY <2>7 DEF EnvPointer, ScriptsOnlyCall
    <2>8. CASE UNCHANGED vars
      <3>1. UNCHANGED <<stack, registry, refs>>
        BY <2>8 DEF vars
      <3> QED BY <3>1 DEF CallInv, Account, Settled, Disposed, PointerArgsDispose, Top,
                          Callers, Verified, StillDisposed, StillStored
    <2> QED BY <2>1, <2>2, <2>3, <2>4, <2>5, <2>6, <2>7, <2>8, <2>9, <2>10 DEF Next
  <1> QED BY <1>1, <1>2, CallTypeCorrect, PTL DEF Spec

\* Between calls each object is registered exactly as many times as the script
\* owns references to it (Function.c:2004-2325).
THEOREM BalancedCorrect ==
    ASSUME ScriptsOnlyCall, KeepsAccounts
    PROVE  Spec => []Balanced
  <1>1. CallInv => Balanced
    <2> SUFFICES ASSUME CallInv,
                        \A i \in DOMAIN stack : stack[i].phase \in {"preparing", "handler"},
                        NEW a \in Address \ Static
                 PROVE  Registrations(registry[a]) = refs[a]
      BY DEF Balanced
    <2>1. a \in Owned
      BY DEF Owned
    <2>2. stack \in Seq(SoundActivations)
      BY DEF CallInv
    <2>3. Settled = registry
      <3>1. stack # <<>> => Top.phase \in {"preparing", "handler"}
        BY <2>2 DEF Top
      <3> QED BY <3>1 DEF Settled
    <2>4. Debts(stack, a) = {}
      <3>1. ASSUME NEW i \in DOMAIN stack PROVE Owed(stack[i], a) = {}
        <4>1. stack[i] \in SoundActivations /\ stack[i].phase \in {"preparing", "handler"}
          BY <2>2, <3>1
        <4> QED BY <4>1, NothingOwed
      <3> QED BY <3>1 DEF Debts
    <2>5. Cardinality(Debts(stack, a)) = 0
      BY <2>4, FS_EmptySet
    <2>6. Registrations(registry[a]) \in Nat
      <3>1. registry[a] \in Entry /\ KindOK(registry[a], a)
        BY <2>1 DEF CallInv, TypeOK, KindsOK
      <3> QED BY <2>1, <3>1, ReleaseCounts
    <2> QED BY <2>1, <2>3, <2>5, <2>6 DEF CallInv, Account
  <1> QED BY <1>1, AccountsKept, PTL

\* No function is entered that gives back a reference the script does not own
\* (CffiPointerFromObj, Types.c:2608).
THEOREM NeverOverReleasedCorrect ==
    ASSUME ScriptsOnlyCall, KeepsAccounts
    PROVE  Spec => []NeverOverReleased
  <1>1. CallInv => NeverOverReleased
    <2> SUFFICES ASSUME CallInv, NEW a \in Address \ Static
                 PROVE  Cardinality(UNION {{i} \X {k \in DOMAIN stack[i].args :
                                /\ stack[i].phase = "running"
                                /\ stack[i].proto.params[k].own # "keep"
                                /\ stack[i].args[k] = a} : i \in DOMAIN stack}) <= refs[a]
      BY DEF NeverOverReleased
    <2> DEFINE Releasing(i) == {k \in DOMAIN stack[i].args :
                                  /\ stack[i].phase = "running"
                                  /\ stack[i].proto.params[k].own # "keep"
                                  /\ stack[i].args[k] = a}
               R == UNION {{i} \X Releasing(i) : i \in DOMAIN stack}
    <2>1. a \in Owned /\ a \in Address /\ refs[a] \in Nat
      BY DEF Owned, CallInv, TypeOK
    <2>2. CASE R = {}
      <3>1. Cardinality(R) = 0
        BY <2>2, FS_EmptySet
      <3> QED BY <2>1, <3>1
    <2>3. CASE R # {}
      <3>1. PICK i \in DOMAIN stack : Releasing(i) # {}
        BY <2>3
      <3>2. stack # <<>> /\ stack \in Seq(SoundActivations)
        BY <3>1 DEF CallInv
      <3>3. /\ stack = Append(Callers, Top) /\ Top \in Activations
            /\ Callers \in Seq(WaitingActivations)
        BY <3>2, Stacked
      <3>4. ASSUME NEW j \in DOMAIN stack, Releasing(j) # {}
            PROVE  j = Len(stack) /\ stack[j] = Top
        <4>1. stack[j].phase = "running"
          BY <3>4
        <4>2. j \in DOMAIN Callers => stack[j] = Callers[j] /\ Callers[j] \in WaitingActivations
          BY <3>3
        <4>3. j \notin DOMAIN Callers
          BY <4>1, <4>2 DEF WaitingActivations, Waiting, VariableSet, VariableRead
        <4> QED BY <3>2, <3>3, <4>3 DEF Top
      <3>5. PICK n : n = Len(stack)
        OBVIOUS
      <3>6. KeepsArguments(Top.proto.params) /\ DOMAIN Top.args = DOMAIN Top.proto.params
        BY <3>3, ActivationTyped DEF KeepsAccounts, Accountable
      <3>7. i = n /\ stack[n] = Top
        BY <3>1, <3>4, <3>5
      <3>8. \A k, l \in Releasing(n) : k = l
        BY <3>6, <3>7 DEF KeepsArguments
      <3>9. PICK k \in Releasing(n) : Releasing(n) = {k}
        BY <3>1, <3>7, <3>8
      <3>10. R = {<<n, k>>}
        <4>1. \A j \in DOMAIN stack : j # n => Releasing(j) = {}
          BY <3>4, <3>5
        <4>2. R = {n} \X Releasing(n)
          BY <3>7, <4>1
        <4> HIDE DEF R, Releasing
        <4>3. {n} \X Releasing(n) = {<<n, k>>}
          BY <3>9
        <4> QED BY <4>2, <4>3
      <3>11. Cardinality(R) = 1
        BY <3>10, FS_Singleton
      <3>12. IsRegistered(registry, a) /\ Top.phase = "running"
        BY <2>1, <3>2, <3>7, <3>9 DEF CallInv, Verified, StillDisposed
      <3>13. registry[a] \in Entry /\ KindOK(registry[a], a)
        BY <2>1 DEF CallInv, TypeOK, KindsOK
      <3>14. Registrations(registry[a]) \in Nat /\ Registrations(registry[a]) # 0
        BY <2>1, <3>12, <3>13, ReleaseCounts DEF IsRegistered
      <3>15. Settled = registry
        BY <3>12 DEF Settled
      <3>16. refs[a] >= Registrations(registry[a])
        BY <2>1, <3>2, <3>14, <3>15, AccountSplit
      <3> QED BY <2>1, <3>11, <3>14, <3>16
    <2> QED BY <2>2, <2>3
  <1> QED BY <1>1, AccountsKept, PTL
=============

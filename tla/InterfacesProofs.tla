-------------------------- MODULE InterfacesProofs --------------------------
(***************************************************************************)
(* Proofs about reference counts, for any number of libraries, prototypes, *)
(* functions, callbacks, commands and interfaces and any depth of nesting: *)
(* first about Lifetimes alone, then that interfaces, whatever scripts do  *)
(* with them, use prototypes as Lifetimes says, so that what is proved of  *)
(* the counts holds with interfaces too.  Their own references are counted *)
(* exactly, and methods find their slots.                                  *)
(***************************************************************************)
EXTENDS Interfaces, FiniteSetTheorems, SequenceTheorems, WellFoundedInduction,
        TLAPS

(***************************************************************************)
(* The counts are exact because each step takes from the holders of an     *)
(* object, and adds to them, as many tokens as it counts.  That needs the  *)
(* bindings of whatever is live to be there, and a callback that runs to   *)
(* be a closure still, hence its depth to be that of the stack.            *)
(***************************************************************************)
CountedFns ==
    \A f \in Fn : /\ IsFiniteSet(FunctionHolders(f))
                  /\ refs[f] = Cardinality(FunctionHolders(f))

CountedLibs ==
    \A l \in Lib : /\ IsFiniteSet(LibHolders(l))
                   /\ refs[l] = Cardinality(LibHolders(l))

CountedProtos ==
    \A p \in Proto : /\ IsFiniteSet(ProtoHolders(p))
                     /\ refs[p] = Cardinality(ProtoHolders(p))

Counted == CountedFns /\ CountedLibs /\ CountedProtos

Bound ==
    /\ \A f \in Functions : fnProto[f] \in Proto
    /\ \A c \in closures : cbProto[c] \in Proto

Active(c) == {i \in DOMAIN stack : stack[i].kind = "callback" /\ stack[i].cb = c}

DepthExact ==
    \A c \in Callback : /\ IsFiniteSet(Active(c))
                        /\ depth[c] = Cardinality(Active(c))
                        /\ c \notin closures => Active(c) = {}

IInv == TypeOK /\ Counted /\ Bound /\ DepthExact

-----------------------------------------------------------------------------
(* Counting tokens.                                                        *)

LEMMA TokensMoved ==
    ASSUME NEW H, IsFiniteSet(H), NEW G, IsFiniteSet(G), NEW D, D \subseteq H,
           G \cap H = {}, NEW K, K = (H \cup G) \ D
    PROVE  /\ IsFiniteSet(K) /\ IsFiniteSet(D)
           /\ Cardinality(K) = Cardinality(H) + Cardinality(G) - Cardinality(D)
           /\ Cardinality(D) <= Cardinality(H)
           /\ Cardinality(H) \in Nat /\ Cardinality(G) \in Nat /\ Cardinality(D) \in Nat
  <1>1. IsFiniteSet(D) /\ Cardinality(D) <= Cardinality(H)
    BY FS_Subset
  <1>2. IsFiniteSet(H \cup G) /\ Cardinality(H \cup G) = Cardinality(H) + Cardinality(G)
    <2>1. IsFiniteSet(H \cup G) /\ Cardinality(H \cup G)
              = Cardinality(H) + Cardinality(G) - Cardinality(H \cap G)
      BY FS_Union
    <2>2. Cardinality(H \cap G) = 0
      <3>1. H \cap G = {}
        OBVIOUS
      <3> QED BY <3>1, FS_EmptySet
    <2>3. Cardinality(H) \in Nat /\ Cardinality(G) \in Nat
      BY FS_CardinalityType
    <2> QED BY <2>1, <2>2, <2>3
  <1>3. IsFiniteSet(K) /\ Cardinality(K)
            = Cardinality(H \cup G) - Cardinality((H \cup G) \cap D)
    BY <1>2, FS_Difference
  <1>4. Cardinality((H \cup G) \cap D) = Cardinality(D)
    <2>1. (H \cup G) \cap D = D
      OBVIOUS
    <2> QED BY <2>1
  <1>5. Cardinality(H) \in Nat /\ Cardinality(G) \in Nat /\ Cardinality(D) \in Nat
    BY <1>1, FS_CardinalityType
  <1>6. Cardinality(K) = Cardinality(H) + Cardinality(G) - Cardinality(D)
    BY <1>2, <1>3, <1>4, <1>5
  <1> QED BY <1>1, <1>3, <1>5, <1>6

LEMMA OneToken ==
    ASSUME NEW b \in BOOLEAN, NEW x
    PROVE  /\ IsFiniteSet(IF b THEN {x} ELSE {})
           /\ Cardinality(IF b THEN {x} ELSE {}) = One(b)
  BY FS_EmptySet, FS_Singleton DEF One

LEMMA CountMoved ==
    ASSUME refs \in [Object -> Nat], NEW gain, NEW drop, Recount(gain, drop),
           NEW o \in Object, NEW H, IsFiniteSet(H), refs[o] = Cardinality(H),
           NEW G, IsFiniteSet(G), gain[o] = Cardinality(G), G \cap H = {},
           NEW D, D \subseteq H, drop[o] = Cardinality(D),
           NEW K, K = (H \cup G) \ D
    PROVE  IsFiniteSet(K) /\ refs'[o] = Cardinality(K)
  BY TokensMoved DEF Recount

\* Nothing changes where nothing is counted.
LEMMA CountKept ==
    ASSUME refs \in [Object -> Nat], NEW gain, NEW drop, Recount(gain, drop),
           NEW o \in Object, gain[o] = 0, drop[o] = 0
    PROVE  refs'[o] = refs[o]
  BY DEF Recount

LEMMA RefsTyped ==
    ASSUME refs \in [Object -> Nat], NEW gain \in [Object -> Nat],
           NEW drop \in [Object -> Nat], Recount(gain, drop)
    PROVE  refs' \in [Object -> Nat]
  <1> SUFFICES ASSUME NEW o \in Object
               PROVE  (IF drop[o] > refs[o] + gain[o] THEN 0
                       ELSE refs[o] + gain[o] - drop[o]) \in Nat
    BY DEF Recount
  <1>1. drop[o] \in Nat /\ gain[o] \in Nat /\ refs[o] \in Nat
    OBVIOUS
  <1> QED BY <1>1

LEMMA EachTyped == \A S : Each(S) \in [Object -> Nat]
  BY DEF Each, One

LEMMA NothingFacts == Nothing \in [Object -> Nat] /\ \A o \in Object : Nothing[o] = 0
  BY DEF Nothing, Each, One

LEMMA DropsTyped ==
    ASSUME NEW f \in Fn \cup {None}, NEW n \in Nat
    PROVE  FunctionDrops(f, n) \in [Object -> Nat]
  BY DEF FunctionDrops, Nothing, Each, One

\* An object with no references has no holders.
LEMMA UnusedHeldByNone ==
    ASSUME Counted
    PROVE  /\ \A f \in Fn : refs[f] = 0 <=> FunctionHolders(f) = {}
           /\ \A l \in Lib : refs[l] = 0 <=> LibHolders(l) = {}
           /\ \A p \in Proto : refs[p] = 0 <=> ProtoHolders(p) = {}
  BY FS_EmptySet DEF Counted, CountedFns, CountedLibs, CountedProtos

-----------------------------------------------------------------------------
(* The stack.                                                              *)

LEMMA PushFacts ==
    ASSUME NEW S, NEW s \in Seq(S), NEW x \in S
    PROVE  /\ Append(s, x) \in Seq(S)
           /\ Len(s) \in Nat
           /\ DOMAIN s = 1 .. Len(s)
           /\ DOMAIN Append(s, x) = 1 .. Len(s) + 1
           /\ \A i \in 1 .. Len(s) : Append(s, x)[i] = s[i]
           /\ Append(s, x)[Len(s) + 1] = x
  OBVIOUS

LEMMA PopFacts ==
    ASSUME NEW S, NEW s \in Seq(S), s # <<>>
    PROVE  /\ SubSeq(s, 1, Len(s) - 1) \in Seq(S)
           /\ Len(s) \in Nat \ {0}
           /\ DOMAIN s = 1 .. Len(s)
           /\ DOMAIN SubSeq(s, 1, Len(s) - 1) = 1 .. Len(s) - 1
           /\ \A i \in 1 .. Len(s) - 1 : SubSeq(s, 1, Len(s) - 1)[i] = s[i]
           /\ s[Len(s)] \in S
  <1>1. Len(s) \in Nat \ {0} /\ DOMAIN s = 1 .. Len(s) /\ \A i \in 1 .. Len(s) : s[i] \in S
    OBVIOUS
  <1>2. /\ SubSeq(s, 1, Len(s) - 1) \in Seq(S)
        /\ DOMAIN SubSeq(s, 1, Len(s) - 1) = 1 .. Len(s) - 1
        /\ \A i \in 1 .. Len(s) - 1 : SubSeq(s, 1, Len(s) - 1)[i] = s[i]
    OBVIOUS
  <1> QED BY <1>1, <1>2

CallFrame == [kind : {"call", "handler"}, fn : Fn, temp : BOOLEAN]

CallbackFrame == [kind : {"callback"}, cb : Callback]

\* The top of the stack is a frame, and what lies below it a stack.
LEMMA TopFacts ==
    ASSUME TypeOK, stack # <<>>
    PROVE  /\ Below \in Seq(Frames)
           /\ Len(stack) \in Nat \ {0}
           /\ DOMAIN stack = 1 .. Len(stack)
           /\ DOMAIN Below = 1 .. Len(stack) - 1
           /\ \A i \in 1 .. Len(stack) - 1 : Below[i] = stack[i]
           /\ Top.kind # "callback" =>
                  /\ Top \in CallFrame /\ Top.fn \in Fn /\ Top.temp \in BOOLEAN
           /\ Top.kind = "callback" => Top.cb \in Callback
  <1>1. stack \in Seq(Frames)
    BY DEF TypeOK
  <1>2. Top \in Frames
    BY <1>1, PopFacts DEF Top
  <1>3. /\ Top.kind # "callback" =>
                  /\ Top \in CallFrame /\ Top.fn \in Fn /\ Top.temp \in BOOLEAN
        /\ Top.kind = "callback" => Top.cb \in Callback
    BY <1>2 DEF Frames, CallFrame
  <1> QED BY <1>1, <1>3, PopFacts DEF Below

-----------------------------------------------------------------------------
(* Types.                                                                  *)

LEMMA InitTyped == Init => TypeOK
  <1> SUFFICES ASSUME Init PROVE TypeOK
    OBVIOUS
  <1>1. stack \in Seq(Frames)
    BY EmptySeq DEF Init
  <1> QED BY <1>1 DEF Init, TypeOK

LEMMA TypeStep ==
    ASSUME TypeOK, DepthExact, [Next]_vars
    PROVE  TypeOK'
  <1> USE DEF TypeOK, bindings
  <1>1. ASSUME NEW w \in Wrapper, NEW l \in Lib, WrapperCreate(w, l) PROVE TypeOK'
    BY <1>1, EachTyped, RefsTyped DEF WrapperCreate
  <1>2. ASSUME NEW w \in Wrapper, WrapperDestroy(w) PROVE TypeOK'
    BY <1>2, EachTyped, NothingFacts, RefsTyped DEF WrapperDestroy
  <1>3. ASSUME NEW w \in Wrapper, NEW n \in Command, NEW f \in Fn, NEW p \in Proto,
               DefineFunction(w, n, f, p)
        PROVE  TypeOK'
    <2>1. refs' \in [Object -> Nat]
      BY <1>3, EachTyped, DropsTyped, RefsTyped DEF DefineFunction
    <2> QED BY <1>3, <2>1 DEF DefineFunction
  <1>4. ASSUME NEW n \in Command, FunctionDelete(n) PROVE TypeOK'
    <2>1. refs' \in [Object -> Nat]
      BY <1>4, NothingFacts, DropsTyped, RefsTyped DEF FunctionDelete
    <2> QED BY <1>4, <2>1 DEF FunctionDelete
  <1>5. ASSUME NEW n \in Command, FunctionCall(n) PROVE TypeOK'
    <2>1. refs' \in [Object -> Nat]
      BY <1>5, EachTyped, NothingFacts, RefsTyped DEF FunctionCall
    <2>2. [kind |-> "call", fn |-> commands[n], temp |-> FALSE] \in Frames
      BY <1>5 DEF FunctionCall, Frames
    <2>3. stack' \in Seq(Frames)
      BY <1>5, <2>2, PushFacts DEF FunctionCall
    <2> QED BY <1>5, <2>1, <2>3 DEF FunctionCall
  <1>6. ASSUME NEW f \in Fn, NEW p \in Proto, CallProto(f, p) PROVE TypeOK'
    <2>1. [Each({p}) EXCEPT ![f] = 2] \in [Object -> Nat]
      BY EachTyped
    <2>2. refs' \in [Object -> Nat]
      BY <1>6, <2>1, NothingFacts, RefsTyped DEF CallProto
    <2>3. [kind |-> "call", fn |-> f, temp |-> TRUE] \in Frames
      BY DEF Frames
    <2>4. stack' \in Seq(Frames)
      BY <1>6, <2>3, PushFacts DEF CallProto
    <2> QED BY <1>6, <2>2, <2>4 DEF CallProto
  <1>7. CASE ErrorHandler
    <2>1. [Top EXCEPT !.kind = "handler"] \in Frames
      BY <1>7, TopFacts DEF ErrorHandler, InC, CallFrame, Frames
    <2>2. stack' \in Seq(Frames)
      BY <1>7, <2>1, TopFacts, PushFacts DEF ErrorHandler, InC
    <2> QED BY <1>7, <2>2 DEF ErrorHandler
  <1>8. CASE FunctionReturn
    <2>1. Top.fn \in Fn /\ stack' \in Seq(Frames)
      BY <1>8, TopFacts DEF FunctionReturn
    <2>2. refs' \in [Object -> Nat]
      BY <1>8, <2>1, NothingFacts, DropsTyped, RefsTyped DEF FunctionReturn
    <2> QED BY <1>8, <2>1, <2>2 DEF FunctionReturn
  <1>9. ASSUME NEW p \in Proto, PrototypeDefine(p) PROVE TypeOK'
    BY <1>9, EachTyped, NothingFacts, RefsTyped DEF PrototypeDefine
  <1>10. ASSUME NEW P \in SUBSET named, PrototypeDelete(P) PROVE TypeOK'
    BY <1>10, EachTyped, NothingFacts, RefsTyped DEF PrototypeDelete
  <1>11. ASSUME NEW c \in Callback, NEW p \in Proto, CallbackNew(c, p) PROVE TypeOK'
    BY <1>11, EachTyped, NothingFacts, RefsTyped DEF CallbackNew
  <1>12. ASSUME NEW c \in Callback, CallbackFree(c) PROVE TypeOK'
    BY <1>12, EachTyped, NothingFacts, RefsTyped DEF CallbackFree
  <1>13. ASSUME NEW c \in Callback, CallbackInvoke(c) PROVE TypeOK'
    <2>1. [kind |-> "callback", cb |-> c] \in Frames
      BY DEF Frames
    <2>2. stack' \in Seq(Frames)
      BY <1>13, <2>1, PushFacts DEF CallbackInvoke
    <2> QED BY <1>13, <2>2 DEF CallbackInvoke
  <1>14. CASE CallbackReturn
    <2>1. Top.cb \in Callback /\ stack' \in Seq(Frames)
      BY <1>14, TopFacts DEF CallbackReturn
    <2>2. Len(stack) \in Active(Top.cb)
      BY <1>14, TopFacts DEF CallbackReturn, Active, Top
    <2>3. depth[Top.cb] \in Nat /\ depth[Top.cb] # 0
      BY <2>1, <2>2, FS_EmptySet DEF DepthExact
    <2>4. \A c \in Callback : depth[c] \in Nat /\ depth[c] # 0 => depth[c] - 1 \in Nat
      OBVIOUS
    <2>5. depth' \in [Callback -> Nat]
      BY <1>14, <2>1, <2>3, <2>4 DEF CallbackReturn
    <2> QED BY <1>14, <2>1, <2>5 DEF CallbackReturn
  <1>15. ASSUME NEW T \in SUBSET Slot, NEW S \in SUBSET Slot, NEW new \in [T -> Proto],
                SlotsChange(new, S)
         PROVE  TypeOK'
    <2>1. /\ \A o : IsFiniteSet({s \in DOMAIN new : new[s] = o})
          /\ \A o : IsFiniteSet({s \in S : slotProto[s] = o})
      BY FS_Subset, LifetimesAssumption
    <2>2. /\ [o \in Object |-> Cardinality({s \in DOMAIN new : new[s] = o})] \in [Object -> Nat]
          /\ [o \in Object |-> Cardinality({s \in S : slotProto[s] = o})] \in [Object -> Nat]
      BY <2>1, FS_CardinalityType
    <2>3. refs' \in [Object -> Nat]
      BY <1>15, <2>2, RefsTyped DEF SlotsChange
    <2> QED BY <1>15, <2>3 DEF SlotsChange
  <1>16. CASE UNCHANGED vars
    BY <1>16 DEF vars
  <1>17. ASSUME NEW f \in Fn, NEW s \in Slot, CallMethod(f, s) PROVE TypeOK'
    BY <1>6, <1>17 DEF CallMethod
  <1>18. ASSUME NEW f \in Fn, NEW p \in Proto, CallPointer(f, p) PROVE TypeOK'
    BY <1>6, <1>18 DEF CallPointer
  <1>19. CASE Ordinary
    BY <1>1, <1>2, <1>3, <1>4, <1>5, <1>7, <1>8, <1>9, <1>10, <1>11, <1>12, <1>13, <1>14,
       <1>18, <1>19 DEF Ordinary
  <1> QED BY <1>15, <1>16, <1>17, <1>19 DEF Next
-----------------------------------------------------------------------------
(* The holders of functions, and the activations of callbacks.             *)

CallToken(i) == <<"call", i>>

CallTokens(fr, i) == {<<"call", i>>} \cup (IF fr.temp THEN {<<"temp", i>>} ELSE {})

LEMMA HolderIs ==
    ASSUME NEW f, NEW x
    PROVE  x \in FunctionHolders(f) <=>
               \/ \E n \in Command : commands[n] = f /\ x = <<"command", n>>
               \/ \E i \in DOMAIN stack : /\ stack[i].kind # "callback" /\ stack[i].fn = f
                                          /\ x \in CallTokens(stack[i], i)
  BY DEF FunctionHolders, CallTokens

LEMMA CallTokensCounted ==
    ASSUME NEW fr, fr.temp \in BOOLEAN, NEW i
    PROVE  /\ IsFiniteSet(CallTokens(fr, i))
           /\ Cardinality(CallTokens(fr, i)) = IF fr.temp THEN 2 ELSE 1
  <1> DEFINE c == <<"call", i>>
             t == <<"temp", i>>
  <1>1. IsFiniteSet({c}) /\ Cardinality({c}) = 1
    BY FS_Singleton
  <1>2. t \notin {c}
    OBVIOUS
  <1> HIDE DEF c, t
  <1>3. IsFiniteSet({c} \cup {t}) /\ Cardinality({c} \cup {t}) = 1 + 1
    BY <1>1, <1>2, FS_AddElement
  <1>4. CallTokens(fr, i) = IF fr.temp THEN {c} \cup {t} ELSE {c}
    BY DEF CallTokens, c, t
  <1> QED BY <1>1, <1>3, <1>4

LEMMA HoldersKept ==
    ASSUME UNCHANGED <<commands, stack>>
    PROVE  /\ \A f : FunctionHolders(f)' = FunctionHolders(f)
           /\ Functions' = Functions
           /\ \A c : Active(c)' = Active(c)
  BY DEF FunctionHolders, Functions, Active

CommandSet(n, old, g) ==
    /\ g \in Fn \cup {None} /\ old = commands[n] /\ g # old
    /\ commands' = [commands EXCEPT ![n] = g]

LEMMA CommandRebound ==
    ASSUME TypeOK, UNCHANGED stack, NEW n \in Command, NEW old, NEW g, CommandSet(n, old, g)
    PROVE  /\ \A f \in Fn : f # g /\ f # old => FunctionHolders(f)' = FunctionHolders(f)
           /\ old \in Fn =>
                  /\ FunctionHolders(old)'
                         = FunctionHolders(old) \ {<<"command", n>>}
                  /\ <<"command", n>> \in FunctionHolders(old)
           /\ g \in Fn => /\ FunctionHolders(g)' = FunctionHolders(g) \cup {<<"command", n>>}
                          /\ <<"command", n>> \notin FunctionHolders(g)
           /\ \A c : Active(c)' = Active(c)
  <1>0. /\ g \in Fn \cup {None} /\ old = commands[n] /\ g # old
        /\ commands' = [commands EXCEPT ![n] = g]
    BY DEF CommandSet
  <1> DEFINE Calls(f, x) == \E i \in DOMAIN stack : /\ stack[i].kind # "callback"
                                                    /\ stack[i].fn = f
                                                    /\ x \in CallTokens(stack[i], i)
  <1>1. \A f, x : x \in FunctionHolders(f) <=>
            (\E m \in Command : commands[m] = f /\ x = <<"command", m>>) \/ Calls(f, x)
    BY HolderIs
  <1>2. \A f, x : x \in FunctionHolders(f)' <=>
            (\E m \in Command : commands'[m] = f /\ x = <<"command", m>>) \/ Calls(f, x)
    BY DEF FunctionHolders, CallTokens
  <1>3. \A f, x : Calls(f, x) => x # <<"command", n>>
    BY DEF CallTokens
  <1>4. \A c : Active(c)' = Active(c)
    BY DEF Active
  <1> HIDE DEF Calls
  <1>5. \A m \in Command : commands'[m] = IF m = n THEN g ELSE commands[m]
    BY <1>0 DEF TypeOK
  <1> DEFINE tok == <<"command", n>>
  <1>6. \A m \in Command : <<"command", m>> = tok => m = n
    OBVIOUS
  <1> HIDE DEF tok
  <1>7. ASSUME NEW f, NEW x
        PROVE  x \in FunctionHolders(f)' <=>
                   \/ x \in FunctionHolders(f) /\ x # tok
                   \/ x = tok /\ f = g
    <2>1. CASE x = tok
      BY <1>2, <1>3, <1>5, <1>6, <2>1 DEF tok
    <2>2. CASE x # tok
      BY <1>1, <1>2, <1>5, <2>2 DEF tok
    <2> QED BY <2>1, <2>2
  <1>8. \A f : tok \in FunctionHolders(f) <=> f = old
    BY <1>0, <1>1, <1>3, <1>6 DEF tok
  <1>9. \A f \in Fn : f # g /\ f # old => FunctionHolders(f)' = FunctionHolders(f)
    <2> SUFFICES ASSUME NEW f \in Fn, f # g, f # old
                 PROVE  \A x : x \in FunctionHolders(f)' <=> x \in FunctionHolders(f)
      OBVIOUS
    <2> QED BY <1>0, <1>7, <1>8
  <1>10. old \in Fn =>
             /\ FunctionHolders(old)' = FunctionHolders(old) \ {tok}
             /\ tok \in FunctionHolders(old)
    <2>1. \A x : x \in FunctionHolders(old)' <=>
                     x \in FunctionHolders(old) \ {tok}
      BY <1>0, <1>7, <1>8
    <2> QED BY <1>8, <2>1
  <1>11. g \in Fn => /\ FunctionHolders(g)' = FunctionHolders(g) \cup {tok}
                    /\ tok \notin FunctionHolders(g)
    <2>1. \A x : x \in FunctionHolders(g)' <=> x \in FunctionHolders(g) \cup {tok}
      BY <1>0, <1>7, <1>8
    <2> QED BY <1>0, <1>8, <2>1
  <1> QED BY <1>4, <1>9, <1>10, <1>11 DEF tok

LEMMA CallPushed ==
    ASSUME TypeOK, UNCHANGED commands, NEW fr \in CallFrame, stack' = Append(stack, fr)
    PROVE  /\ \A f \in Fn : f # fr.fn => FunctionHolders(f)' = FunctionHolders(f)
           /\ FunctionHolders(fr.fn)' = FunctionHolders(fr.fn) \cup CallTokens(fr, Len(stack) + 1)
           /\ CallTokens(fr, Len(stack) + 1) \cap FunctionHolders(fr.fn) = {}
           /\ \A c : Active(c)' = Active(c)
  <1> DEFINE n == Len(stack) + 1
  <1>1. fr \in Frames /\ fr.kind # "callback"
    BY DEF Frames, CallFrame
  <1>2. /\ DOMAIN stack = 1 .. n - 1 /\ DOMAIN stack' = 1 .. n /\ n \in Nat \ {0}
        /\ \A i \in 1 .. n - 1 : stack'[i] = stack[i]
        /\ stack'[n] = fr
    BY <1>1, PushFacts DEF TypeOK
  <1> HIDE DEF n
  <1>3. DOMAIN stack' = DOMAIN stack \cup {n} /\ n \notin DOMAIN stack
    BY <1>2
  <1>4. \A f, x : x \in FunctionHolders(f) <=>
            \/ \E m \in Command : commands[m] = f /\ x = <<"command", m>>
            \/ \E i \in DOMAIN stack : /\ stack[i].kind # "callback" /\ stack[i].fn = f
                                       /\ x \in CallTokens(stack[i], i)
    BY HolderIs
  <1>5. \A f, x : x \in FunctionHolders(f)' <=>
            \/ \E m \in Command : commands[m] = f /\ x = <<"command", m>>
            \/ \E i \in DOMAIN stack' : /\ stack'[i].kind # "callback" /\ stack'[i].fn = f
                                        /\ x \in CallTokens(stack'[i], i)
    BY DEF FunctionHolders, CallTokens
  <1>6. \A f, x : x \in FunctionHolders(f)' <=>
            x \in FunctionHolders(f) \/ (f = fr.fn /\ x \in CallTokens(fr, n))
    BY <1>1, <1>2, <1>3, <1>4, <1>5
  <1>7. ASSUME NEW x \in CallTokens(fr, n) PROVE x \notin FunctionHolders(fr.fn)
    <2>1. x \in {<<"call", n>>, <<"temp", n>>}
      BY DEF CallTokens
    <2>2. \A i \in DOMAIN stack : x \notin CallTokens(stack[i], i)
      BY <1>3, <2>1 DEF CallTokens
    <2>3. \A m \in Command : x # <<"command", m>>
      BY <2>1
    <2> QED BY <1>4, <2>2, <2>3
  <1>8. \A c : Active(c)' = Active(c)
    BY <1>1, <1>2, <1>3 DEF Active
  <1> QED BY <1>6, <1>7, <1>8 DEF n

LEMMA CallPopped ==
    ASSUME TypeOK, UNCHANGED commands, stack # <<>>, stack' = Below,
           NEW fr, fr = Top, fr.kind # "callback", NEW n, n = Len(stack)
    PROVE  /\ \A f \in Fn : f # fr.fn => FunctionHolders(f)' = FunctionHolders(f)
           /\ FunctionHolders(fr.fn)' = FunctionHolders(fr.fn) \ CallTokens(fr, n)
           /\ CallTokens(fr, n) \subseteq FunctionHolders(fr.fn)
           /\ \A c : Active(c)' = Active(c)
  <1>1. /\ DOMAIN stack = 1 .. n /\ DOMAIN stack' = 1 .. n - 1 /\ n \in Nat \ {0}
        /\ \A i \in 1 .. n - 1 : stack'[i] = stack[i]
        /\ stack[n] = fr
    BY TopFacts DEF Top
  <1>3. DOMAIN stack = DOMAIN stack' \cup {n} /\ n \notin DOMAIN stack'
    BY <1>1
  <1>4. \A f, x : x \in FunctionHolders(f) <=>
            \/ \E m \in Command : commands[m] = f /\ x = <<"command", m>>
            \/ \E i \in DOMAIN stack : /\ stack[i].kind # "callback" /\ stack[i].fn = f
                                       /\ x \in CallTokens(stack[i], i)
    BY HolderIs
  <1>5. \A f, x : x \in FunctionHolders(f)' <=>
            \/ \E m \in Command : commands[m] = f /\ x = <<"command", m>>
            \/ \E i \in DOMAIN stack' : /\ stack'[i].kind # "callback" /\ stack'[i].fn = f
                                        /\ x \in CallTokens(stack'[i], i)
    BY DEF FunctionHolders, CallTokens
  <1>6. \A f, x : x \in FunctionHolders(f) <=>
            x \in FunctionHolders(f)' \/ (f = fr.fn /\ x \in CallTokens(fr, n))
    BY <1>1, <1>3, <1>4, <1>5
  <1>7. ASSUME NEW x \in CallTokens(fr, n) PROVE x \notin FunctionHolders(fr.fn)'
    <2>1. x \in {<<"call", n>>, <<"temp", n>>}
      BY DEF CallTokens
    <2>2. \A i \in DOMAIN stack' : x \notin CallTokens(stack'[i], i)
      BY <1>3, <2>1 DEF CallTokens
    <2>3. \A m \in Command : x # <<"command", m>>
      BY <2>1
    <2> QED BY <1>5, <2>2, <2>3
  <1>8. \A c : Active(c)' = Active(c)
    BY <1>1, <1>3 DEF Active
  <1>9. \A f \in Fn : f # fr.fn => FunctionHolders(f)' = FunctionHolders(f)
    BY <1>6
  <1>10. /\ FunctionHolders(fr.fn)' = FunctionHolders(fr.fn) \ CallTokens(fr, n)
         /\ CallTokens(fr, n) \subseteq FunctionHolders(fr.fn)
    BY <1>6, <1>7
  <1> QED BY <1>8, <1>9, <1>10
-----------------------------------------------------------------------------
(* The holders of libraries and prototypes.                                *)

LEMMA LibHolderIs ==
    ASSUME NEW l, NEW x
    PROVE  x \in LibHolders(l) <=>
               \/ \E w \in Wrapper : wrappers[w] = l /\ x = <<"wrapper", w>>
               \/ \E f \in Functions : fnLib[f] = l /\ x = <<"function", f>>
  BY DEF LibHolders

LEMMA ProtoHolderIs ==
    ASSUME NEW p, NEW x
    PROVE  x \in ProtoHolders(p) <=>
               \/ p \in named /\ x = <<"name", p>>
               \/ \E f \in Functions : fnProto[f] = p /\ x = <<"function", f>>
               \/ \E c \in closures : cbProto[c] = p /\ x = <<"callback", c>>
               \/ \E s \in Slot : slotProto[s] = p /\ x = <<"slot", s>>
  BY DEF ProtoHolders

\* Functions, libraries and prototypes are objects of three kinds.
LEMMA Kinds3 ==
    /\ Lib \subseteq Object /\ Proto \subseteq Object /\ Fn \subseteq Object
    /\ \A o \in Fn : o \notin Lib /\ o \notin Proto
    /\ \A o \in Lib : o \notin Proto
    /\ None \notin Object /\ None \notin Callback
  BY LifetimesAssumption DEF Object

\* What CffiFunctionUnref does to the three kinds of counts.
LEMMA DropsAre ==
    ASSUME IInv, NEW f \in Fn, NEW D, D \subseteq FunctionHolders(f)
    PROVE  LET gone == FunctionHolders(f) = D
               drop == FunctionDrops(f, Cardinality(D))
           IN  /\ gone \in BOOLEAN
               /\ drop[f] = Cardinality(D)
               /\ \A g \in Fn : g # f => drop[g] = 0
               /\ \A l \in Lib : drop[l] = One(gone /\ l = fnLib[f])
               /\ \A p \in Proto : drop[p] = One(gone /\ p = fnProto[f])
  <1> DEFINE gone == FunctionHolders(f) = D
             n == Cardinality(D)
  <1>1. refs[f] <= n <=> gone
    <2>1. /\ Cardinality(D) <= Cardinality(FunctionHolders(f))
          /\ Cardinality(FunctionHolders(f)) = Cardinality(D) => FunctionHolders(f) = D
          /\ Cardinality(D) \in Nat /\ Cardinality(FunctionHolders(f)) \in Nat
      BY FS_Subset, FS_CardinalityType DEF IInv, Counted, CountedFns
    <2>2. refs[f] = Cardinality(FunctionHolders(f))
      BY DEF IInv, Counted, CountedFns
    <2> QED BY <2>1, <2>2
  <1>2. fnProto[f] \in Proto \cup {None} /\ fnLib[f] \in Lib \cup {None}
    BY DEF IInv, TypeOK
  <1> HIDE DEF gone, n
  <1>3. \A o \in Object : FunctionDrops(f, n)[o] =
            IF o = f THEN n ELSE One(gone /\ o \in {fnProto[f], fnLib[f]})
    BY <1>1, Kinds3 DEF FunctionDrops, One
  <1>4. FunctionDrops(f, n)[f] = n
    BY <1>3, Kinds3
  <1>5. \A g \in Fn : g # f => FunctionDrops(f, n)[g] = 0
    BY <1>2, <1>3, Kinds3 DEF One
  <1>6. \A l \in Lib : FunctionDrops(f, n)[l] = One(gone /\ l = fnLib[f])
    BY <1>2, <1>3, Kinds3 DEF One
  <1>7. \A p \in Proto : FunctionDrops(f, n)[p] = One(gone /\ p = fnProto[f])
    BY <1>2, <1>3, Kinds3 DEF One
  <1> QED BY <1>4, <1>5, <1>6, <1>7 DEF gone, n

\* A function loses references, and its prototype and library with the last one.
LEMMA FunctionReleased ==
    ASSUME IInv, NEW f \in Fn, NEW D, D \subseteq FunctionHolders(f),
           FunctionHolders(f)' = FunctionHolders(f) \ D, D # {},
           \A g \in Fn : g # f => FunctionHolders(g)' = FunctionHolders(g),
           Recount(Nothing, FunctionDrops(f, Cardinality(D))),
           UNCHANGED <<bindings, wrappers, named, closures>>
    PROVE  Counted' /\ Bound'
  <1> DEFINE gone == FunctionHolders(f) = D
             drop == FunctionDrops(f, Cardinality(D))
  <1>1. /\ gone \in BOOLEAN
        /\ drop[f] = Cardinality(D)
        /\ \A g \in Fn : g # f => drop[g] = 0
        /\ \A l \in Lib : drop[l] = One(gone /\ l = fnLib[f])
        /\ \A p \in Proto : drop[p] = One(gone /\ p = fnProto[f])
    BY DropsAre
  <1>2. f \in Functions
    BY DEF Functions
  <1>3. Functions' = IF gone THEN Functions \ {f} ELSE Functions
    BY DEF Functions
  <1>4. refs \in [Object -> Nat] /\ Recount(Nothing, drop) /\ \A o \in Object : Nothing[o] = 0
    BY NothingFacts DEF IInv, TypeOK
  <1>5. IsFiniteSet({}) /\ Cardinality({}) = 0
    BY FS_EmptySet
  <1>6. Counted
    BY DEF IInv
  <1> HIDE DEF gone, drop
  <1>7. CountedFns'
    <2> SUFFICES ASSUME NEW g \in Fn
                 PROVE  IsFiniteSet(FunctionHolders(g)') /\ refs'[g] = Cardinality(FunctionHolders(g)')
      BY DEF CountedFns
    <2>1. IsFiniteSet(FunctionHolders(g)) /\ refs[g] = Cardinality(FunctionHolders(g)) /\ g \in Object
      BY <1>6, Kinds3 DEF Counted, CountedFns
    <2>2. CASE g = f
      <3>1. FunctionHolders(g)' = (FunctionHolders(g) \cup {}) \ D
        BY <2>2
      <3> QED BY <1>1, <1>4, <1>5, <2>1, <2>2, <3>1, CountMoved
    <2>3. CASE g # f
      BY <1>1, <1>4, <2>1, <2>3, CountKept
    <2> QED BY <2>2, <2>3
  <1>8. CountedLibs'
    <2> SUFFICES ASSUME NEW l \in Lib
                 PROVE  IsFiniteSet(LibHolders(l)') /\ refs'[l] = Cardinality(LibHolders(l)')
      BY DEF CountedLibs
    <2> DEFINE tok == <<"function", f>>
               b == gone /\ l = fnLib[f]
    <2>1. IsFiniteSet(LibHolders(l)) /\ refs[l] = Cardinality(LibHolders(l)) /\ l \in Object
      BY <1>6, Kinds3 DEF Counted, CountedLibs
    <2>2. \A x : x \in LibHolders(l)' <=> x \in LibHolders(l) /\ ~(b /\ x = tok)
      BY <1>3 DEF LibHolders, bindings
    <2>3. b => tok \in LibHolders(l)
      BY <1>2, LibHolderIs
    <2>4. b \in BOOLEAN
      BY <1>1
    <2> HIDE DEF b, tok
    <2>5. IsFiniteSet(IF b THEN {tok} ELSE {}) /\ Cardinality(IF b THEN {tok} ELSE {}) = drop[l]
      BY <1>1, <2>4, OneToken DEF b
    <2>6. LibHolders(l)' = (LibHolders(l) \cup {}) \ (IF b THEN {tok} ELSE {})
      BY <2>2
    <2>7. (IF b THEN {tok} ELSE {}) \subseteq LibHolders(l)
      BY <2>3
    <2> QED BY <1>4, <1>5, <2>1, <2>5, <2>6, <2>7, CountMoved
  <1>9. CountedProtos'
    <2> SUFFICES ASSUME NEW p \in Proto
                 PROVE  IsFiniteSet(ProtoHolders(p)') /\ refs'[p] = Cardinality(ProtoHolders(p)')
      BY DEF CountedProtos
    <2> DEFINE tok == <<"function", f>>
               b == gone /\ p = fnProto[f]
    <2>1. IsFiniteSet(ProtoHolders(p)) /\ refs[p] = Cardinality(ProtoHolders(p)) /\ p \in Object
      BY <1>6, Kinds3 DEF Counted, CountedProtos
    <2>2. \A x : x \in ProtoHolders(p)' <=> x \in ProtoHolders(p) /\ ~(b /\ x = tok)
      BY <1>3 DEF ProtoHolders, bindings
    <2>3. b => tok \in ProtoHolders(p)
      BY <1>2, ProtoHolderIs
    <2>4. b \in BOOLEAN
      BY <1>1
    <2> HIDE DEF b, tok
    <2>5. IsFiniteSet(IF b THEN {tok} ELSE {}) /\ Cardinality(IF b THEN {tok} ELSE {}) = drop[p]
      BY <1>1, <2>4, OneToken DEF b
    <2>6. ProtoHolders(p)' = (ProtoHolders(p) \cup {}) \ (IF b THEN {tok} ELSE {})
      BY <2>2
    <2>7. (IF b THEN {tok} ELSE {}) \subseteq ProtoHolders(p)
      BY <2>3
    <2> QED BY <1>4, <1>5, <2>1, <2>5, <2>6, <2>7, CountMoved
  <1>10. Bound'
    BY <1>3 DEF IInv, Bound, bindings
  <1> QED BY <1>7, <1>8, <1>9, <1>10 DEF Counted
-----------------------------------------------------------------------------
(* Objects whose holders stay the same.                                    *)

LEMMA FnsKept ==
    ASSUME IInv, NEW gain, NEW drop, Recount(gain, drop),
           \A f \in Fn : gain[f] = 0 /\ drop[f] = 0 /\ FunctionHolders(f)' = FunctionHolders(f)
    PROVE  CountedFns'
  <1> SUFFICES ASSUME NEW f \in Fn
               PROVE  IsFiniteSet(FunctionHolders(f)') /\ refs'[f] = Cardinality(FunctionHolders(f)')
    BY DEF CountedFns
  <1>1. IsFiniteSet(FunctionHolders(f)) /\ refs[f] = Cardinality(FunctionHolders(f)) /\ f \in Object
    BY Kinds3 DEF IInv, Counted, CountedFns
  <1>2. refs'[f] = refs[f]
    BY <1>1, CountKept DEF IInv, TypeOK
  <1> QED BY <1>1, <1>2

LEMMA LibsKept ==
    ASSUME IInv, NEW gain, NEW drop, Recount(gain, drop),
           \A l \in Lib : gain[l] = 0 /\ drop[l] = 0 /\ LibHolders(l)' = LibHolders(l)
    PROVE  CountedLibs'
  <1> SUFFICES ASSUME NEW l \in Lib
               PROVE  IsFiniteSet(LibHolders(l)') /\ refs'[l] = Cardinality(LibHolders(l)')
    BY DEF CountedLibs
  <1>1. IsFiniteSet(LibHolders(l)) /\ refs[l] = Cardinality(LibHolders(l)) /\ l \in Object
    BY Kinds3 DEF IInv, Counted, CountedLibs
  <1>2. refs'[l] = refs[l]
    BY <1>1, CountKept DEF IInv, TypeOK
  <1> QED BY <1>1, <1>2

LEMMA ProtosKept ==
    ASSUME IInv, NEW gain, NEW drop, Recount(gain, drop),
           \A p \in Proto : gain[p] = 0 /\ drop[p] = 0 /\ ProtoHolders(p)' = ProtoHolders(p)
    PROVE  CountedProtos'
  <1> SUFFICES ASSUME NEW p \in Proto
               PROVE  IsFiniteSet(ProtoHolders(p)') /\ refs'[p] = Cardinality(ProtoHolders(p)')
    BY DEF CountedProtos
  <1>1. IsFiniteSet(ProtoHolders(p)) /\ refs[p] = Cardinality(ProtoHolders(p)) /\ p \in Object
    BY Kinds3 DEF IInv, Counted, CountedProtos
  <1>2. refs'[p] = refs[p]
    BY <1>1, CountKept DEF IInv, TypeOK
  <1> QED BY <1>1, <1>2

\* A prototype gets the tokens G and loses the tokens D.
LEMMA ProtosMoved ==
    ASSUME IInv, NEW gain, NEW drop, Recount(gain, drop),
           NEW G, NEW D,
           \A p \in Proto : /\ IsFiniteSet(G[p]) /\ gain[p] = Cardinality(G[p])
                            /\ G[p] \cap ProtoHolders(p) = {}
                            /\ D[p] \subseteq ProtoHolders(p) /\ drop[p] = Cardinality(D[p])
                            /\ ProtoHolders(p)' = (ProtoHolders(p) \cup G[p]) \ D[p]
    PROVE  CountedProtos'
  <1> SUFFICES ASSUME NEW p \in Proto
               PROVE  IsFiniteSet(ProtoHolders(p)') /\ refs'[p] = Cardinality(ProtoHolders(p)')
    BY DEF CountedProtos
  <1>1. IsFiniteSet(ProtoHolders(p)) /\ refs[p] = Cardinality(ProtoHolders(p)) /\ p \in Object
    BY Kinds3 DEF IInv, Counted, CountedProtos
  <1>2. refs \in [Object -> Nat]
    BY DEF IInv, TypeOK
  <1> QED BY <1>1, <1>2, CountMoved

LEMMA LibsMoved ==
    ASSUME IInv, NEW gain, NEW drop, Recount(gain, drop),
           NEW G, NEW D,
           \A l \in Lib : /\ IsFiniteSet(G[l]) /\ gain[l] = Cardinality(G[l])
                          /\ G[l] \cap LibHolders(l) = {}
                          /\ D[l] \subseteq LibHolders(l) /\ drop[l] = Cardinality(D[l])
                          /\ LibHolders(l)' = (LibHolders(l) \cup G[l]) \ D[l]
    PROVE  CountedLibs'
  <1> SUFFICES ASSUME NEW l \in Lib
               PROVE  IsFiniteSet(LibHolders(l)') /\ refs'[l] = Cardinality(LibHolders(l)')
    BY DEF CountedLibs
  <1>1. IsFiniteSet(LibHolders(l)) /\ refs[l] = Cardinality(LibHolders(l)) /\ l \in Object
    BY Kinds3 DEF IInv, Counted, CountedLibs
  <1>2. refs \in [Object -> Nat]
    BY DEF IInv, TypeOK
  <1> QED BY <1>1, <1>2, CountMoved

-----------------------------------------------------------------------------
(* Libraries.                                                              *)

WrapperSet(w, old, new) ==
    /\ new \in Lib \cup {None} /\ old = wrappers[w] /\ new # old
    /\ wrappers' = [wrappers EXCEPT ![w] = new]

LEMMA WrapperRebound ==
    ASSUME IInv, NEW w \in Wrapper, NEW old, NEW new, WrapperSet(w, old, new),
           NEW gain, NEW drop, Recount(gain, drop),
           \A o \in Object : gain[o] = One(o = new) /\ drop[o] = One(o = old),
           UNCHANGED <<bindings, commands, named, closures, stack>>
    PROVE  Counted' /\ Bound'
  <1>1. /\ \A f : FunctionHolders(f)' = FunctionHolders(f)
        /\ Functions' = Functions
    BY HoldersKept
  <1>2. /\ old \in Lib \cup {None} /\ old = wrappers[w] /\ new \in Lib \cup {None} /\ new # old
        /\ \A v \in Wrapper : wrappers'[v] = IF v = w THEN new ELSE wrappers[v]
    BY DEF IInv, TypeOK, WrapperSet
  <1>3. CountedFns'
    <2>1. \A f \in Fn : gain[f] = 0 /\ drop[f] = 0
      BY <1>2, Kinds3 DEF One
    <2> QED BY <1>1, <2>1, FnsKept
  <1>4. CountedProtos'
    <2>1. \A p \in Proto : gain[p] = 0 /\ drop[p] = 0
      BY <1>2, Kinds3 DEF One
    <2>2. \A p \in Proto : ProtoHolders(p)' = ProtoHolders(p)
      BY <1>1 DEF ProtoHolders, bindings
    <2> QED BY <2>1, <2>2, ProtosKept
  <1>5. CountedLibs'
    <2> DEFINE tok == <<"wrapper", w>>
               G == [l \in Lib |-> IF l = new THEN {tok} ELSE {}]
               D == [l \in Lib |-> IF l = old THEN {tok} ELSE {}]
    <2>1. ASSUME NEW l, NEW x
          PROVE  x \in LibHolders(l)' <=>
                    \/ \E v \in Wrapper : wrappers'[v] = l /\ x = <<"wrapper", v>>
                    \/ \E f \in Functions : fnLib[f] = l /\ x = <<"function", f>>
      BY <1>1 DEF LibHolders, bindings
    <2>2. ASSUME NEW l, NEW x
          PROVE  x \in LibHolders(l)' <=>
                    \/ x \in LibHolders(l) /\ x # tok
                    \/ x = tok /\ l = new
      <3>1. CASE x = tok
        BY <1>2, <2>1, <3>1
      <3>2. CASE x # tok
        BY <1>2, <2>1, <3>2, LibHolderIs
      <3> QED BY <3>1, <3>2
    <2>3. ASSUME NEW l PROVE tok \in LibHolders(l) <=> l = old
      BY <1>2, LibHolderIs
    <2> HIDE DEF tok
    <2>4. \A l \in Lib : /\ IsFiniteSet(G[l]) /\ gain[l] = Cardinality(G[l])
                         /\ drop[l] = Cardinality(D[l])
      BY Kinds3, OneToken
    <2>5. \A l \in Lib : /\ G[l] \cap LibHolders(l) = {}
                         /\ D[l] \subseteq LibHolders(l)
      BY <1>2, <2>3
    <2>6. ASSUME NEW l \in Lib PROVE LibHolders(l)' = (LibHolders(l) \cup G[l]) \ D[l]
      BY <1>2, <2>2, <2>3
    <2>7. \A l \in Lib : LibHolders(l)' = (LibHolders(l) \cup G[l]) \ D[l]
      BY <2>6
    <2> HIDE DEF G, D
    <2> QED BY <2>4, <2>5, <2>7, LibsMoved
  <1>6. Bound'
    BY <1>1 DEF IInv, Bound, bindings
  <1> QED BY <1>3, <1>4, <1>5, <1>6 DEF Counted

\* A function f is made, and another, g, may be freed.
FunctionSet(f, p, lib, g) ==
    /\ p \in Proto /\ lib \in Lib \cup {None} /\ (g # None => g \in Functions)
    /\ Functions' = (Functions \cup {f}) \ (IF g = None THEN {} ELSE {g})
    /\ fnProto' = [fnProto EXCEPT ![f] = p]
    /\ fnLib' = [fnLib EXCEPT ![f] = lib]

LEMMA FunctionMade ==
    ASSUME IInv, NEW f \in Fn, FunctionHolders(f) = {}, NEW p, NEW lib, NEW g,
           FunctionSet(f, p, lib, g),
           NEW gain, NEW drop, Recount(gain, drop),
           \A l \in Lib : gain[l] = One(l = lib) /\ drop[l] = One(g # None /\ l = fnLib[g]),
           \A q \in Proto : gain[q] = One(q = p) /\ drop[q] = One(g # None /\ q = fnProto[g]),
           UNCHANGED <<cbProto, slotProto, wrappers, named, closures>>
    PROVE  CountedLibs' /\ CountedProtos' /\ Bound'
  <1> DEFINE gone == g # None
  <1>0. /\ p \in Proto /\ lib \in Lib \cup {None} /\ gone \in BOOLEAN /\ (gone => g \in Functions)
        /\ Functions' = (Functions \cup {f}) \ (IF gone THEN {g} ELSE {})
        /\ fnProto' = [fnProto EXCEPT ![f] = p]
        /\ fnLib' = [fnLib EXCEPT ![f] = lib]
    BY DEF FunctionSet, Functions
  <1> HIDE DEF gone
  <1>1. f \notin Functions /\ (gone => g # f)
    BY <1>0 DEF Functions
  <1>2. /\ \A h \in Fn : fnProto'[h] = IF h = f THEN p ELSE fnProto[h]
        /\ \A h \in Fn : fnLib'[h] = IF h = f THEN lib ELSE fnLib[h]
        /\ Functions \subseteq Fn
    BY <1>0 DEF IInv, TypeOK, Functions
  <1> DEFINE new == <<"function", f>>
             old == <<"function", g>>
  <1>3. new # old \/ ~gone
    BY <1>1
  <1>4. CountedLibs'
    <2> DEFINE G == [l \in Lib |-> IF l = lib THEN {new} ELSE {}]
               D == [l \in Lib |-> IF gone /\ l = fnLib[g] THEN {old} ELSE {}]
    <2>1. ASSUME NEW l, NEW x
          PROVE  x \in LibHolders(l)' <=>
                    \/ \E v \in Wrapper : wrappers[v] = l /\ x = <<"wrapper", v>>
                    \/ \E h \in Functions' : fnLib'[h] = l /\ x = <<"function", h>>
      BY DEF LibHolders
    <2>2. ASSUME NEW l, NEW h
          PROVE  /\ <<"function", h>> \in LibHolders(l) <=> h \in Functions /\ fnLib[h] = l
                 /\ <<"function", h>> \in LibHolders(l)' <=> h \in Functions' /\ fnLib'[h] = l
      BY <2>1, LibHolderIs
    <2>3. ASSUME NEW l, NEW x, \A h : x # <<"function", h>>
          PROVE  x \in LibHolders(l)' <=> x \in LibHolders(l)
      BY <2>1, <2>3, LibHolderIs
    <2>4. ASSUME NEW l, NEW x
          PROVE  x \in LibHolders(l)' <=>
                    \/ x \in LibHolders(l) /\ ~(gone /\ x = old)
                    \/ x = new /\ l = lib
      <3>1. CASE \E h : x = <<"function", h>>
        <4>1. PICK h : x = <<"function", h>>
          BY <3>1
        <4>2. (x = new <=> h = f) /\ (x = old <=> h = g)
          BY <4>1
        <4>3. h \in Functions' <=> (h \in Functions /\ ~(gone /\ h = g)) \/ h = f
          BY <1>0, <1>1
        <4> HIDE DEF new, old
        <4> QED BY <1>1, <1>2, <2>2, <4>1, <4>2, <4>3
      <3>2. CASE \A h : x # <<"function", h>>
        BY <2>3, <3>2
      <3> QED BY <3>1, <3>2
    <2>5. ASSUME NEW l
          PROVE  /\ new \notin LibHolders(l)
                 /\ gone => (old \in LibHolders(l) <=> l = fnLib[g])
      BY <1>0, <1>1, <2>2
    <2> HIDE DEF new, old
    <2>6. \A l \in Lib : /\ IsFiniteSet(G[l]) /\ gain[l] = Cardinality(G[l])
                         /\ drop[l] = Cardinality(D[l])
      BY <1>0, OneToken DEF gone
    <2>7. \A l \in Lib : /\ G[l] \cap LibHolders(l) = {}
                         /\ D[l] \subseteq LibHolders(l)
      BY <2>5
    <2>8. ASSUME NEW l \in Lib PROVE LibHolders(l)' = (LibHolders(l) \cup G[l]) \ D[l]
      BY <1>3, <2>4, <2>5
    <2>9. \A l \in Lib : LibHolders(l)' = (LibHolders(l) \cup G[l]) \ D[l]
      BY <2>8
    <2> HIDE DEF G, D
    <2> QED BY <2>6, <2>7, <2>9, LibsMoved
  <1>5. CountedProtos'
    <2> DEFINE G == [q \in Proto |-> IF q = p THEN {new} ELSE {}]
               D == [q \in Proto |-> IF gone /\ q = fnProto[g] THEN {old} ELSE {}]
    <2>1. ASSUME NEW q, NEW x
          PROVE  x \in ProtoHolders(q)' <=>
                    \/ q \in named /\ x = <<"name", q>>
                    \/ \E h \in Functions' : fnProto'[h] = q /\ x = <<"function", h>>
                    \/ \E c \in closures : cbProto[c] = q /\ x = <<"callback", c>>
                    \/ \E s \in Slot : slotProto[s] = q /\ x = <<"slot", s>>
      BY DEF ProtoHolders
    <2>2. ASSUME NEW q, NEW h
          PROVE  /\ <<"function", h>> \in ProtoHolders(q) <=> h \in Functions /\ fnProto[h] = q
                 /\ <<"function", h>> \in ProtoHolders(q)' <=> h \in Functions' /\ fnProto'[h] = q
      BY <2>1, ProtoHolderIs
    <2>3. ASSUME NEW q, NEW x, \A h : x # <<"function", h>>
          PROVE  x \in ProtoHolders(q)' <=> x \in ProtoHolders(q)
      BY <2>1, <2>3, ProtoHolderIs
    <2>4. ASSUME NEW q, NEW x
          PROVE  x \in ProtoHolders(q)' <=>
                    \/ x \in ProtoHolders(q) /\ ~(gone /\ x = old)
                    \/ x = new /\ q = p
      <3>1. CASE \E h : x = <<"function", h>>
        <4>1. PICK h : x = <<"function", h>>
          BY <3>1
        <4>2. (x = new <=> h = f) /\ (x = old <=> h = g)
          BY <4>1
        <4>3. h \in Functions' <=> (h \in Functions /\ ~(gone /\ h = g)) \/ h = f
          BY <1>0, <1>1
        <4> HIDE DEF new, old
        <4> QED BY <1>1, <1>2, <2>2, <4>1, <4>2, <4>3
      <3>2. CASE \A h : x # <<"function", h>>
        BY <2>3, <3>2
      <3> QED BY <3>1, <3>2
    <2>5. ASSUME NEW q
          PROVE  /\ new \notin ProtoHolders(q)
                 /\ gone => (old \in ProtoHolders(q) <=> q = fnProto[g])
      BY <1>0, <1>1, <2>2
    <2> HIDE DEF new, old
    <2>6. \A q \in Proto : /\ IsFiniteSet(G[q]) /\ gain[q] = Cardinality(G[q])
                           /\ drop[q] = Cardinality(D[q])
      BY <1>0, OneToken DEF gone
    <2>7. \A q \in Proto : /\ G[q] \cap ProtoHolders(q) = {}
                           /\ D[q] \subseteq ProtoHolders(q)
      BY <2>5
    <2>8. ASSUME NEW q \in Proto PROVE ProtoHolders(q)' = (ProtoHolders(q) \cup G[q]) \ D[q]
      BY <1>3, <2>4, <2>5
    <2>9. \A q \in Proto : ProtoHolders(q)' = (ProtoHolders(q) \cup G[q]) \ D[q]
      BY <2>8
    <2> HIDE DEF G, D
    <2> QED BY <2>6, <2>7, <2>9, ProtosMoved
  <1>6. Bound'
    BY <1>0, <1>1, <1>2 DEF IInv, Bound
  <1> QED BY <1>4, <1>5, <1>6

LEMMA EachFacts == \A S : \A o \in Object : Each(S)[o] = One(o \in S)
  BY DEF Each

LEMMA WrapperSteps ==
    ASSUME IInv, NEW w \in Wrapper,
           WrapperDestroy(w) \/ \E l \in Lib : WrapperCreate(w, l)
    PROVE  Counted' /\ Bound'
  <1>1. CASE WrapperDestroy(w)
    <2> PICK old, gain, drop : old = wrappers[w] /\ gain = Nothing /\ drop = Each({old})
      OBVIOUS
    <2>1. \A o \in Object : gain[o] = One(o = None) /\ drop[o] = One(o = old)
      BY EachFacts, NothingFacts, Kinds3 DEF One
    <2>2. /\ Recount(gain, drop) /\ WrapperSet(w, old, None)
          /\ UNCHANGED <<bindings, commands, named, closures, stack>>
      BY <1>1 DEF WrapperDestroy, WrapperSet
    <2> QED BY <2>1, <2>2, WrapperRebound
  <1>2. ASSUME NEW l \in Lib, WrapperCreate(w, l) PROVE Counted' /\ Bound'
    <2> PICK old, gain, drop : old = wrappers[w] /\ gain = Each({l}) /\ drop = Each({old})
      OBVIOUS
    <2>1. \A o \in Object : gain[o] = One(o = l) /\ drop[o] = One(o = old)
      BY EachFacts
    <2>2. l # old
      <3>1. LibHolders(l) = {}
        BY <1>2, UnusedHeldByNone DEF IInv, WrapperCreate
      <3> QED BY <3>1, LibHolderIs
    <2>3. /\ Recount(gain, drop) /\ WrapperSet(w, old, l)
          /\ UNCHANGED <<bindings, commands, named, closures, stack>>
      BY <1>2, <2>2 DEF WrapperCreate, WrapperSet
    <2> QED BY <2>1, <2>3, WrapperRebound
  <1> QED BY <1>1, <1>2

-----------------------------------------------------------------------------
(* Functions.                                                              *)

LEMMA FunctionDeleted ==
    ASSUME IInv, NEW n \in Command, FunctionDelete(n)
    PROVE  Counted' /\ Bound'
  <1> DEFINE D == {<<"command", n>>}
  <1> PICK f : f = commands[n]
    OBVIOUS
  <1>1. f \in Fn /\ UNCHANGED <<bindings, wrappers, named, closures, stack>>
    BY DEF IInv, TypeOK, FunctionDelete
  <1>2. CommandSet(n, f, None) /\ None \notin Fn
    BY Kinds3 DEF FunctionDelete, CommandSet
  <1>3. /\ \A g \in Fn : g # f => FunctionHolders(g)' = FunctionHolders(g)
        /\ FunctionHolders(f)' = FunctionHolders(f) \ D
        /\ D \subseteq FunctionHolders(f)
    BY <1>1, <1>2, CommandRebound DEF IInv
  <1>4. Cardinality(D) = 1 /\ D # {}
    BY FS_Singleton
  <1>5. Recount(Nothing, FunctionDrops(f, Cardinality(D)))
    BY <1>4 DEF FunctionDelete
  <1> HIDE DEF D
  <1> QED BY <1>1, <1>3, <1>4, <1>5, FunctionReleased

LEMMA FunctionReturned ==
    ASSUME IInv, FunctionReturn
    PROVE  Counted' /\ Bound'
  <1>1. PICK fr, n : fr = Top /\ n = Len(stack)
    OBVIOUS
  <1>2. /\ stack # <<>> /\ fr.kind # "callback" /\ stack' = Below
        /\ Recount(Nothing, FunctionDrops(fr.fn, IF fr.temp THEN 2 ELSE 1))
        /\ UNCHANGED <<bindings, wrappers, commands, named, closures>>
    BY <1>1 DEF FunctionReturn
  <1>3. fr.fn \in Fn /\ fr.temp \in BOOLEAN
    BY <1>1, <1>2, TopFacts DEF IInv
  <1> DEFINE D == CallTokens(fr, n)
  <1>4. /\ \A f \in Fn : f # fr.fn => FunctionHolders(f)' = FunctionHolders(f)
        /\ FunctionHolders(fr.fn)' = FunctionHolders(fr.fn) \ D
        /\ D \subseteq FunctionHolders(fr.fn)
    BY <1>1, <1>2, CallPopped DEF IInv
  <1>5. Cardinality(D) = IF fr.temp THEN 2 ELSE 1
    BY <1>3, CallTokensCounted
  <1>6. D # {}
    BY DEF CallTokens
  <1> HIDE DEF D
  <1> QED BY <1>2, <1>3, <1>4, <1>5, <1>6, FunctionReleased

\* The holders of libraries and prototypes do not change with the number of
\* references to a function that has some.
LEMMA BindingsKept ==
    ASSUME Functions' = Functions, UNCHANGED <<bindings, wrappers, named, closures>>
    PROVE  /\ \A l : LibHolders(l)' = LibHolders(l)
           /\ \A p : ProtoHolders(p)' = ProtoHolders(p)
           /\ Bound => Bound'
  BY DEF LibHolders, ProtoHolders, Bound, bindings

LEMMA FunctionCalled ==
    ASSUME IInv, NEW n \in Command, FunctionCall(n)
    PROVE  Counted' /\ Bound'
  <1> DEFINE fr == [kind |-> "call", fn |-> commands[n], temp |-> FALSE]
             G == CallTokens(fr, Len(stack) + 1)
             gain == Each({commands[n]})
  <1>1. /\ commands[n] \in Fn /\ Recount(gain, Nothing) /\ stack' = Append(stack, fr)
        /\ UNCHANGED <<bindings, wrappers, commands, named, closures>>
    BY DEF IInv, TypeOK, FunctionCall
  <1>2. PICK f \in Fn : f = commands[n]
    BY <1>1
  <1>3. fr \in CallFrame /\ fr.fn = f /\ fr.temp = FALSE /\ fr.temp \in BOOLEAN
    BY <1>2 DEF CallFrame
  <1>4. \A o \in Object : gain[o] = One(o = f) /\ Nothing[o] = 0
    BY <1>2, EachFacts, NothingFacts
  <1> HIDE DEF fr, gain
  <1>5. /\ \A g \in Fn : g # f => FunctionHolders(g)' = FunctionHolders(g)
        /\ FunctionHolders(f)' = FunctionHolders(f) \cup G
        /\ G \cap FunctionHolders(f) = {}
    BY <1>1, <1>3, CallPushed DEF IInv
  <1>6. IsFiniteSet(G) /\ Cardinality(G) = 1
    BY <1>3, CallTokensCounted
  <1> HIDE DEF G
  <1>7. Functions' = Functions
    <2>1. <<"command", n>> \in FunctionHolders(f)
      BY <1>2, HolderIs
    <2> QED BY <1>5, <2>1 DEF Functions
  <1>8. CountedFns'
    <2> SUFFICES ASSUME NEW g \in Fn
                 PROVE  IsFiniteSet(FunctionHolders(g)') /\ refs'[g] = Cardinality(FunctionHolders(g)')
      BY DEF CountedFns
    <2>1. /\ IsFiniteSet(FunctionHolders(g)) /\ refs[g] = Cardinality(FunctionHolders(g))
          /\ g \in Object /\ refs \in [Object -> Nat]
      BY Kinds3 DEF IInv, Counted, CountedFns, TypeOK
    <2>2. CASE g = f
      <3>1. IsFiniteSet({}) /\ Cardinality({}) = 0
        BY FS_EmptySet
      <3>2. FunctionHolders(g)' = (FunctionHolders(g) \cup G) \ {}
        BY <1>5, <2>2
      <3>3. gain[g] = Cardinality(G) /\ Nothing[g] = 0 /\ G \cap FunctionHolders(g) = {}
        BY <1>4, <1>5, <1>6, <2>1, <2>2 DEF One
      <3> QED BY <1>1, <1>6, <2>1, <3>1, <3>2, <3>3, CountMoved
    <2>3. CASE g # f
      BY <1>1, <1>4, <1>5, <2>1, <2>3, CountKept DEF One
    <2> QED BY <2>2, <2>3
  <1>9. /\ \A l \in Lib : gain[l] = 0 /\ Nothing[l] = 0
        /\ \A p \in Proto : gain[p] = 0 /\ Nothing[p] = 0
    BY <1>4, Kinds3 DEF One
  <1>10. /\ \A l \in Lib : LibHolders(l)' = LibHolders(l)
         /\ \A p \in Proto : ProtoHolders(p)' = ProtoHolders(p)
         /\ Bound'
    BY <1>1, <1>7, BindingsKept DEF IInv
  <1>11. CountedLibs'
    BY <1>1, <1>9, <1>10, LibsKept
  <1>12. CountedProtos'
    BY <1>1, <1>9, <1>10, ProtosKept
  <1> QED BY <1>8, <1>10, <1>11, <1>12 DEF Counted

\* A function with no references is held by nothing.
LEMMA FunctionMadeNew ==
    ASSUME IInv, NEW f \in Fn, refs[f] = 0
    PROVE  /\ FunctionHolders(f) = {} /\ f \notin Functions
           /\ \A n \in Command : commands[n] # f
  <1>1. FunctionHolders(f) = {}
    BY UnusedHeldByNone DEF IInv
  <1> QED BY <1>1, HolderIs DEF Functions

LEMMA ProtoCalled ==
    ASSUME IInv, NEW f \in Fn, NEW p \in Proto, CallProto(f, p)
    PROVE  Counted' /\ Bound'
  <1>0. PICK fr, gain, drop : /\ fr = [kind |-> "call", fn |-> f, temp |-> TRUE]
                              /\ gain = [Each({p}) EXCEPT ![f] = 2]
                              /\ drop = Nothing
    OBVIOUS
  <1>1. /\ refs[f] = 0 /\ Recount(gain, drop) /\ stack' = Append(stack, fr)
        /\ fnProto' = [fnProto EXCEPT ![f] = p] /\ fnLib' = [fnLib EXCEPT ![f] = None]
        /\ UNCHANGED <<cbProto, slotProto, wrappers, commands, named, closures>>
    BY <1>0 DEF CallProto
  <1>2. fr \in CallFrame /\ fr.fn = f /\ fr.temp = TRUE /\ fr.temp \in BOOLEAN
    BY <1>0 DEF CallFrame
  <1>3. \A o \in Object : /\ gain[o] = IF o = f THEN 2 ELSE One(o = p)
                          /\ drop[o] = 0
    BY <1>0, EachTyped, EachFacts, NothingFacts
  <1>4. FunctionHolders(f) = {}
    BY <1>1, FunctionMadeNew
  <1> DEFINE G == CallTokens(fr, Len(stack) + 1)
  <1>5. /\ \A g \in Fn : g # f => FunctionHolders(g)' = FunctionHolders(g)
        /\ FunctionHolders(f)' = FunctionHolders(f) \cup G
    BY <1>1, <1>2, CallPushed DEF IInv
  <1>6. IsFiniteSet(G) /\ Cardinality(G) = 2 /\ G # {}
    <2>1. IsFiniteSet(G) /\ Cardinality(G) = 2
      BY <1>2, CallTokensCounted
    <2> HIDE DEF G
    <2> QED BY <2>1, FS_EmptySet
  <1> HIDE DEF G
  <1>7. FunctionSet(f, p, None, None)
    <2>1. Functions' = (Functions \cup {f}) \ {}
      BY <1>4, <1>5, <1>6 DEF Functions
    <2> QED BY <1>1, <2>1 DEF FunctionSet
  <1>8. /\ \A l \in Lib : gain[l] = One(l = None) /\ drop[l] = One(None # None /\ l = fnLib[None])
        /\ \A q \in Proto : gain[q] = One(q = p) /\ drop[q] = One(None # None /\ q = fnProto[None])
    BY <1>3, Kinds3 DEF One
  <1>9. CountedLibs' /\ CountedProtos' /\ Bound'
    BY <1>1, <1>4, <1>7, <1>8, FunctionMade
  <1>10. CountedFns'
    <2> SUFFICES ASSUME NEW g \in Fn
                 PROVE  IsFiniteSet(FunctionHolders(g)') /\ refs'[g] = Cardinality(FunctionHolders(g)')
      BY DEF CountedFns
    <2>1. /\ IsFiniteSet(FunctionHolders(g)) /\ refs[g] = Cardinality(FunctionHolders(g))
          /\ g \in Object /\ refs \in [Object -> Nat] /\ Recount(gain, drop)
      BY <1>1, Kinds3 DEF IInv, Counted, CountedFns, TypeOK
    <2>2. CASE g = f
      <3>1. IsFiniteSet({}) /\ Cardinality({}) = 0
        BY FS_EmptySet
      <3>2. FunctionHolders(g)' = (FunctionHolders(g) \cup G) \ {}
        BY <1>5, <2>2
      <3>3. /\ gain[g] = Cardinality(G) /\ drop[g] = Cardinality({})
            /\ G \cap FunctionHolders(g) = {} /\ {} \subseteq FunctionHolders(g)
        BY <1>3, <1>4, <1>6, <2>1, <2>2, <3>1
      <3> QED BY <1>6, <2>1, <3>1, <3>2, <3>3, CountMoved
    <2>3. CASE g # f
      <3>1. gain[g] = 0 /\ drop[g] = 0
        BY <1>3, <2>1, <2>3, Kinds3 DEF One
      <3> QED BY <1>1, <1>5, <2>1, <2>3, <3>1, CountKept
    <2> QED BY <2>2, <2>3
  <1> QED BY <1>9, <1>10 DEF Counted

LEMMA FunctionDefined ==
    ASSUME IInv, NEW w \in Wrapper, NEW n \in Command, NEW f \in Fn, NEW p \in Proto,
           DefineFunction(w, n, f, p)
    PROVE  Counted' /\ Bound'
  <1>0. PICK old, lib, gain, drop, D :
          /\ old = commands[n] /\ lib = wrappers[w] /\ D = {<<"command", n>>}
          /\ gain = Each({f, p, wrappers[w]}) /\ drop = FunctionDrops(commands[n], 1)
    OBVIOUS
  <1>1. /\ refs[f] = 0 /\ refs[p] = 0 /\ Recount(gain, drop) /\ lib # None
        /\ fnProto' = [fnProto EXCEPT ![f] = p] /\ fnLib' = [fnLib EXCEPT ![f] = lib]
        /\ commands' = [commands EXCEPT ![n] = f]
        /\ UNCHANGED <<cbProto, slotProto, wrappers, named, closures, stack>>
    BY <1>0 DEF DefineFunction
  <1>2. /\ lib \in Lib /\ old \in Fn \cup {None} /\ refs \in [Object -> Nat]
        /\ None \notin Object /\ Fn \subseteq Object
    BY <1>0, <1>1, Kinds3 DEF IInv, TypeOK
  <1>3. FunctionHolders(f) = {} /\ f \notin Functions /\ f # old
    BY <1>0, <1>1, FunctionMadeNew
  <1>4. CommandSet(n, old, f)
    BY <1>0, <1>1, <1>3 DEF CommandSet
  <1>5. /\ \A g \in Fn : g # f /\ g # old => FunctionHolders(g)' = FunctionHolders(g)
        /\ FunctionHolders(f)' = FunctionHolders(f) \cup D
        /\ old \in Fn => /\ FunctionHolders(old)' = FunctionHolders(old) \ D
                         /\ D \subseteq FunctionHolders(old)
    BY <1>0, <1>1, <1>4, CommandRebound DEF IInv
  <1>6. IsFiniteSet(D) /\ Cardinality(D) = 1 /\ D # {}
    BY <1>0, FS_Singleton
  <1>7. PICK g : g = IF old # None /\ FunctionHolders(old) = D THEN old ELSE None
    OBVIOUS
  <1>8. \A o \in Object : gain[o] = One(o \in {f, p, lib})
    BY <1>0, EachFacts
  <1>9. /\ old \in Fn => drop[old] = 1
        /\ \A h \in Fn : h # old => drop[h] = 0
        /\ \A l \in Lib : drop[l] = One(g # None /\ l = fnLib[g])
        /\ \A q \in Proto : drop[q] = One(g # None /\ q = fnProto[g])
    <2>1. CASE old = None
      <3>1. drop = Nothing /\ g = None /\ old \notin Fn
        BY <1>0, <1>2, <1>7, <2>1 DEF FunctionDrops
      <3> QED BY <3>1, NothingFacts, Kinds3 DEF One
    <2>2. CASE old # None
      <3>1. old \in Fn
        BY <1>2, <2>2
      <3>2. drop = FunctionDrops(old, Cardinality(D)) /\ D \subseteq FunctionHolders(old)
        BY <1>0, <1>5, <1>6, <3>1
      <3>3. /\ drop[old] = Cardinality(D)
            /\ \A h \in Fn : h # old => drop[h] = 0
            /\ \A l \in Lib : drop[l] = One(FunctionHolders(old) = D /\ l = fnLib[old])
            /\ \A q \in Proto : drop[q] = One(FunctionHolders(old) = D /\ q = fnProto[old])
        BY <3>1, <3>2, DropsAre
      <3>4. g # None <=> FunctionHolders(old) = D
        BY <1>7, <2>2
      <3>5. g # None => g = old
        BY <1>7
      <3> QED BY <1>6, <3>3, <3>4, <3>5 DEF One
    <2> QED BY <2>1, <2>2
  <1>10. /\ \A l \in Lib : gain[l] = One(l = lib)
         /\ \A q \in Proto : gain[q] = One(q = p)
    BY <1>2, <1>8, Kinds3
  <1>11. FunctionSet(f, p, lib, g)
    <2>1. g # None => g \in Functions
      BY <1>2, <1>6, <1>7 DEF Functions
    <2>2. ASSUME NEW h \in Fn
          PROVE  h \in Functions' <=> (h \in Functions \/ h = f) /\ ~(g # None /\ h = g)
      <3>1. h \in Functions' <=> FunctionHolders(h)' # {}
        BY DEF Functions
      <3>2. h \in Functions <=> FunctionHolders(h) # {}
        BY DEF Functions
      <3>3. CASE h = f
        BY <1>3, <1>5, <1>6, <1>7, <3>1, <3>3
      <3>4. CASE h # f /\ h # old
        BY <1>5, <1>7, <3>1, <3>2, <3>4
      <3>5. CASE h = old /\ h # f
        BY <1>2, <1>5, <1>6, <1>7, <3>1, <3>2, <3>5
      <3> QED BY <3>3, <3>4, <3>5
    <2>3. Functions' \subseteq Fn /\ Functions \subseteq Fn
      BY DEF Functions
    <2>4. Functions' = (Functions \cup {f}) \ (IF g = None THEN {} ELSE {g})
      BY <2>2, <2>3
    <2> QED BY <1>1, <1>2, <2>1, <2>4 DEF FunctionSet
  <1>12. CountedLibs' /\ CountedProtos' /\ Bound'
    BY <1>1, <1>3, <1>9, <1>10, <1>11, FunctionMade
  <1>13. CountedFns'
    <2> SUFFICES ASSUME NEW h \in Fn
                 PROVE  IsFiniteSet(FunctionHolders(h)') /\ refs'[h] = Cardinality(FunctionHolders(h)')
      BY DEF CountedFns
    <2>1. /\ IsFiniteSet(FunctionHolders(h)) /\ refs[h] = Cardinality(FunctionHolders(h))
          /\ h \in Object
      BY Kinds3 DEF IInv, Counted, CountedFns
    <2>2. IsFiniteSet({}) /\ Cardinality({}) = 0
      BY FS_EmptySet
    <2>3. gain[h] = One(h = f)
      <3>1. h \in {f, p, lib} <=> h = f
        BY <1>2, Kinds3
      <3> QED BY <1>8, <2>1, <3>1 DEF One
    <2>4. CASE h = f
      <3>1. FunctionHolders(h)' = (FunctionHolders(h) \cup D) \ {}
        BY <1>5, <2>4
      <3>2. gain[h] = Cardinality(D) /\ drop[h] = Cardinality({}) /\ D \cap FunctionHolders(h) = {}
        BY <1>3, <1>6, <1>9, <2>2, <2>3, <2>4 DEF One
      <3> QED BY <1>1, <1>2, <1>6, <2>1, <2>2, <3>1, <3>2, CountMoved
    <2>5. CASE h = old
      <3>1. FunctionHolders(h)' = (FunctionHolders(h) \cup {}) \ D /\ D \subseteq FunctionHolders(h)
        BY <1>5, <2>5
      <3>2. gain[h] = Cardinality({}) /\ drop[h] = Cardinality(D)
        BY <1>3, <1>6, <1>9, <2>2, <2>3, <2>5 DEF One
      <3> QED BY <1>1, <1>2, <2>1, <2>2, <3>1, <3>2, CountMoved
    <2>6. CASE h # f /\ h # old
      <3>1. gain[h] = 0 /\ drop[h] = 0 /\ FunctionHolders(h)' = FunctionHolders(h)
        BY <1>5, <1>9, <2>3, <2>6 DEF One
      <3> QED BY <1>1, <1>2, <2>1, <3>1, CountKept
    <2> QED BY <2>4, <2>5, <2>6
  <1> QED BY <1>12, <1>13 DEF Counted

-----------------------------------------------------------------------------
(* What counts nothing.                                                    *)

LEMMA NothingCounted ==
    ASSUME IInv, \A f : FunctionHolders(f)' = FunctionHolders(f),
           UNCHANGED <<refs, bindings, wrappers, named, closures>>
    PROVE  Counted' /\ Bound'
  <1>1. Functions' = Functions
    BY DEF Functions
  <1>2. /\ \A l : LibHolders(l)' = LibHolders(l)
        /\ \A p : ProtoHolders(p)' = ProtoHolders(p)
        /\ Bound'
    BY <1>1, BindingsKept DEF IInv
  <1> QED BY <1>2 DEF IInv, Counted, CountedFns, CountedLibs, CountedProtos

LEMMA ErrorHandled ==
    ASSUME TypeOK, ErrorHandler
    PROVE  /\ \A f : FunctionHolders(f)' = FunctionHolders(f)
           /\ \A c : Active(c)' = Active(c)
  <1>1. PICK fr, n : fr = [Top EXCEPT !.kind = "handler"] /\ n = Len(stack)
    OBVIOUS
  <1>2. /\ stack # <<>> /\ Top.kind = "call" /\ stack' = Append(Below, fr) /\ commands' = commands
    BY <1>1 DEF ErrorHandler, InC
  <1>3. Top \in CallFrame /\ fr \in CallFrame /\ fr \in Frames
    BY <1>1, <1>2, TopFacts DEF CallFrame, Frames
  <1>4. fr.kind # "callback" /\ fr.fn = Top.fn /\ fr.temp = Top.temp
    BY <1>1, <1>3 DEF CallFrame
  <1>5. /\ n \in Nat \ {0} /\ DOMAIN stack = 1 .. n /\ Below \in Seq(Frames)
        /\ DOMAIN Below = 1 .. n - 1 /\ \A i \in 1 .. n - 1 : Below[i] = stack[i]
        /\ stack[n] = Top
    BY <1>1, <1>2, TopFacts DEF Top
  <1>6. Len(Below) = n - 1
    BY <1>5
  <1>7. /\ DOMAIN stack' = 1 .. n /\ stack'[n] = fr
        /\ \A i \in 1 .. n - 1 : stack'[i] = stack[i]
    BY <1>2, <1>3, <1>5, <1>6, PushFacts
  <1>8. \A i \in DOMAIN stack : /\ stack'[i].kind # "callback" <=> stack[i].kind # "callback"
                                /\ stack[i].kind # "callback" => /\ stack'[i].fn = stack[i].fn
                                                                 /\ stack'[i].temp = stack[i].temp
                                /\ stack[i].kind = "callback" => stack'[i] = stack[i]
    <2> SUFFICES ASSUME NEW i \in 1 .. n
                 PROVE  /\ stack'[i].kind # "callback" <=> stack[i].kind # "callback"
                        /\ stack[i].kind # "callback" => /\ stack'[i].fn = stack[i].fn
                                                         /\ stack'[i].temp = stack[i].temp
                        /\ stack[i].kind = "callback" => stack'[i] = stack[i]
      BY <1>5
    <2>1. i = n \/ i \in 1 .. n - 1
      BY <1>5
    <2> QED BY <1>2, <1>4, <1>5, <1>7, <2>1
  <1>9. DOMAIN stack' = DOMAIN stack
    BY <1>5, <1>7
  <1>10. \A f : FunctionHolders(f)' = FunctionHolders(f)
    BY <1>2, <1>8, <1>9 DEF FunctionHolders
  <1>11. \A c : Active(c)' = Active(c)
    BY <1>8, <1>9 DEF Active
  <1> QED BY <1>10, <1>11

LEMMA CallbackInvoked ==
    ASSUME TypeOK, NEW c \in Callback, CallbackInvoke(c)
    PROVE  /\ \A f : FunctionHolders(f)' = FunctionHolders(f)
           /\ \A d : d # c => Active(d)' = Active(d)
           /\ Active(c)' = Active(c) \cup {Len(stack) + 1}
           /\ Len(stack) + 1 \notin Active(c)
  <1>1. PICK fr, n : fr = [kind |-> "callback", cb |-> c] /\ n = Len(stack) + 1
    OBVIOUS
  <1>2. stack' = Append(stack, fr) /\ commands' = commands
    BY <1>1 DEF CallbackInvoke
  <1>3. fr \in Frames /\ fr.kind = "callback" /\ fr.cb = c
    BY <1>1 DEF Frames
  <1>4. /\ DOMAIN stack = 1 .. n - 1 /\ DOMAIN stack' = 1 .. n /\ n \in Nat \ {0}
        /\ \A i \in 1 .. n - 1 : stack'[i] = stack[i]
        /\ stack'[n] = fr
    BY <1>1, <1>2, <1>3, PushFacts DEF TypeOK
  <1>5. DOMAIN stack' = DOMAIN stack \cup {n} /\ n \notin DOMAIN stack
    BY <1>4
  <1>6. \A f : FunctionHolders(f)' = FunctionHolders(f)
    BY <1>2, <1>3, <1>4, <1>5 DEF FunctionHolders
  <1>7. /\ \A d : d # c => Active(d)' = Active(d)
        /\ Active(c)' = Active(c) \cup {n} /\ n \notin Active(c)
    BY <1>3, <1>4, <1>5 DEF Active
  <1> QED BY <1>1, <1>6, <1>7

LEMMA CallbackReturned ==
    ASSUME TypeOK, CallbackReturn, NEW c, c = Top.cb
    PROVE  /\ \A f : FunctionHolders(f)' = FunctionHolders(f)
           /\ \A d : d # c => Active(d)' = Active(d)
           /\ Active(c)' = Active(c) \ {Len(stack)}
           /\ Len(stack) \in Active(c)
  <1>1. PICK n : n = Len(stack)
    OBVIOUS
  <1>2. stack # <<>> /\ Top.kind = "callback" /\ stack' = Below /\ commands' = commands
    BY DEF CallbackReturn
  <1>3. /\ DOMAIN stack = 1 .. n /\ DOMAIN stack' = 1 .. n - 1 /\ n \in Nat \ {0}
        /\ \A i \in 1 .. n - 1 : stack'[i] = stack[i]
        /\ stack[n] = Top
    BY <1>1, <1>2, TopFacts DEF Top
  <1>4. DOMAIN stack = DOMAIN stack' \cup {n} /\ n \notin DOMAIN stack'
    BY <1>3
  <1>5. \A f : FunctionHolders(f)' = FunctionHolders(f)
    BY <1>2, <1>3, <1>4 DEF FunctionHolders
  <1>6. /\ \A d : d # c => Active(d)' = Active(d)
        /\ Active(c)' = Active(c) \ {n} /\ n \in Active(c)
    BY <1>2, <1>3, <1>4 DEF Active
  <1> QED BY <1>1, <1>5, <1>6

-----------------------------------------------------------------------------
(* Prototypes.                                                             *)

\* What counts prototypes only leaves the other counts right.
LEMMA OnlyProtos ==
    ASSUME IInv, NEW gain, NEW drop, Recount(gain, drop),
           \A o \in Fn \cup Lib : gain[o] = 0 /\ drop[o] = 0,
           UNCHANGED <<fnProto, fnLib, wrappers, commands, stack>>
    PROVE  CountedFns' /\ CountedLibs' /\ Functions' = Functions
  <1>1. /\ \A f : FunctionHolders(f)' = FunctionHolders(f)
        /\ Functions' = Functions
    BY HoldersKept
  <1>2. \A l : LibHolders(l)' = LibHolders(l)
    BY <1>1 DEF LibHolders
  <1>3. CountedFns'
    BY <1>1, FnsKept
  <1>4. CountedLibs'
    BY <1>2, LibsKept
  <1> QED BY <1>1, <1>3, <1>4

LEMMA NamesChanged ==
    ASSUME IInv, NEW p \in Proto, NEW P \in SUBSET named,
           PrototypeDefine(p) \/ PrototypeDelete(P)
    PROVE  Counted' /\ Bound'
  <1>1. PICK A, B, gain, drop :
            /\ A \in SUBSET Proto /\ B \in SUBSET named
            /\ A \cap named = {} /\ named' = (named \cup A) \ B
            /\ \A o \in Object : gain[o] = One(o \in A) /\ drop[o] = One(o \in B)
            /\ Recount(gain, drop)
    <2>1. CASE PrototypeDefine(p)
      <3>1. Recount(Each({p}), Nothing) /\ refs[p] = 0 /\ named' = (named \cup {p}) \ {}
        BY <2>1 DEF PrototypeDefine
      <3>2. ProtoHolders(p) = {}
        BY <3>1, UnusedHeldByNone DEF IInv
      <3>3. p \notin named
        BY <3>2, ProtoHolderIs
      <3>4. \A o \in Object : Each({p})[o] = One(o \in {p}) /\ Nothing[o] = One(o \in {})
        BY EachFacts DEF Nothing
      <3> QED BY <3>1, <3>3, <3>4
    <2>2. CASE PrototypeDelete(P)
      <3>1. Recount(Nothing, Each(P)) /\ named' = (named \cup {}) \ P
        BY <2>2 DEF PrototypeDelete
      <3>2. \A o \in Object : Nothing[o] = One(o \in {}) /\ Each(P)[o] = One(o \in P)
        BY EachFacts DEF Nothing
      <3> QED BY <3>1, <3>2
    <2> QED BY <2>1, <2>2
  <1>2. UNCHANGED <<fnProto, fnLib, cbProto, slotProto, wrappers, commands, closures, stack>>
    BY DEF PrototypeDefine, PrototypeDelete, bindings
  <1>3. named \subseteq Proto
    BY DEF IInv, TypeOK
  <1>4. \A o \in Fn \cup Lib : gain[o] = 0 /\ drop[o] = 0
    BY <1>1, <1>3, Kinds3 DEF One
  <1>5. CountedFns' /\ CountedLibs' /\ Functions' = Functions
    BY <1>1, <1>2, <1>4, OnlyProtos
  <1>6. CountedProtos'
    <2> DEFINE G == [q \in Proto |-> IF q \in A THEN {<<"name", q>>} ELSE {}]
               D == [q \in Proto |-> IF q \in B THEN {<<"name", q>>} ELSE {}]
    <2>1. \A q \in Proto : /\ IsFiniteSet(G[q]) /\ gain[q] = Cardinality(G[q])
                           /\ drop[q] = Cardinality(D[q])
      BY <1>1, Kinds3, FS_EmptySet, FS_Singleton DEF One
    <2>2. ASSUME NEW q
          PROVE  /\ <<"name", q>> \in ProtoHolders(q) <=> q \in named
                 /\ \A x : x \in ProtoHolders(q)' <=>
                              \/ x \in ProtoHolders(q) /\ x # <<"name", q>>
                              \/ x = <<"name", q>> /\ q \in named'
      BY <1>2, <1>5 DEF ProtoHolders
    <2>3. \A q \in Proto : /\ G[q] \cap ProtoHolders(q) = {}
                           /\ D[q] \subseteq ProtoHolders(q)
      BY <1>1, <2>2
    <2>4. ASSUME NEW q \in Proto PROVE ProtoHolders(q)' = (ProtoHolders(q) \cup G[q]) \ D[q]
      BY <1>1, <2>2
    <2>5. \A q \in Proto : ProtoHolders(q)' = (ProtoHolders(q) \cup G[q]) \ D[q]
      BY <2>4
    <2> HIDE DEF G, D
    <2> QED BY <1>1, <2>1, <2>3, <2>5, ProtosMoved
  <1>7. Bound'
    BY <1>2, <1>5 DEF IInv, Bound
  <1> QED BY <1>5, <1>6, <1>7 DEF Counted

-----------------------------------------------------------------------------
(* Callbacks.                                                              *)

LEMMA CallbackMade ==
    ASSUME IInv, NEW c \in Callback, NEW p \in Proto, CallbackNew(c, p)
    PROVE  Counted' /\ Bound'
  <1>1. PICK gain, drop : gain = Each({p}) /\ drop = Nothing
    OBVIOUS
  <1>2. /\ c \notin closures /\ Recount(gain, drop)
        /\ cbProto' = [cbProto EXCEPT ![c] = p] /\ closures' = closures \cup {c}
        /\ UNCHANGED <<fnProto, fnLib, slotProto, wrappers, commands, named, stack>>
    BY <1>1 DEF CallbackNew
  <1>3. \A o \in Object : gain[o] = One(o = p) /\ drop[o] = 0
    BY <1>1, EachFacts, NothingFacts
  <1>4. closures \subseteq Callback /\ \A d \in Callback : cbProto'[d] = IF d = c THEN p ELSE cbProto[d]
    BY <1>2 DEF IInv, TypeOK
  <1>5. CountedFns' /\ CountedLibs' /\ Functions' = Functions
    <2>1. \A o \in Fn \cup Lib : gain[o] = 0 /\ drop[o] = 0
      BY <1>3, Kinds3 DEF One
    <2> QED BY <1>2, <2>1, OnlyProtos
  <1>6. CountedProtos'
    <2> DEFINE tok == <<"callback", c>>
               G == [q \in Proto |-> IF q = p THEN {tok} ELSE {}]
               D == [q \in Proto |-> {}]
    <2>1. ASSUME NEW q, NEW x
          PROVE  x \in ProtoHolders(q)' <=> x \in ProtoHolders(q) \/ (q = p /\ x = tok)
      <3>1. x \in ProtoHolders(q)' <=>
                \/ q \in named /\ x = <<"name", q>>
                \/ \E f \in Functions : fnProto[f] = q /\ x = <<"function", f>>
                \/ \E d \in closures' : cbProto'[d] = q /\ x = <<"callback", d>>
                \/ \E s \in Slot : slotProto[s] = q /\ x = <<"slot", s>>
        BY <1>2, <1>5 DEF ProtoHolders
      <3>2. (\E d \in closures' : cbProto'[d] = q /\ x = <<"callback", d>>) <=>
                \/ \E d \in closures : cbProto[d] = q /\ x = <<"callback", d>>
                \/ q = p /\ x = tok
        BY <1>2, <1>4
      <3> QED BY <3>1, <3>2, ProtoHolderIs
    <2>2. ASSUME NEW q PROVE tok \notin ProtoHolders(q)
      BY <1>2, ProtoHolderIs
    <2> HIDE DEF tok
    <2>3. \A q \in Proto : /\ IsFiniteSet(G[q]) /\ gain[q] = Cardinality(G[q])
                           /\ drop[q] = Cardinality(D[q])
      BY <1>3, Kinds3, FS_EmptySet, FS_Singleton DEF One
    <2>4. \A q \in Proto : /\ G[q] \cap ProtoHolders(q) = {}
                           /\ D[q] \subseteq ProtoHolders(q)
      BY <2>2
    <2>5. ASSUME NEW q \in Proto PROVE ProtoHolders(q)' = (ProtoHolders(q) \cup G[q]) \ D[q]
      BY <2>1
    <2>6. \A q \in Proto : ProtoHolders(q)' = (ProtoHolders(q) \cup G[q]) \ D[q]
      BY <2>5
    <2> HIDE DEF G, D
    <2> QED BY <1>2, <2>3, <2>4, <2>6, ProtosMoved
  <1>7. Bound'
    BY <1>2, <1>4, <1>5 DEF IInv, Bound
  <1> QED BY <1>5, <1>6, <1>7 DEF Counted

LEMMA CallbackFreed ==
    ASSUME IInv, NEW c \in Callback, CallbackFree(c)
    PROVE  Counted' /\ Bound'
  <1>1. PICK p, gain, drop : p = cbProto[c] /\ gain = Nothing /\ drop = Each({cbProto[c]})
    OBVIOUS
  <1>2. /\ c \in closures /\ Recount(gain, drop) /\ closures' = closures \ {c}
        /\ UNCHANGED <<fnProto, fnLib, cbProto, slotProto, wrappers, commands, named, stack>>
    BY <1>1 DEF CallbackFree, bindings
  <1>3. \A o \in Object : gain[o] = 0 /\ drop[o] = One(o = p)
    BY <1>1, EachFacts, NothingFacts
  <1>4. p \in Proto
    BY <1>1, <1>2 DEF IInv, Bound
  <1>5. CountedFns' /\ CountedLibs' /\ Functions' = Functions
    <2>1. \A o \in Fn \cup Lib : gain[o] = 0 /\ drop[o] = 0
      BY <1>3, <1>4, Kinds3 DEF One
    <2> QED BY <1>2, <2>1, OnlyProtos
  <1>6. CountedProtos'
    <2> DEFINE tok == <<"callback", c>>
               G == [q \in Proto |-> {}]
               D == [q \in Proto |-> IF q = p THEN {tok} ELSE {}]
    <2>1. ASSUME NEW q, NEW x
          PROVE  x \in ProtoHolders(q)' <=> x \in ProtoHolders(q) /\ x # tok
      <3>1. x \in ProtoHolders(q)' <=>
                \/ q \in named /\ x = <<"name", q>>
                \/ \E f \in Functions : fnProto[f] = q /\ x = <<"function", f>>
                \/ \E d \in closures' : cbProto[d] = q /\ x = <<"callback", d>>
                \/ \E s \in Slot : slotProto[s] = q /\ x = <<"slot", s>>
        BY <1>2, <1>5 DEF ProtoHolders
      <3> QED BY <1>2, <3>1, ProtoHolderIs
    <2>2. tok \in ProtoHolders(p)
      BY <1>1, <1>2, ProtoHolderIs
    <2>3. ASSUME NEW q, q # p PROVE tok \notin ProtoHolders(q)
      BY <1>1, <2>3, ProtoHolderIs
    <2> HIDE DEF tok
    <2>4. \A q \in Proto : /\ IsFiniteSet(G[q]) /\ gain[q] = Cardinality(G[q])
                           /\ drop[q] = Cardinality(D[q])
      BY <1>3, Kinds3, FS_EmptySet, FS_Singleton DEF One
    <2>5. \A q \in Proto : /\ G[q] \cap ProtoHolders(q) = {}
                           /\ D[q] \subseteq ProtoHolders(q)
      BY <2>2
    <2>6. ASSUME NEW q \in Proto PROVE ProtoHolders(q)' = (ProtoHolders(q) \cup G[q]) \ D[q]
      BY <2>1, <2>3
    <2>7. \A q \in Proto : ProtoHolders(q)' = (ProtoHolders(q) \cup G[q]) \ D[q]
      BY <2>6
    <2> HIDE DEF G, D
    <2> QED BY <1>2, <2>4, <2>5, <2>7, ProtosMoved
  <1>7. Bound'
    BY <1>2, <1>5 DEF IInv, Bound
  <1> QED BY <1>5, <1>6, <1>7 DEF Counted

-----------------------------------------------------------------------------
(* Method tables.                                                          *)

SlotTokens(T) == {<<"slot", s>> : s \in T}

LEMMA SlotsCounted ==
    ASSUME NEW T \in SUBSET Slot
    PROVE  /\ IsFiniteSet(SlotTokens(T)) /\ IsFiniteSet(T)
           /\ Cardinality(SlotTokens(T)) = Cardinality(T)
  <1>1. IsFiniteSet(T)
    BY FS_Subset, LifetimesAssumption
  <1> DEFINE b == [s \in T |-> <<"slot", s>>]
  <1>2. b \in Bijection(T, SlotTokens(T))
    <2>1. b \in Injection(T, SlotTokens(T))
      BY DEF Injection, IsInjective, SlotTokens
    <2>2. b \in Surjection(T, SlotTokens(T))
      BY DEF Surjection, SlotTokens
    <2> QED BY <2>1, <2>2 DEF Bijection
  <1>3. ExistsBijection(T, SlotTokens(T))
    BY <1>2 DEF ExistsBijection
  <1> QED BY <1>1, <1>3, FS_Bijection

LEMMA SlotsChanged ==
    ASSUME IInv, NEW T \in SUBSET Slot, NEW S \in SUBSET Slot, NEW new \in [T -> Proto],
           SlotsChange(new, S)
    PROVE  Counted' /\ Bound'
  <1>1. PICK gain, drop :
            /\ gain = [o \in Object |-> Cardinality({s \in DOMAIN new : new[s] = o})]
            /\ drop = [o \in Object |-> Cardinality({s \in S : slotProto[s] = o})]
    OBVIOUS
  <1>2. /\ Recount(gain, drop) /\ DOMAIN new = T
        /\ \A s \in S : slotProto[s] # None
        /\ \A s \in T : slotProto[s] = None
        /\ slotProto' = [s \in Slot |-> IF s \in T THEN new[s]
                                        ELSE IF s \in S THEN None ELSE slotProto[s]]
        /\ UNCHANGED <<fnProto, fnLib, cbProto, wrappers, commands, named, closures, stack>>
    BY <1>1 DEF SlotsChange
  <1> DEFINE GS(o) == {s \in T : new[s] = o}
             DS(o) == {s \in S : slotProto[s] = o}
  <1>3. \A o \in Object : gain[o] = Cardinality(GS(o)) /\ drop[o] = Cardinality(DS(o))
    BY <1>1, <1>2
  <1>4. CountedFns' /\ CountedLibs' /\ Functions' = Functions
    <2>1. ASSUME NEW o \in Fn \cup Lib PROVE gain[o] = 0 /\ drop[o] = 0
      <3>1. GS(o) = {} /\ DS(o) = {}
        BY <1>2, Kinds3 DEF IInv, TypeOK
      <3> QED BY <1>3, <3>1, FS_EmptySet, Kinds3
    <2> QED BY <1>2, <2>1, OnlyProtos
  <1>5. CountedProtos'
    <2> DEFINE G == [q \in Proto |-> SlotTokens(GS(q))]
               D == [q \in Proto |-> SlotTokens(DS(q))]
    <2>1. ASSUME NEW q \in Proto
          PROVE  /\ IsFiniteSet(SlotTokens(GS(q))) /\ gain[q] = Cardinality(SlotTokens(GS(q)))
                 /\ drop[q] = Cardinality(SlotTokens(DS(q)))
      <3>1. GS(q) \in SUBSET Slot /\ DS(q) \in SUBSET Slot /\ q \in Object
        BY Kinds3
      <3> HIDE DEF GS, DS
      <3> QED BY <1>3, <3>1, SlotsCounted
    <2>2. ASSUME NEW q, NEW s
          PROVE  /\ <<"slot", s>> \in ProtoHolders(q) <=> s \in Slot /\ slotProto[s] = q
                 /\ <<"slot", s>> \in ProtoHolders(q)' <=> s \in Slot /\ slotProto'[s] = q
      BY DEF ProtoHolders
    <2>3. ASSUME NEW q, NEW x, \A s : x # <<"slot", s>>
          PROVE  x \in ProtoHolders(q)' <=> x \in ProtoHolders(q)
      BY <1>2, <1>4, <2>3 DEF ProtoHolders
    <2>4. ASSUME NEW X, NEW s PROVE <<"slot", s>> \in SlotTokens(X) <=> s \in X
      BY DEF SlotTokens
    <2>5. ASSUME NEW X, NEW x \in SlotTokens(X) PROVE \E s \in X : x = <<"slot", s>>
      BY DEF SlotTokens
    <2>6. ASSUME NEW q \in Proto PROVE SlotTokens(GS(q)) \cap ProtoHolders(q) = {}
      <3> SUFFICES ASSUME NEW x \in SlotTokens(GS(q)), x \in ProtoHolders(q) PROVE FALSE
        OBVIOUS
      <3>1. PICK s \in GS(q) : x = <<"slot", s>>
        BY <2>5
      <3>2. slotProto[s] = None
        BY <1>2
      <3>3. slotProto[s] = q
        BY <2>2, <3>1
      <3> QED BY <3>2, <3>3, Kinds3
    <2>7. ASSUME NEW q \in Proto PROVE SlotTokens(DS(q)) \subseteq ProtoHolders(q)
      BY <2>2, <2>5
    <2>8. ASSUME NEW q \in Proto, NEW x
          PROVE  x \in ProtoHolders(q)' <=>
                     (x \in ProtoHolders(q) \/ x \in SlotTokens(GS(q))) /\ x \notin SlotTokens(DS(q))
      <3>1. CASE \E s : x = <<"slot", s>>
        <4>1. PICK s : x = <<"slot", s>>
          BY <3>1
        <4>2. s \in Slot => slotProto'[s] = IF s \in T THEN new[s]
                                           ELSE IF s \in S THEN None ELSE slotProto[s]
          BY <1>2
        <4>3. s \in Slot /\ slotProto'[s] = q <=>
                  ((s \in Slot /\ slotProto[s] = q) \/ s \in GS(q)) /\ s \notin DS(q)
          BY <1>2, <4>2, Kinds3
        <4> QED BY <2>2, <2>4, <4>1, <4>3
      <3>2. CASE \A s : x # <<"slot", s>>
        BY <2>3, <2>5, <3>2
      <3> QED BY <3>1, <3>2
    <2>9. ASSUME NEW q \in Proto
          PROVE  ProtoHolders(q)' = (ProtoHolders(q) \cup SlotTokens(GS(q))) \ SlotTokens(DS(q))
      BY <2>8
    <2>10. \A q \in Proto : G[q] = SlotTokens(GS(q)) /\ D[q] = SlotTokens(DS(q))
      OBVIOUS
    <2> HIDE DEF G, D
    <2>11. \A q \in Proto : /\ IsFiniteSet(G[q]) /\ gain[q] = Cardinality(G[q])
                            /\ G[q] \cap ProtoHolders(q) = {}
                            /\ D[q] \subseteq ProtoHolders(q) /\ drop[q] = Cardinality(D[q])
                            /\ ProtoHolders(q)' = (ProtoHolders(q) \cup G[q]) \ D[q]
      BY <2>1, <2>6, <2>7, <2>9, <2>10
    <2> QED BY <1>2, <2>11, ProtosMoved
  <1>6. Bound'
    BY <1>2, <1>4 DEF IInv, Bound
  <1> QED BY <1>4, <1>5, <1>6 DEF Counted

-----------------------------------------------------------------------------
(* The invariant.                                                          *)

LEMMA CountedStep ==
    ASSUME IInv, [Next]_vars
    PROVE  Counted' /\ Bound'
  <1>1. CASE UNCHANGED vars
    <2>1. \A f : FunctionHolders(f)' = FunctionHolders(f)
      BY <1>1, HoldersKept DEF vars
    <2> QED BY <1>1, <2>1, NothingCounted DEF vars, bindings
  <1>2. CASE ErrorHandler
    <2>1. UNCHANGED <<refs, bindings, wrappers, named, closures>>
      BY <1>2 DEF ErrorHandler
    <2> QED BY <1>2, <2>1, ErrorHandled, NothingCounted DEF IInv
  <1>3. ASSUME NEW c \in Callback, CallbackInvoke(c) PROVE Counted' /\ Bound'
    <2>1. UNCHANGED <<refs, bindings, wrappers, named, closures>>
      BY <1>3 DEF CallbackInvoke
    <2>2. \A f : FunctionHolders(f)' = FunctionHolders(f)
      BY <1>3, CallbackInvoked DEF IInv
    <2> QED BY <2>1, <2>2, NothingCounted
  <1>4. CASE CallbackReturn
    <2>1. UNCHANGED <<refs, bindings, wrappers, named, closures>>
      BY <1>4 DEF CallbackReturn
    <2>2. PICK c : c = Top.cb
      OBVIOUS
    <2>3. \A f : FunctionHolders(f)' = FunctionHolders(f)
      BY <1>4, <2>2, CallbackReturned DEF IInv
    <2> QED BY <2>1, <2>3, NothingCounted
  <1>5. ASSUME NEW p \in Proto, PrototypeDefine(p) PROVE Counted' /\ Bound'
    <2>1. {} \in SUBSET named
      OBVIOUS
    <2> QED BY <1>5, <2>1, NamesChanged
  <1>6. ASSUME NEW P \in (SUBSET named) \ {{}}, PrototypeDelete(P) PROVE Counted' /\ Bound'
    <2>1. P \in SUBSET named /\ P # {}
      BY <1>6
    <2>2. PICK p \in Proto : TRUE
      BY <2>1 DEF IInv, TypeOK
    <2> QED BY <1>6, <2>1, <2>2, NamesChanged
  <1>7. ASSUME NEW f \in Fn, NEW p \in Proto, CallPointer(f, p) PROVE Counted' /\ Bound'
    BY <1>7, ProtoCalled DEF CallPointer
  <1>8. ASSUME NEW f \in Fn, NEW s \in Slot, CallMethod(f, s) PROVE Counted' /\ Bound'
    <2>1. CallProto(f, slotProto[s]) /\ slotProto[s] \in Proto
      BY <1>8 DEF CallMethod, IInv, TypeOK
    <2> QED BY <2>1, ProtoCalled
  <1>9. CASE Ordinary
    BY <1>2, <1>3, <1>4, <1>5, <1>6, <1>7, <1>9, WrapperSteps, FunctionDefined,
       FunctionDeleted, FunctionCalled, FunctionReturned, CallbackMade, CallbackFreed
       DEF Ordinary
  <1>10. ASSUME NEW T \in SUBSET Slot, NEW S \in SUBSET Slot, NEW new \in [T -> Proto],
                SlotsChange(new, S)
         PROVE  Counted' /\ Bound'
    BY <1>10, SlotsChanged
  <1> QED BY <1>1, <1>8, <1>9, <1>10 DEF Next

\* The depth of a callback is that of the stack.
LEMMA DepthKept ==
    ASSUME IInv, \A c : Active(c)' = Active(c), depth' = depth, closures \subseteq closures'
    PROVE  DepthExact'
  BY DEF IInv, DepthExact

LEMMA DepthStep ==
    ASSUME IInv, [Next]_vars
    PROVE  DepthExact'
  <1>1. ASSUME UNCHANGED <<depth, closures>>, UNCHANGED stack PROVE DepthExact'
    BY <1>1 DEF IInv, DepthExact, Active
  <1>2. ASSUME NEW w \in Wrapper, NEW n \in Command, NEW f \in Fn, NEW p \in Proto,
               DefineFunction(w, n, f, p)
        PROVE  DepthExact'
    BY <1>1, <1>2 DEF DefineFunction
  <1>3. ASSUME NEW n \in Command, FunctionCall(n) PROVE DepthExact'
    <2>1. PICK fr : fr = [kind |-> "call", fn |-> commands[n], temp |-> FALSE]
      OBVIOUS
    <2>2. stack' = Append(stack, fr) /\ commands' = commands /\ depth' = depth /\ closures' = closures
      BY <1>3, <2>1 DEF FunctionCall
    <2>3. fr \in CallFrame
      BY <1>3, <2>1 DEF FunctionCall, CallFrame, IInv, TypeOK
    <2>4. \A c : Active(c)' = Active(c)
      BY <2>2, <2>3, CallPushed DEF IInv
    <2> QED BY <2>2, <2>4, DepthKept
  <1>4. ASSUME NEW f \in Fn, NEW p, CallProto(f, p) PROVE DepthExact'
    <2>1. PICK fr : fr = [kind |-> "call", fn |-> f, temp |-> TRUE]
      OBVIOUS
    <2>2. stack' = Append(stack, fr) /\ commands' = commands /\ depth' = depth /\ closures' = closures
      BY <1>4, <2>1 DEF CallProto
    <2>3. fr \in CallFrame
      BY <2>1 DEF CallFrame
    <2>4. \A c : Active(c)' = Active(c)
      BY <2>2, <2>3, CallPushed DEF IInv
    <2> QED BY <2>2, <2>4, DepthKept
  <1>5. CASE ErrorHandler
    <2>1. depth' = depth /\ closures' = closures
      BY <1>5 DEF ErrorHandler
    <2> QED BY <1>5, <2>1, ErrorHandled, DepthKept DEF IInv
  <1>6. CASE FunctionReturn
    <2>1. PICK fr, n : fr = Top /\ n = Len(stack)
      OBVIOUS
    <2>2. /\ stack # <<>> /\ fr.kind # "callback" /\ stack' = Below
          /\ commands' = commands /\ depth' = depth /\ closures' = closures
      BY <1>6, <2>1 DEF FunctionReturn
    <2>3. \A c : Active(c)' = Active(c)
      BY <2>1, <2>2, CallPopped DEF IInv
    <2> QED BY <2>2, <2>3, DepthKept
  <1>7. ASSUME NEW c \in Callback, NEW p \in Proto, CallbackNew(c, p) PROVE DepthExact'
    <2>1. /\ \A d : Active(d)' = Active(d)
          /\ c \notin closures /\ closures' = closures \cup {c}
          /\ \A d \in Callback : depth'[d] = IF d = c THEN 0 ELSE depth[d]
      BY <1>7 DEF CallbackNew, Active, IInv, TypeOK
    <2>2. Active(c) = {} /\ Cardinality({}) = 0
      BY <2>1, FS_EmptySet DEF IInv, DepthExact
    <2> QED BY <2>1, <2>2 DEF IInv, DepthExact
  <1>8. ASSUME NEW c \in Callback, CallbackFree(c) PROVE DepthExact'
    <2>1. /\ \A d : Active(d)' = Active(d)
          /\ depth[c] = 0 /\ closures' = closures \ {c} /\ depth' = depth
      BY <1>8 DEF CallbackFree, Active
    <2>2. Active(c) = {}
      BY <2>1, FS_EmptySet DEF IInv, DepthExact
    <2> QED BY <2>1, <2>2 DEF IInv, DepthExact
  <1>9. ASSUME NEW c \in Callback, CallbackInvoke(c) PROVE DepthExact'
    <2>1. PICK n : n = Len(stack) + 1
      OBVIOUS
    <2>2. /\ \A d : d # c => Active(d)' = Active(d)
          /\ Active(c)' = Active(c) \cup {n} /\ n \notin Active(c)
      BY <1>9, <2>1, CallbackInvoked DEF IInv
    <2>3. /\ \A d \in Callback : depth'[d] = IF d = c THEN depth[d] + 1 ELSE depth[d]
          /\ closures' = closures /\ c \in closures
      BY <1>9 DEF CallbackInvoke, IInv, TypeOK
    <2>4. IsFiniteSet(Active(c)) /\ depth[c] = Cardinality(Active(c))
      BY DEF IInv, DepthExact
    <2>5. IsFiniteSet(Active(c)') /\ Cardinality(Active(c)') = depth'[c]
      BY <2>2, <2>3, <2>4, FS_AddElement
    <2> QED BY <2>2, <2>3, <2>5 DEF IInv, DepthExact
  <1>10. CASE CallbackReturn
    <2>1. PICK c, n : c = Top.cb /\ n = Len(stack)
      OBVIOUS
    <2>2. c \in Callback
      BY <1>10, <2>1, TopFacts DEF CallbackReturn, IInv
    <2>3. /\ \A d : d # c => Active(d)' = Active(d)
          /\ Active(c)' = Active(c) \ {n} /\ n \in Active(c)
      BY <1>10, <2>1, CallbackReturned DEF IInv
    <2>4. /\ \A d \in Callback : depth'[d] = IF d = c THEN depth[d] - 1 ELSE depth[d]
          /\ closures' = closures
      BY <1>10, <2>1, <2>2 DEF CallbackReturn, IInv, TypeOK
    <2>5. IsFiniteSet(Active(c)) /\ depth[c] = Cardinality(Active(c))
      BY <2>2 DEF IInv, DepthExact
    <2>6. IsFiniteSet(Active(c)') /\ Cardinality(Active(c)') = depth'[c]
      BY <2>2, <2>3, <2>4, <2>5, FS_RemoveElement
    <2> QED BY <2>2, <2>3, <2>4, <2>6 DEF IInv, DepthExact
  <1>11. CASE Ordinary
    <2>1. ASSUME NEW w \in Wrapper, NEW l \in Lib, WrapperCreate(w, l) PROVE DepthExact'
      BY <1>1, <2>1 DEF WrapperCreate
    <2>2. ASSUME NEW w \in Wrapper, WrapperDestroy(w) PROVE DepthExact'
      BY <1>1, <2>2 DEF WrapperDestroy
    <2>3. ASSUME NEW n \in Command, FunctionDelete(n) PROVE DepthExact'
      BY <1>1, <2>3 DEF FunctionDelete
    <2>4. ASSUME NEW p \in Proto, PrototypeDefine(p) PROVE DepthExact'
      BY <1>1, <2>4 DEF PrototypeDefine
    <2>5. ASSUME NEW P \in SUBSET named, PrototypeDelete(P) PROVE DepthExact'
      BY <1>1, <2>5 DEF PrototypeDelete
    <2>6. ASSUME NEW f \in Fn, NEW p \in Proto, CallPointer(f, p) PROVE DepthExact'
      BY <1>4, <2>6 DEF CallPointer
    <2> QED BY <1>2, <1>3, <1>5, <1>6, <1>7, <1>8, <1>9, <1>10, <1>11, <2>1, <2>2, <2>3,
               <2>4, <2>5, <2>6 DEF Ordinary
  <1>12. ASSUME NEW f \in Fn, NEW s \in Slot, CallMethod(f, s) PROVE DepthExact'
    <2>1. PICK p : p = slotProto[s]
      OBVIOUS
    <2> QED BY <1>4, <1>12, <2>1 DEF CallMethod
  <1>13. ASSUME NEW new, NEW S, SlotsChange(new, S) PROVE DepthExact'
    BY <1>1, <1>13 DEF SlotsChange
  <1>14. CASE UNCHANGED vars
    BY <1>1, <1>14 DEF vars
  <1> QED BY <1>11, <1>12, <1>13, <1>14 DEF Next

LEMMA Starts == Init => IInv
  <1> SUFFICES ASSUME Init PROVE IInv
    OBVIOUS
  <1>1. TypeOK
    BY InitTyped
  <1>2. DOMAIN stack = {} /\ Functions = {} /\ closures = {} /\ named = {}
    BY EmptySeq, Kinds3 DEF Init, Functions, FunctionHolders
  <1>3. \A f \in Fn : FunctionHolders(f) = {}
    BY <1>2, Kinds3 DEF Init, FunctionHolders
  <1>4. \A l \in Lib : LibHolders(l) = {}
    BY <1>2, Kinds3 DEF Init, LibHolders
  <1>5. \A p \in Proto : ProtoHolders(p) = {}
    BY <1>2, Kinds3 DEF Init, ProtoHolders
  <1>6. \A o \in Fn \cup Lib \cup Proto : refs[o] = 0
    BY Kinds3 DEF Init
  <1>7. Counted
    BY <1>3, <1>4, <1>5, <1>6, FS_EmptySet DEF Counted, CountedFns, CountedLibs, CountedProtos
  <1>8. Bound
    BY <1>2 DEF Bound
  <1>9. DepthExact
    <2>1. \A c : Active(c) = {}
      BY <1>2 DEF Active
    <2> QED BY <2>1, FS_EmptySet DEF Init, DepthExact
  <1> QED BY <1>1, <1>7, <1>8, <1>9 DEF IInv

LEMMA Steps == IInv /\ [Next]_vars => IInv'
  <1> SUFFICES ASSUME IInv, [Next]_vars PROVE IInv'
    OBVIOUS
  <1>1. TypeOK'
    BY TypeStep DEF IInv
  <1> QED BY <1>1, CountedStep, DepthStep DEF IInv

LEMMA Inductive == Spec => []IInv
  BY Starts, Steps, PTL DEF Spec

-----------------------------------------------------------------------------
(* What follows.                                                           *)

\* Counts, bindings, tables and the stack keep their types, whatever scripts do
\* (CffiFunctionUnref, Int.h:1089, and the other counts).
THEOREM TypeCorrect == Spec => []TypeOK
  <1>1. IInv => TypeOK
    BY DEF IInv
  <1> QED BY <1>1, Inductive, PTL

\* A library, prototype or function is counted once for everything that refers to
\* it, so that none is freed early and none is leaked (CffiFunctionUnref,
\* Int.h:1089; CffiProtoUnref, Prototype.c:46; CffiLibCtxUnref, Load.c:10).
THEOREM RefsCorrect == Spec => []RefsExact
  <1>1. IInv => RefsExact
    <2> SUFFICES ASSUME IInv, NEW o \in Object PROVE refs[o] = Cardinality(Holders(o))
      BY DEF RefsExact
    <2>1. CASE o \in Fn
      <3>1. Holders(o) = FunctionHolders(o)
        BY <2>1, Kinds3 DEF Holders
      <3> QED BY <2>1, <3>1 DEF IInv, Counted, CountedFns
    <2>2. CASE o \in Lib
      <3>1. Holders(o) = LibHolders(o)
        BY <2>2, Kinds3 DEF Holders
      <3> QED BY <2>2, <3>1 DEF IInv, Counted, CountedLibs
    <2>3. CASE o \in Proto
      <3>1. Holders(o) = ProtoHolders(o)
        BY <2>3, Kinds3 DEF Holders
      <3> QED BY <2>3, <3>1 DEF IInv, Counted, CountedProtos
    <2> QED BY <2>1, <2>2, <2>3 DEF Object
  <1> QED BY <1>1, Inductive, PTL

\* What runs stays allocated while the script that it runs deletes whatever it can
\* (CffiFunctionCall, Function.c:2071; CffiCallbackFree, Callback.c:35).
THEOREM RunningCorrect == Spec => []RunningIsAllocated
  <1>1. IInv => RunningIsAllocated
    <2> SUFFICES ASSUME IInv, NEW i \in DOMAIN stack
                 PROVE  IF stack[i].kind = "callback"
                        THEN stack[i].cb \in closures /\ refs[cbProto[stack[i].cb]] > 0
                        ELSE /\ refs[stack[i].fn] > 0
                             /\ refs[fnProto[stack[i].fn]] > 0
                             /\ fnLib[stack[i].fn] # None => refs[fnLib[stack[i].fn]] > 0
      BY DEF RunningIsAllocated
    <2>1. stack[i] \in Frames
      BY DEF IInv, TypeOK
    <2>2. \A p \in Proto : ProtoHolders(p) # {} => refs[p] > 0
      BY UnusedHeldByNone DEF IInv, TypeOK, Object
    <2>3. \A l \in Lib : LibHolders(l) # {} => refs[l] > 0
      BY UnusedHeldByNone DEF IInv, TypeOK, Object
    <2>4. \A f \in Fn : FunctionHolders(f) # {} => refs[f] > 0
      BY UnusedHeldByNone DEF IInv, TypeOK, Object
    <2>5. CASE stack[i].kind = "callback"
      <3>1. PICK c \in Callback : c = stack[i].cb
        BY <2>1, <2>5 DEF Frames
      <3>2. i \in Active(c)
        BY <2>5, <3>1 DEF Active
      <3>3. c \in closures
        BY <3>2 DEF IInv, DepthExact
      <3>4. cbProto[c] \in Proto /\ <<"callback", c>> \in ProtoHolders(cbProto[c])
        BY <3>3, ProtoHolderIs DEF IInv, Bound
      <3> QED BY <2>2, <2>5, <3>1, <3>3, <3>4
    <2>6. CASE stack[i].kind # "callback"
      <3>1. PICK f \in Fn : f = stack[i].fn
        BY <2>1, <2>6 DEF Frames
      <3>2. <<"call", i>> \in FunctionHolders(f)
        BY <2>6, <3>1, HolderIs DEF CallTokens
      <3>3. f \in Functions
        BY <3>2 DEF Functions
      <3>4. fnProto[f] \in Proto /\ <<"function", f>> \in ProtoHolders(fnProto[f])
        BY <3>3, ProtoHolderIs DEF IInv, Bound
      <3>5. fnLib[f] # None => fnLib[f] \in Lib /\ <<"function", f>> \in LibHolders(fnLib[f])
        BY <3>3, LibHolderIs DEF IInv, TypeOK
      <3> QED BY <2>2, <2>3, <2>4, <2>6, <3>1, <3>2, <3>4, <3>5
    <2> QED BY <2>5, <2>6
  <1> QED BY <1>1, Inductive, PTL

-----------------------------------------------------------------------------
(***************************************************************************)
(* Interfaces, over the same prototypes, functions and stack.              *)
(***************************************************************************)
IfcTypeOK ==
    /\ baseIfc \in [Ifc -> Ifc \cup {None}]
    /\ nMethods \in [Ifc -> 0 .. MaxMethods]
    /\ ifcCmds \in [IfcName -> Ifc \cup {None}]
    /\ methods \in [MethodCmd -> Slot \cup {None}]

IfcIInv == IInv /\ IfcTypeOK /\ TablesFilled

-----------------------------------------------------------------------------
(* The last of several positions in a list.                                *)

LEMMA LastIndex ==
    ASSUME NEW T, NEW n \in Nat, T \subseteq 1 .. n, T # {}
    PROVE  \E k \in T : \A l \in T : l <= k
  <1> DEFINE R == OpToRel(<, Nat)
             U == {n - k : k \in T}
  <1>1. IsWellFoundedOn(R, Nat)
    BY NatLessThanWellFounded
  <1>2. \A x, y : <<x, y>> \in R <=> x \in Nat /\ y \in Nat /\ x < y
    BY DEF OpToRel
  <1>3. U \subseteq Nat /\ U # {}
    OBVIOUS
  <1> HIDE DEF R
  <1>4. \E x \in U : \A y \in U : ~ (<<y, x>> \in R)
    <2> HIDE DEF U
    <2> QED BY <1>1, <1>3, WFMin
  <1>5. PICK x \in U : \A y \in U : ~ (y < x)
    BY <1>2, <1>3, <1>4
  <1>6. PICK k \in T : x = n - k
    OBVIOUS
  <1>7. ASSUME NEW l \in T PROVE l <= k
    <2>1. n - l \in U /\ l \in Int /\ k \in Int
      BY <1>6
    <2>2. ~ (n - l < n - k)
      BY <1>5, <1>6, <2>1
    <2> QED BY <2>1, <2>2
  <1> QED BY <1>6, <1>7

-----------------------------------------------------------------------------
(* Method tables.                                                          *)

LEMMA SlotIs ==
    /\ \A i \in Ifc, k \in 1 .. MaxMethods : <<i, k>> \in Slot
    /\ \A s \in Slot : /\ s[1] \in Ifc /\ s[2] \in 1 .. MaxMethods
                       /\ s = <<s[1], s[2]>>
    /\ None \notin Ifc /\ None \notin Slot /\ MaxMethods \in Nat
  BY InterfacesAssumption

LEMMA TableIs ==
    ASSUME IfcTypeOK, NEW F \in SUBSET Ifc
    PROVE  /\ TablesOf(F) \subseteq Slot
           /\ \A s \in Slot : s \in TablesOf(F) <=> s[1] \in F /\ s[2] <= nMethods[s[1]]
  <1>1. \A i \in Ifc : nMethods[i] \in 0 .. MaxMethods
    BY DEF IfcTypeOK
  <1>2. \A i \in Ifc : 1 .. nMethods[i] \subseteq 1 .. MaxMethods
    BY <1>1, SlotIs
  <1>3. TablesOf(F) \subseteq Slot
    BY <1>2, SlotIs DEF TablesOf, SlotsOf
  <1>4. ASSUME NEW s \in Slot
        PROVE  s \in TablesOf(F) <=> s[1] \in F /\ s[2] <= nMethods[s[1]]
    <2>1. s \in TablesOf(F) <=> \E i \in F : s \in SlotsOf(i, nMethods[i])
      BY DEF TablesOf
    <2>2. \A i \in Ifc : s \in SlotsOf(i, nMethods[i]) <=> s[1] = i /\ s[2] \in 1 .. nMethods[i]
      BY SlotIs DEF SlotsOf
    <2>3. \A i \in Ifc : s[2] \in 1 .. nMethods[i] <=> s[2] <= nMethods[i]
      BY <1>1, SlotIs
    <2> QED BY <2>1, <2>2, <2>3
  <1> QED BY <1>3, <1>4

LEMMA TablesChanged ==
    ASSUME IfcIInv, NEW F \in SUBSET Ifc, NEW T \in SUBSET Slot, NEW new \in [T -> Proto],
           SlotsChange(new, TablesOf(F))
    PROVE  /\ Next
           /\ \A s \in Slot :
                  slotProto'[s] = IF s \in T THEN new[s]
                                  ELSE IF s[1] \in F /\ s[2] <= nMethods[s[1]] THEN None
                                  ELSE slotProto[s]
  <1>1. TablesOf(F) \in SUBSET Slot
    BY TableIs DEF IfcIInv
  <1>2. Next
    BY <1>1 DEF Next
  <1>3. DOMAIN new = T
    OBVIOUS
  <1>4. \A s \in Slot : slotProto'[s] = IF s \in T THEN new[s]
                                        ELSE IF s \in TablesOf(F) THEN None ELSE slotProto[s]
    BY <1>3 DEF SlotsChange
  <1> QED BY <1>2, <1>4, TableIs DEF IfcIInv

\* Tables of freed interfaces lose their prototypes, and no other changes.
LEMMA SlotsCleared ==
    ASSUME IfcIInv, NEW F \in SUBSET Ifc, SlotsChange(<<>>, TablesOf(F))
    PROVE  /\ Next
           /\ \A s \in Slot : slotProto'[s] = IF s[1] \in F /\ s[2] <= nMethods[s[1]] THEN None
                                              ELSE slotProto[s]
  <1>1. PICK T \in SUBSET Slot : T = {}
    OBVIOUS
  <1>2. <<>> \in [T -> Proto]
    BY <1>1
  <1>3. PICK new \in [T -> Proto] : SlotsChange(new, TablesOf(F))
    BY <1>2
  <1>4. /\ Next
        /\ \A s \in Slot : slotProto'[s] = IF s \in T THEN new[s]
                                           ELSE IF s[1] \in F /\ s[2] <= nMethods[s[1]] THEN None
                                           ELSE slotProto[s]
    BY <1>3, TablesChanged
  <1> QED BY <1>1, <1>4

\* Tables are cleared when their interfaces are freed.
LEMMA TablesCleared ==
    ASSUME IfcIInv, NEW F \in SUBSET Ifc, SlotsChange(<<>>, TablesOf(F)),
           nMethods' = Without(nMethods, F, 0)
    PROVE  Next /\ TablesFilled' /\ nMethods' \in [Ifc -> 0 .. MaxMethods]
  <1>1. /\ Next
        /\ \A s \in Slot : slotProto'[s] = IF s[1] \in F /\ s[2] <= nMethods[s[1]] THEN None
                                           ELSE slotProto[s]
    BY SlotsCleared
  <1>2. /\ \A i \in Ifc : nMethods'[i] = IF i \in F THEN 0 ELSE nMethods[i]
        /\ nMethods' \in [Ifc -> 0 .. MaxMethods]
    BY SlotIs DEF Without, IfcIInv, IfcTypeOK
  <1>3. TablesFilled'
    <2> SUFFICES ASSUME NEW s \in Slot
                 PROVE  slotProto'[s] # None <=> s[2] <= nMethods'[s[1]]
      BY DEF TablesFilled
    <2>1. slotProto[s] # None <=> s[2] <= nMethods[s[1]]
      BY DEF IfcIInv, TablesFilled
    <2>2. s[1] \in Ifc /\ s[2] \in Int /\ s[2] > 0
      BY SlotIs
    <2> QED BY <1>1, <1>2, <2>1, <2>2
  <1> QED BY <1>1, <1>2, <1>3

\* The bases of the interfaces that are left.
LEMMA WithoutTyped ==
    ASSUME NEW f \in [Ifc -> Ifc \cup {None}], NEW F
    PROVE  Without(f, F, None) \in [Ifc -> Ifc \cup {None}]
  BY DEF Without

-----------------------------------------------------------------------------
(* Each step of interfaces is a step of Lifetimes.                         *)

LEMMA FreedTyped == \A gain, drop : Freed(gain, drop) \in SUBSET Ifc
  BY DEF Freed

LEMMA CreateStep ==
    ASSUME IfcIInv, NEW n \in IfcName, NEW i \in Ifc, NEW b \in Ifc \cup {None},
           InterfaceCreate(n, i, b)
    PROVE  Next /\ TablesFilled' /\ IfcTypeOK'
  <1>1. PICK F \in SUBSET Ifc :
            /\ baseIfc' = [Without(baseIfc, F, None) EXCEPT ![i] = b]
            /\ nMethods' = Without(nMethods, F, 0)
            /\ SlotsChange(<<>>, TablesOf(F))
            /\ ifcCmds' = [ifcCmds EXCEPT ![n] = i]
            /\ methods' = methods
    BY FreedTyped DEF InterfaceCreate
  <1>2. Next /\ TablesFilled' /\ nMethods' \in [Ifc -> 0 .. MaxMethods]
    BY <1>1, TablesCleared
  <1>3. baseIfc' \in [Ifc -> Ifc \cup {None}]
    BY <1>1, WithoutTyped DEF IfcIInv, IfcTypeOK
  <1>4. ifcCmds' \in [IfcName -> Ifc \cup {None}] /\ methods' \in [MethodCmd -> Slot \cup {None}]
    BY <1>1 DEF IfcIInv, IfcTypeOK
  <1> QED BY <1>2, <1>3, <1>4 DEF IfcTypeOK

LEMMA ReleaseStep ==
    ASSUME IfcIInv, NEW drop, Release(drop),
           ifcCmds' \in [IfcName -> Ifc \cup {None}],
           methods' \in [MethodCmd -> Slot \cup {None}]
    PROVE  Next /\ TablesFilled' /\ IfcTypeOK'
  <1>1. PICK F \in SUBSET Ifc :
            /\ baseIfc' = Without(baseIfc, F, None)
            /\ nMethods' = Without(nMethods, F, 0)
            /\ SlotsChange(<<>>, TablesOf(F))
    BY FreedTyped DEF Release
  <1>2. Next /\ TablesFilled' /\ nMethods' \in [Ifc -> 0 .. MaxMethods]
    BY <1>1, TablesCleared
  <1>3. baseIfc' \in [Ifc -> Ifc \cup {None}]
    BY <1>1, WithoutTyped DEF IfcIInv, IfcTypeOK
  <1> QED BY <1>2, <1>3 DEF IfcTypeOK

LEMMA DestroyStep ==
    ASSUME IfcIInv, NEW n \in IfcName, InterfaceDestroy(n)
    PROVE  Next /\ TablesFilled' /\ IfcTypeOK'
  <1>1. /\ ifcCmds' \in [IfcName -> Ifc \cup {None}]
        /\ methods' \in [MethodCmd -> Slot \cup {None}]
    BY DEF InterfaceDestroy, IfcIInv, IfcTypeOK
  <1>2. PICK drop : drop = OneIfc(ifcCmds[n])
    OBVIOUS
  <1>3. Release(drop)
    BY <1>2 DEF InterfaceDestroy
  <1> QED BY <1>1, <1>3, ReleaseStep

LEMMA FailStep ==
    ASSUME IfcIInv, NEW n \in IfcName, NEW list, MethodsFail(n, list)
    PROVE  Next /\ TablesFilled' /\ IfcTypeOK'
  <1>1. PICK C, drop :
            /\ Release(drop) /\ ifcCmds' = ifcCmds
            /\ methods' = [c \in MethodCmd |-> IF c \in C THEN None ELSE methods[c]]
    BY DEF MethodsFail
  <1>2. /\ ifcCmds' \in [IfcName -> Ifc \cup {None}]
        /\ methods' \in [MethodCmd -> Slot \cup {None}]
    BY <1>1 DEF IfcIInv, IfcTypeOK
  <1> QED BY <1>1, <1>2, ReleaseStep

LEMMA DeleteStep ==
    ASSUME IfcIInv, NEW c \in MethodCmd, MethodDelete(c)
    PROVE  Next /\ TablesFilled' /\ IfcTypeOK'
  <1>1. /\ ifcCmds' \in [IfcName -> Ifc \cup {None}]
        /\ methods' \in [MethodCmd -> Slot \cup {None}]
    BY DEF MethodDelete, IfcIInv, IfcTypeOK
  <1>2. PICK drop : drop = MethodsBound({c})
    OBVIOUS
  <1>3. Release(drop)
    BY <1>2 DEF MethodDelete
  <1> QED BY <1>1, <1>3, ReleaseStep

\* A listed method gets a slot of the table.
LEMMA SlotOfTyped ==
    ASSUME NEW i \in Ifc, NEW list, NEW len \in Nat, DOMAIN list = 1 .. len,
           NEW k \in DOMAIN list, NEW m, list[k] = m,
           BaseSlots(i) \in Nat, BaseSlots(i) + len <= MaxMethods
    PROVE  /\ SlotOf(i, list, m) \in Slot /\ SlotOf(i, list, m)[1] = i
           /\ SlotOf(i, list, m)[2] \in BaseSlots(i) + 1 .. BaseSlots(i) + len
  <1> DEFINE T == {l \in DOMAIN list : list[l] = m}
             P(q) == list[q] = m /\ \A l \in DOMAIN list : list[l] = m => l <= q
             last == CHOOSE q \in DOMAIN list : P(q)
  <1>1. \E q \in T : \A l \in T : l <= q
    <2>1. T \subseteq 1 .. len /\ T # {}
      OBVIOUS
    <2> HIDE DEF T
    <2> QED BY <2>1, LastIndex
  <1>2. \E q \in DOMAIN list : P(q)
    BY <1>1
  <1>3. last \in 1 .. len
    <2> HIDE DEF P
    <2> QED BY <1>2
  <1>4. SlotOf(i, list, m) = <<i, BaseSlots(i) + last>>
    BY DEF SlotOf
  <1> HIDE DEF last
  <1>5. /\ BaseSlots(i) + last \in 1 .. MaxMethods
        /\ BaseSlots(i) + last \in BaseSlots(i) + 1 .. BaseSlots(i) + len
    BY <1>3, SlotIs
  <1> QED BY <1>4, <1>5, SlotIs

LEMMA DefineStep ==
    ASSUME IfcIInv, NEW n \in IfcName, NEW list \in Lists,
           NEW protos \in [DOMAIN list -> Proto], MethodsDefine(n, list, protos)
    PROVE  Next /\ TablesFilled' /\ IfcTypeOK'
  <1> DEFINE i == ifcCmds[n]
             b == baseIfc[i]
             base == BaseSlots(i)
             total == base + Len(list)
             C == CommandsOf(n, list)
             gain == [j \in Ifc |-> IF j = i THEN Len(list) ELSE 0]
             again == [j \in Ifc |-> IF j = i THEN Len(list) - Cardinality(C) ELSE 0]
             drop == [j \in Ifc |-> MethodsBound(C)[j] + again[j]]
             F == Freed(gain, drop)
             T == SlotsOf(i, total)
             table == [s \in T |-> IF s[2] <= base THEN slotProto[<<b, s[2]>>]
                                   ELSE protos[s[2] - base]]
  <1>0. /\ i # None /\ nMethods[i] = 0
        /\ total \in 1 .. MaxMethods
        /\ baseIfc' = Without(baseIfc, F, None)
        /\ nMethods' = [Without(nMethods, F, 0) EXCEPT ![i] = total]
        /\ SlotsChange(table, TablesOf(F))
        /\ methods' = [c \in MethodCmd |-> IF c \in C THEN SlotOf(i, list, c[2]) ELSE methods[c]]
        /\ ifcCmds' = ifcCmds
    BY DEF MethodsDefine
  <1>1. /\ i = ifcCmds[n] /\ b = baseIfc[i] /\ base = BaseSlots(i)
        /\ total = base + Len(list) /\ F \in SUBSET Ifc
    BY FreedTyped
  <1> HIDE DEF i, b, base, total, F
  <1>2. PICK len \in Nat : list \in [1 .. len -> Method]
    BY SlotIs DEF Lists
  <1>3. DOMAIN list = 1 .. len /\ Len(list) = len /\ list \in Seq(Method)
    <2>1. list \in Seq(Method) /\ DOMAIN list = 1 .. len
      BY <1>2
    <2> QED BY <2>1, <1>2, LenProperties
  <1>4. i \in Ifc /\ b \in Ifc \cup {None}
    BY <1>0, <1>1 DEF IfcIInv, IfcTypeOK
  <1>5. base = IF b = None THEN 0 ELSE nMethods[b]
    BY <1>0, <1>1 DEF BaseSlots
  <1>6. base \in Nat /\ (base > 0 => b \in Ifc /\ base = nMethods[b] /\ base <= MaxMethods)
    BY <1>4, <1>5, SlotIs DEF IfcIInv, IfcTypeOK
  <1>7. T \in SUBSET Slot
    BY <1>0, <1>1, <1>4, SlotIs DEF SlotsOf
  <1>8. ASSUME NEW s \in T PROVE table[s] \in Proto
    <2>1. s[1] = i /\ s[2] \in 1 .. total
      BY DEF SlotsOf
    <2>2. CASE s[2] <= base
      <3>1. b \in Ifc /\ s[2] \in 1 .. MaxMethods /\ s[2] <= nMethods[b]
        BY <1>0, <1>1, <1>6, <2>1, <2>2, SlotIs
      <3>2. <<b, s[2]>> \in Slot
        BY <3>1, SlotIs
      <3>3. slotProto[<<b, s[2]>>] # None
        BY <3>1, <3>2 DEF IfcIInv, TablesFilled
      <3>4. slotProto[<<b, s[2]>>] \in Proto
        BY <3>2, <3>3 DEF IfcIInv, IInv, TypeOK
      <3> QED BY <2>2, <3>4
    <2>3. CASE ~ (s[2] <= base)
      <3>1. s[2] - base \in 1 .. len
        BY <1>0, <1>1, <1>3, <1>6, <2>1, <2>3
      <3>2. protos[s[2] - base] \in Proto
        BY <1>3, <3>1
      <3> QED BY <2>3, <3>2
    <2> QED BY <2>2, <2>3
  <1>9. table \in [T -> Proto]
    BY <1>8
  <1>10. \A s \in Slot : s \in T <=> s[1] = i /\ s[2] <= total
    BY <1>0, <1>1, SlotIs DEF SlotsOf
  <1> HIDE DEF table, T
  <1>11. /\ Next
         /\ \A s \in Slot :
                slotProto'[s] = IF s \in T THEN table[s]
                                ELSE IF s[1] \in F /\ s[2] <= nMethods[s[1]] THEN None
                                ELSE slotProto[s]
    BY <1>0, <1>1, <1>7, <1>9, TablesChanged
  <1>12. /\ \A j \in Ifc : nMethods'[j] = IF j = i THEN total
                                          ELSE IF j \in F THEN 0 ELSE nMethods[j]
         /\ nMethods' \in [Ifc -> 0 .. MaxMethods]
    <2>1. /\ Without(nMethods, F, 0) \in [Ifc -> 0 .. MaxMethods]
          /\ \A j \in Ifc : Without(nMethods, F, 0)[j] = IF j \in F THEN 0 ELSE nMethods[j]
      BY SlotIs DEF Without, IfcIInv, IfcTypeOK
    <2>2. nMethods' = [Without(nMethods, F, 0) EXCEPT ![i] = total] /\ total \in 0 .. MaxMethods
      BY <1>0
    <2> QED BY <1>4, <2>1, <2>2
  <1>13. TablesFilled'
    <2> SUFFICES ASSUME NEW s \in Slot
                 PROVE  slotProto'[s] # None <=> s[2] <= nMethods'[s[1]]
      BY DEF TablesFilled
    <2>1. slotProto[s] # None <=> s[2] <= nMethods[s[1]]
      BY DEF IfcIInv, TablesFilled
    <2>2. s[1] \in Ifc /\ s[2] \in Int /\ s[2] > 0
      BY SlotIs
    <2>3. s \in T <=> s[1] = i /\ s[2] <= total
      BY <1>10
    <2>4. s \in T => table[s] # None
      BY <1>9, Kinds3
    <2>5. s[1] = i => ~ (s[2] <= nMethods[i])
      BY <1>0, <1>1, <2>2
    <2> QED BY <1>11, <1>12, <2>1, <2>2, <2>3, <2>4, <2>5
  <1>14. methods' \in [MethodCmd -> Slot \cup {None}]
    <2>1. ASSUME NEW c \in CommandsOf(n, list) PROVE SlotOf(i, list, c[2]) \in Slot
      <3>1. PICK k \in DOMAIN list : c[2] = list[k]
        BY DEF CommandsOf
      <3>2. BaseSlots(i) \in Nat /\ BaseSlots(i) + len <= MaxMethods
        BY <1>0, <1>1, <1>3, <1>6
      <3> QED BY <1>3, <1>4, <3>1, <3>2, SlotOfTyped
    <2>2. \A c \in MethodCmd : methods[c] \in Slot \cup {None}
      BY DEF IfcIInv, IfcTypeOK
    <2> QED BY <1>0, <1>1, <2>1, <2>2
  <1>15. baseIfc' \in [Ifc -> Ifc \cup {None}]
    BY <1>0, <1>1, WithoutTyped DEF IfcIInv, IfcTypeOK
  <1>16. ifcCmds' \in [IfcName -> Ifc \cup {None}]
    BY <1>0, <1>1 DEF IfcIInv, IfcTypeOK
  <1> QED BY <1>11, <1>12, <1>13, <1>14, <1>15, <1>16 DEF IfcTypeOK

LEMMA OrdinarySlots ==
    ASSUME Ordinary
    PROVE  slotProto' = slotProto
  BY DEF Ordinary, WrapperCreate, WrapperDestroy, DefineFunction, FunctionDelete,
         FunctionCall, CallPointer, CallProto, ErrorHandler, FunctionReturn,
         PrototypeDefine, PrototypeDelete, CallbackNew, CallbackFree, CallbackInvoke,
         CallbackReturn, bindings

LEMMA OrdinaryStep ==
    ASSUME IfcIInv, Ordinary, UNCHANGED ifcVars
    PROVE  Next /\ TablesFilled' /\ IfcTypeOK'
  <1>1. slotProto' = slotProto
    BY OrdinarySlots
  <1> QED BY <1>1 DEF Next, TablesFilled, IfcIInv, IfcTypeOK, ifcVars

LEMMA MethodCallStep ==
    ASSUME IfcIInv, NEW c \in MethodCmd, NEW f \in Fn, MethodCall(c, f)
    PROVE  Next /\ TablesFilled' /\ IfcTypeOK'
  <1>1. methods[c] \in Slot /\ CallMethod(f, methods[c]) /\ UNCHANGED ifcVars
    BY DEF MethodCall, IfcIInv, IfcTypeOK
  <1>2. slotProto' = slotProto
    BY <1>1 DEF CallMethod, CallProto
  <1>3. Next
    BY <1>1 DEF Next
  <1> QED BY <1>1, <1>2, <1>3 DEF TablesFilled, IfcIInv, IfcTypeOK, ifcVars

LEMMA IfcStep ==
    ASSUME IfcIInv, [IfcNext]_<<vars, ifcVars>>
    PROVE  [Next]_vars /\ IfcIInv'
  <1>1. [Next]_vars /\ TablesFilled' /\ IfcTypeOK'
    <2>1. CASE UNCHANGED <<vars, ifcVars>>
      BY <2>1 DEF vars, ifcVars, TablesFilled, IfcIInv, IfcTypeOK
    <2>2. CASE IfcNext
      BY <2>2, CreateStep, DestroyStep, DefineStep, FailStep, DeleteStep, MethodCallStep,
         OrdinaryStep DEF IfcNext
    <2> QED BY <2>1, <2>2
  <1>2. IInv'
    BY <1>1, Steps DEF IfcIInv
  <1> QED BY <1>1, <1>2 DEF IfcIInv

LEMMA IfcStarts == IfcInit => IfcIInv
  <1> SUFFICES ASSUME IfcInit PROVE IfcIInv
    OBVIOUS
  <1>1. IInv
    BY Starts DEF IfcInit
  <1>2. IfcTypeOK
    BY SlotIs DEF IfcInit, IfcTypeOK
  <1>3. TablesFilled
    <2> SUFFICES ASSUME NEW s \in Slot PROVE slotProto[s] = None /\ ~ (s[2] <= nMethods[s[1]])
      BY DEF TablesFilled
    <2> QED BY SlotIs DEF IfcInit, Init
  <1> QED BY <1>1, <1>2, <1>3 DEF IfcIInv

LEMMA IfcInductive == IfcSpec => []IfcIInv
  <1>1. IfcIInv /\ [IfcNext]_<<vars, ifcVars>> => IfcIInv'
    BY IfcStep
  <1> QED BY <1>1, IfcStarts, PTL DEF IfcSpec

-----------------------------------------------------------------------------
(* The references to interfaces.  Every step changes commands, methods and *)
(* derivations, and counts what it changes, before interfaces are freed;   *)
(* those that are freed release their bases.                               *)

CommandsFor(i) == {n \in IfcName : ifcCmds[n] = i}

MethodsFor(i) == {c \in MethodCmd : methods[c] # None /\ methods[c][1] = i}

DerivedFrom(i) == {j \in Ifc : baseIfc[j] = i}

Held(i) ==
    Cardinality(CommandsFor(i)) + Cardinality(MethodsFor(i))
        + Cardinality(DerivedFrom(i))

IfcCounted ==
    /\ ifcRefs \in [Ifc -> Nat]
    /\ \A i \in Ifc : /\ IsFiniteSet(CommandsFor(i)) /\ IsFiniteSet(MethodsFor(i))
                      /\ IsFiniteSet(DerivedFrom(i))
                      /\ ifcRefs[i] = Held(i)

\* An unused block has no base and no table.
UnusedEmpty ==
    /\ nInherited \in [Ifc -> Nat]
    /\ \A i \in Ifc : ifcRefs[i] = 0 =>
           baseIfc[i] = None /\ nMethods[i] = 0 /\ nInherited[i] = 0

\* Methods have slots of their own interface, and bases keep the slots that
\* others have inherited.
Placed ==
    /\ \A c \in MethodCmd : methods[c] # None =>
           methods[c][2] \in nInherited[methods[c][1]] + 1 .. nMethods[methods[c][1]]
    /\ \A i \in Ifc : nInherited[i] > 0 =>
           /\ nInherited[i] <= nMethods[i]
           /\ baseIfc[i] \in Ifc /\ nInherited[i] <= nMethods[baseIfc[i]]
    /\ \A i \in Ifc : \A k \in 1 .. nInherited[i] :
           slotProto[<<i, k>>] = slotProto[<<baseIfc[i], k>>]

IfcUsed == IfcCounted /\ UnusedEmpty /\ Placed

LEMMA DerivedIs ==
    ASSUME NEW i \in Ifc, IsFiniteSet(DerivedFrom(i)), NEW S \in SUBSET Ifc
    PROVE  /\ Derived(S, i) = Cardinality(DerivedFrom(i) \cap S)
           /\ Derived(S, i) \in Nat
           /\ \A T \in SUBSET S : Derived(T, i) \in Nat /\ Derived(T, i) <= Derived(S, i)
           /\ Cardinality(DerivedFrom(i) \ S) = Cardinality(DerivedFrom(i)) - Derived(S, i)
           /\ IsFiniteSet(DerivedFrom(i) \ S)
  <1>1. ASSUME NEW T \in SUBSET Ifc
        PROVE  /\ Derived(T, i) = Cardinality(DerivedFrom(i) \cap T)
               /\ Derived(T, i) \in Nat /\ IsFiniteSet(DerivedFrom(i) \cap T)
    <2>1. {j \in T : baseIfc[j] = i} = DerivedFrom(i) \cap T
      BY DEF DerivedFrom
    <2>2. IsFiniteSet(DerivedFrom(i) \cap T)
      BY FS_Subset
    <2> QED BY <2>1, <2>2, FS_CardinalityType DEF Derived
  <1>2. ASSUME NEW T \in SUBSET S PROVE Derived(T, i) \in Nat /\ Derived(T, i) <= Derived(S, i)
    <2>1. DerivedFrom(i) \cap T \in SUBSET (DerivedFrom(i) \cap S)
      OBVIOUS
    <2>2. Cardinality(DerivedFrom(i) \cap T) <= Cardinality(DerivedFrom(i) \cap S)
      BY <1>1, <2>1, FS_Subset
    <2> QED BY <1>1, <2>2
  <1>3. /\ Cardinality(DerivedFrom(i) \ S)
               = Cardinality(DerivedFrom(i)) - Cardinality(DerivedFrom(i) \cap S)
        /\ IsFiniteSet(DerivedFrom(i) \ S)
    BY FS_Difference
  <1> QED BY <1>1, <1>2, <1>3

\* The interfaces that are freed are those whose references are all released, by
\* the step or by others that are freed, and no others.
LEMMA FreedFacts ==
    ASSUME IfcCounted, NEW gain \in [Ifc -> Nat], NEW drop \in [Ifc -> Nat],
           NEW F, F = Freed(gain, drop), NEW i \in Ifc
    PROVE  /\ F \in SUBSET Ifc
           /\ i \in F <=> ifcRefs[i] > 0 /\ ifcRefs[i] + gain[i] <= drop[i] + Derived(F, i)
  <1> DEFINE Loses(j, S) == ifcRefs[j] > 0 /\ ifcRefs[j] + gain[j] <= drop[j] + Derived(S, j)
             Closed(S) == \A j \in Ifc : Loses(j, S) => j \in S
  <1>1. F = {k \in Ifc : \A S \in SUBSET Ifc : Closed(S) => k \in S}
    BY DEF Freed
  <1>2. ASSUME NEW j \in Ifc, NEW S \in SUBSET Ifc, NEW T \in SUBSET S, Loses(j, T)
        PROVE  Loses(j, S)
    <2>1. Derived(T, j) \in Nat /\ Derived(S, j) \in Nat /\ Derived(T, j) <= Derived(S, j)
      BY DerivedIs DEF IfcCounted
    <2>2. ifcRefs[j] \in Nat /\ gain[j] \in Nat /\ drop[j] \in Nat
      BY DEF IfcCounted
    <2> QED BY <1>2, <2>1, <2>2
  <1> HIDE DEF Loses
  <1>3. Closed(F)
    <2> SUFFICES ASSUME NEW j \in Ifc, Loses(j, F), NEW S \in SUBSET Ifc, Closed(S)
                 PROVE  j \in S
      BY <1>1
    <2>1. F \in SUBSET S
      BY <1>1
    <2> QED BY <1>2, <2>1
  <1>4. ASSUME i \in F, ~ Loses(i, F) PROVE FALSE
    <2> DEFINE S == F \ {i}
    <2>1. S \in SUBSET F /\ S \in SUBSET Ifc /\ F \in SUBSET Ifc
      BY <1>1
    <2>2. Closed(S)
      <3> SUFFICES ASSUME NEW j \in Ifc, Loses(j, S) PROVE j \in S
        OBVIOUS
      <3>1. Loses(j, F)
        BY <1>2, <2>1
      <3> QED BY <1>3, <1>4, <3>1
    <2>3. i \in S
      BY <1>1, <1>4, <2>1, <2>2
    <2> QED BY <2>3
  <1>5. F \in SUBSET Ifc /\ (i \in F <=> Loses(i, F))
    BY <1>1, <1>3, <1>4
  <1> QED BY <1>5 DEF Loses

\* One count after a step: own is the number of commands, of the interface and of its
\* methods; of the interfaces derived from it those in F go and those in E come.
LEMMA Released ==
    ASSUME IfcCounted, NEW gain \in [Ifc -> Nat], NEW drop \in [Ifc -> Nat],
           NEW F, F = Freed(gain, drop), RecountIfcs(gain, drop), NEW i \in Ifc,
           NEW E, IsFiniteSet(E), E \cap DerivedFrom(i) = {},
           NEW D, D = (DerivedFrom(i) \ F) \cup E,
           NEW own \in Nat,
           own + Cardinality(DerivedFrom(i)) + Cardinality(E)
               = ifcRefs[i] + gain[i] - drop[i]
    PROVE  /\ IsFiniteSet(D) /\ ifcRefs'[i] = own + Cardinality(D)
           /\ i \in F <=> ifcRefs[i] > 0 /\ ifcRefs'[i] = 0
           /\ ifcRefs'[i] \in Nat
  <1>1. /\ IsFiniteSet(DerivedFrom(i)) /\ F \in SUBSET Ifc /\ ifcRefs[i] \in Nat
        /\ gain[i] \in Nat /\ drop[i] \in Nat
    BY FreedFacts DEF IfcCounted
  <1>2. /\ Cardinality(DerivedFrom(i) \ F) = Cardinality(DerivedFrom(i)) - Derived(F, i)
        /\ IsFiniteSet(DerivedFrom(i) \ F) /\ Derived(F, i) \in Nat
    BY <1>1, DerivedIs
  <1>3. IsFiniteSet(D) /\ Cardinality(D) = Cardinality(DerivedFrom(i) \ F) + Cardinality(E)
    <2>1. (DerivedFrom(i) \ F) \cap E = {}
      OBVIOUS
    <2>2. /\ IsFiniteSet((DerivedFrom(i) \ F) \cup E)
          /\ Cardinality((DerivedFrom(i) \ F) \cup E)
                 = Cardinality(DerivedFrom(i) \ F) + Cardinality(E)
                       - Cardinality((DerivedFrom(i) \ F) \cap E)
      BY <1>2, FS_Union
    <2>3. /\ Cardinality(DerivedFrom(i) \ F) \in Nat /\ Cardinality(E) \in Nat
          /\ Cardinality((DerivedFrom(i) \ F) \cap E) = 0
      BY <1>2, <2>1, FS_CardinalityType, FS_EmptySet
    <2> QED BY <2>2, <2>3
  <1>4. /\ Cardinality(DerivedFrom(i)) \in Nat /\ Cardinality(D) \in Nat
        /\ Cardinality(E) \in Nat
    BY <1>1, <1>3, FS_CardinalityType
  <1>5. own + Cardinality(D) = ifcRefs[i] + gain[i] - drop[i] - Derived(F, i)
    BY <1>1, <1>2, <1>3, <1>4
  <1>6. i \in F <=> ifcRefs[i] > 0 /\ ifcRefs[i] + gain[i] <= drop[i] + Derived(F, i)
    BY FreedFacts
  <1>7. ifcRefs'[i] = IF i \in F THEN 0 ELSE ifcRefs[i] + gain[i] - drop[i] - Derived(F, i)
    BY DEF RecountIfcs
  <1>8. own + Cardinality(D) \in Nat
    BY <1>4
  <1>9. Derived(F, i) \in Nat
    BY <1>2
  <1>10. CASE i \in F
    <2>1. ifcRefs'[i] = 0 /\ ifcRefs[i] > 0
      BY <1>6, <1>7, <1>10
    <2>2. own + Cardinality(D) = 0
      BY <1>1, <1>5, <1>6, <1>8, <1>9, <1>10
    <2> QED BY <1>3, <1>10, <2>1, <2>2
  <1>11. CASE i \notin F
    <2>1. ifcRefs'[i] = own + Cardinality(D)
      BY <1>5, <1>7, <1>11
    <2>2. ~ (ifcRefs[i] > 0 /\ own + Cardinality(D) = 0)
      BY <1>1, <1>5, <1>6, <1>9, <1>11
    <2> QED BY <1>3, <1>8, <1>11, <2>1, <2>2
  <1> QED BY <1>10, <1>11


\* Whatever is referred to is in use.
HeldAreUsed ==
    \A i \in Ifc : CommandsFor(i) # {} \/ MethodsFor(i) # {} \/ DerivedFrom(i) # {} =>
        ifcRefs[i] > 0

LEMMA CountedAreUsed == IfcCounted => HeldAreUsed
  <1> SUFFICES ASSUME IfcCounted, NEW i \in Ifc,
                      CommandsFor(i) # {} \/ MethodsFor(i) # {} \/ DerivedFrom(i) # {}
               PROVE  ifcRefs[i] > 0
    BY DEF HeldAreUsed
  <1>1. /\ IsFiniteSet(CommandsFor(i)) /\ IsFiniteSet(MethodsFor(i))
        /\ IsFiniteSet(DerivedFrom(i)) /\ ifcRefs[i] = Held(i)
    BY DEF IfcCounted
  <1>2. /\ Cardinality(CommandsFor(i)) \in Nat /\ Cardinality(MethodsFor(i)) \in Nat
        /\ Cardinality(DerivedFrom(i)) \in Nat
    BY <1>1, FS_CardinalityType
  <1>3. /\ Cardinality(CommandsFor(i)) = 0 <=> CommandsFor(i) = {}
        /\ Cardinality(MethodsFor(i)) = 0 <=> MethodsFor(i) = {}
        /\ Cardinality(DerivedFrom(i)) = 0 <=> DerivedFrom(i) = {}
    BY <1>1, FS_EmptySet
  <1> QED BY <1>1, <1>2, <1>3 DEF Held

LEMMA UsedAfter == IfcCounted' => HeldAreUsed'
  BY CountedAreUsed, PTL

\* A step in which the interfaces F are freed, perhaps one is created, and methods
\* are only deleted.
LEMMA PlacedAfterRelease ==
    ASSUME IfcIInv, IfcUsed, IfcTypeOK', IfcCounted', NEW F \in SUBSET Ifc,
           \A i \in Ifc : i \in F <=> ifcRefs[i] > 0 /\ ifcRefs'[i] = 0,
           nMethods' = Without(nMethods, F, 0), nInherited' = Without(nInherited, F, 0),
           SlotsChange(<<>>, TablesOf(F)),
           NEW e, e \in Ifc => ifcRefs[e] = 0 /\ ifcRefs'[e] > 0,
           \A j \in Ifc : j # e => baseIfc'[j] = IF j \in F THEN None ELSE baseIfc[j],
           \A c \in MethodCmd : methods'[c] \in {methods[c], None}
    PROVE  UnusedEmpty' /\ Placed'
  <1>1. /\ \A i \in Ifc : nMethods'[i] = IF i \in F THEN 0 ELSE nMethods[i]
        /\ \A i \in Ifc : nInherited'[i] = IF i \in F THEN 0 ELSE nInherited[i]
        /\ nInherited' \in [Ifc -> Nat]
    BY DEF Without, IfcUsed, UnusedEmpty
  <1>2. \A s \in Slot : slotProto'[s] = IF s[1] \in F /\ s[2] <= nMethods[s[1]] THEN None
                                        ELSE slotProto[s]
    BY SlotsCleared
  <1>3. HeldAreUsed'
    BY UsedAfter
  <1>4. e \in Ifc => e \notin F /\ nInherited[e] = 0 /\ nMethods[e] = 0
    BY DEF IfcUsed, UnusedEmpty
  <1>5. UnusedEmpty'
    <2> SUFFICES ASSUME NEW i \in Ifc, ifcRefs'[i] = 0
                 PROVE  baseIfc'[i] = None /\ nMethods'[i] = 0 /\ nInherited'[i] = 0
      BY <1>1 DEF UnusedEmpty
    <2>1. i # e
      OBVIOUS
    <2>2. CASE i \in F
      BY <1>1, <2>1, <2>2
    <2>3. CASE i \notin F
      <3>1. ifcRefs[i] = 0
        BY <2>3 DEF IfcUsed, IfcCounted
      <3> QED BY <1>1, <2>1, <2>3, <3>1 DEF IfcUsed, UnusedEmpty
    <2> QED BY <2>2, <2>3
  <1>6. ASSUME NEW c \in MethodCmd, methods'[c] # None
        PROVE  methods'[c][2] \in nInherited'[methods'[c][1]] + 1 .. nMethods'[methods'[c][1]]
    <2>1. methods'[c] = methods[c] /\ methods[c] \in Slot /\ methods[c][1] \in Ifc
      BY <1>6, SlotIs DEF IfcIInv, IfcTypeOK
    <2>2. c \in MethodsFor(methods[c][1])'
      BY <1>6, <2>1 DEF MethodsFor
    <2>3. ifcRefs'[methods[c][1]] > 0
      BY <1>3, <2>1, <2>2 DEF HeldAreUsed
    <2>4. methods[c][1] \notin F
      BY <2>1, <2>3
    <2>5. methods[c][2] \in nInherited[methods[c][1]] + 1 .. nMethods[methods[c][1]]
      BY <1>6, <2>1 DEF IfcUsed, Placed
    <2> QED BY <1>1, <2>1, <2>4, <2>5
  <1>7. ASSUME NEW i \in Ifc, nInherited'[i] > 0
        PROVE  /\ i \notin F /\ baseIfc'[i] = baseIfc[i] /\ baseIfc[i] \in Ifc
               /\ baseIfc[i] \notin F /\ nInherited[i] > 0
               /\ nInherited[i] <= nMethods[i] /\ nInherited[i] <= nMethods[baseIfc[i]]
    <2>1. i \notin F /\ nInherited[i] > 0 /\ i # e
      BY <1>1, <1>4, <1>7
    <2>2. /\ baseIfc[i] \in Ifc /\ nInherited[i] <= nMethods[i]
          /\ nInherited[i] <= nMethods[baseIfc[i]]
      BY <2>1 DEF IfcUsed, Placed
    <2>3. baseIfc'[i] = baseIfc[i]
      BY <2>1
    <2>4. PICK b \in Ifc : b = baseIfc[i]
      BY <2>2
    <2>5. i \in DerivedFrom(b)'
      BY <2>3, <2>4 DEF DerivedFrom
    <2>6. ifcRefs'[b] > 0
      BY <1>3, <2>5 DEF HeldAreUsed
    <2> QED BY <2>1, <2>2, <2>3, <2>4, <2>6
  <1>8. ASSUME NEW i \in Ifc, NEW k \in 1 .. nInherited'[i]
        PROVE  slotProto'[<<i, k>>] = slotProto'[<<baseIfc'[i], k>>]
    <2>1. nInherited'[i] > 0 /\ k \in 1 .. nInherited[i]
      BY <1>1
    <2>2. /\ i \notin F /\ baseIfc'[i] = baseIfc[i] /\ baseIfc[i] \in Ifc /\ baseIfc[i] \notin F
          /\ nInherited[i] <= nMethods[i]
      BY <1>7, <2>1
    <2>3. k \in 1 .. MaxMethods
      BY <2>1, <2>2, SlotIs DEF IfcIInv, IfcTypeOK, IfcUsed, UnusedEmpty
    <2>4. <<i, k>> \in Slot /\ <<baseIfc[i], k>> \in Slot
      BY <2>2, <2>3, SlotIs
    <2>5. slotProto[<<i, k>>] = slotProto[<<baseIfc[i], k>>]
      BY <2>1 DEF IfcUsed, Placed
    <2> QED BY <1>2, <2>2, <2>4, <2>5
  <1>9. Placed'
    BY <1>1, <1>6, <1>7, <1>8 DEF Placed
  <1> QED BY <1>5, <1>9

\* Commands of interfaces, when one of them is bound to another interface or none.
LEMMA CommandsMoved ==
    ASSUME IfcIInv, IfcCounted, NEW n \in IfcName, NEW new \in Ifc \cup {None},
           new # ifcCmds[n], ifcCmds' = [ifcCmds EXCEPT ![n] = new], NEW i \in Ifc
    PROVE  /\ IsFiniteSet(CommandsFor(i)')
           /\ Cardinality(CommandsFor(i)') = Cardinality(CommandsFor(i))
                                             + One(i = new) - One(i = ifcCmds[n])
           /\ Cardinality(CommandsFor(i)) \in Nat
  <1>1. IsFiniteSet(CommandsFor(i)) /\ Cardinality(CommandsFor(i)) \in Nat
    BY FS_CardinalityType DEF IfcCounted
  <1>2. \A m \in IfcName : ifcCmds'[m] = IF m = n THEN new ELSE ifcCmds[m]
    BY DEF IfcIInv, IfcTypeOK
  <1>3. CASE i = new
    <2>1. CommandsFor(i)' = CommandsFor(i) \cup {n} /\ n \notin CommandsFor(i)
      BY <1>2, <1>3 DEF CommandsFor
    <2>2. /\ IsFiniteSet(CommandsFor(i) \cup {n})
          /\ Cardinality(CommandsFor(i) \cup {n}) = Cardinality(CommandsFor(i)) + 1
      BY <1>1, <2>1, FS_AddElement
    <2>3. One(i = new) = 1 /\ One(i = ifcCmds[n]) = 0
      BY <1>3 DEF One
    <2>4. IsFiniteSet(CommandsFor(i)')
      BY <2>1, <2>2
    <2> QED BY <1>1, <2>1, <2>2, <2>3, <2>4
  <1>4. CASE i = ifcCmds[n]
    <2>1. CommandsFor(i)' = CommandsFor(i) \ {n} /\ n \in CommandsFor(i)
      BY <1>2, <1>4 DEF CommandsFor
    <2>2. /\ IsFiniteSet(CommandsFor(i) \ {n})
          /\ Cardinality(CommandsFor(i) \ {n}) = Cardinality(CommandsFor(i)) - 1
      BY <1>1, <2>1, FS_RemoveElement
    <2>3. One(i = new) = 0 /\ One(i = ifcCmds[n]) = 1
      BY <1>4 DEF One
    <2>4. IsFiniteSet(CommandsFor(i)')
      BY <2>1, <2>2
    <2> QED BY <1>1, <2>1, <2>2, <2>3, <2>4
  <1>5. CASE i # new /\ i # ifcCmds[n]
    <2>1. CommandsFor(i)' = CommandsFor(i)
      BY <1>2, <1>5 DEF CommandsFor
    <2> QED BY <1>1, <1>5, <2>1 DEF One
  <1> QED BY <1>3, <1>4, <1>5

LEMMA CreateUsed ==
    ASSUME IfcIInv, IfcUsed, IfcTypeOK', NEW n \in IfcName, NEW i \in Ifc,
           NEW b \in Ifc \cup {None}, InterfaceCreate(n, i, b)
    PROVE  IfcUsed'
  <1> DEFINE gain == CreateGain(i, b)
             drop == OneIfc(ifcCmds[n])
             F == Freed(gain, drop)
  <1>1. /\ ifcRefs[i] = 0
        /\ b # None => \E m \in IfcName : ifcCmds[m] = b
        /\ RecountIfcs(gain, drop)
        /\ baseIfc' = [Without(baseIfc, F, None) EXCEPT ![i] = b]
        /\ nMethods' = Without(nMethods, F, 0)
        /\ nInherited' = Without(nInherited, F, 0)
        /\ SlotsChange(<<>>, TablesOf(F))
        /\ ifcCmds' = [ifcCmds EXCEPT ![n] = i]
        /\ methods' = methods
    BY DEF InterfaceCreate
  <1>2. /\ \A j \in Ifc : gain[j] = One(j = i) + One(j = b) /\ drop[j] = One(j = ifcCmds[n])
        /\ gain \in [Ifc -> Nat] /\ drop \in [Ifc -> Nat]
    BY DEF CreateGain, OneIfc, One
  <1>3. F \in SUBSET Ifc /\ F = Freed(gain, drop)
    BY FreedTyped
  <1> HIDE DEF gain, drop, F
  <1>4. IfcCounted /\ UnusedEmpty /\ Placed /\ HeldAreUsed
    BY CountedAreUsed DEF IfcUsed
  <1>5. i # ifcCmds[n] /\ i # b /\ baseIfc[i] = None
    <2>1. CommandsFor(i) = {}
      BY <1>1, <1>4 DEF HeldAreUsed
    <2> QED BY <1>1, <1>4, <2>1, SlotIs DEF CommandsFor, UnusedEmpty
  <1>6. i \notin F
    <2>1. /\ IfcCounted /\ F = Freed(gain, drop)
          /\ gain \in [Ifc -> Nat] /\ drop \in [Ifc -> Nat]
      BY <1>2, <1>3, <1>4
    <2>2. i \in F => ifcRefs[i] > 0
      BY <2>1, FreedFacts
    <2> QED BY <1>1, <2>2
  <1>7. \A j \in Ifc : baseIfc'[j] = IF j = i THEN b ELSE IF j \in F THEN None ELSE baseIfc[j]
    BY <1>1 DEF Without, IfcIInv, IfcTypeOK
  <1>8. ASSUME NEW j \in Ifc
        PROVE  /\ IsFiniteSet(CommandsFor(j)') /\ IsFiniteSet(MethodsFor(j)')
               /\ IsFiniteSet(DerivedFrom(j)') /\ ifcRefs'[j] = Held(j)'
               /\ j \in F <=> ifcRefs[j] > 0 /\ ifcRefs'[j] = 0
               /\ ifcRefs'[j] \in Nat
    <2> DEFINE E == IF j = b THEN {i} ELSE {}
    <2>1. /\ IsFiniteSet(CommandsFor(j)') /\ Cardinality(CommandsFor(j)) \in Nat
          /\ Cardinality(CommandsFor(j)')
                 = Cardinality(CommandsFor(j)) + One(j = i) - One(j = ifcCmds[n])
      <3>1. IfcIInv /\ IfcCounted /\ i \in Ifc \cup {None} /\ i # ifcCmds[n]
        BY <1>4, <1>5
      <3>2. ifcCmds' = [ifcCmds EXCEPT ![n] = i]
        BY <1>1
      <3> QED BY <3>1, <3>2, CommandsMoved DEF CommandsFor, One
    <2>2. MethodsFor(j)' = MethodsFor(j)
      BY <1>1 DEF MethodsFor
    <2>3. IsFiniteSet(MethodsFor(j)) /\ IsFiniteSet(DerivedFrom(j)) /\ ifcRefs[j] = Held(j)
      BY <1>4 DEF IfcCounted
    <2>4. Cardinality(MethodsFor(j)) \in Nat /\ Cardinality(DerivedFrom(j)) \in Nat
      BY <2>3, FS_CardinalityType
    <2>5. IsFiniteSet(E) /\ Cardinality(E) = One(j = b) /\ E \cap DerivedFrom(j) = {}
      <3>1. IsFiniteSet({i}) /\ Cardinality({i}) = 1
        BY FS_Singleton
      <3>2. IsFiniteSet({}) /\ Cardinality({}) = 0
        BY FS_EmptySet
      <3>3. i \notin DerivedFrom(j)
        BY <1>5, SlotIs DEF DerivedFrom
      <3> QED BY <3>1, <3>2, <3>3 DEF One
    <2>6. DerivedFrom(j)' = (DerivedFrom(j) \ F) \cup E
      BY <1>5, <1>6, <1>7, SlotIs DEF DerivedFrom
    <2> HIDE DEF E
    <2>7. One(j = i) \in Nat /\ One(j = b) \in Nat /\ One(j = ifcCmds[n]) \in Nat
      BY DEF One
    <2> DEFINE D == DerivedFrom(j)'
               own == Cardinality(CommandsFor(j)') + Cardinality(MethodsFor(j)')
    <2>8. /\ own + Cardinality(DerivedFrom(j)) + Cardinality(E)
                 = ifcRefs[j] + gain[j] - drop[j]
          /\ IsFiniteSet(MethodsFor(j)') /\ own \in Nat
      <3>1. IsFiniteSet(MethodsFor(j)') /\ Cardinality(MethodsFor(j)') = Cardinality(MethodsFor(j))
        BY <2>2, <2>3
      <3>2. Cardinality(CommandsFor(j)') \in Nat
        BY <2>1, FS_CardinalityType
      <3>3. ifcRefs[j] = Cardinality(CommandsFor(j)) + Cardinality(MethodsFor(j))
                         + Cardinality(DerivedFrom(j))
        BY <2>3 DEF Held
      <3>4. gain[j] = One(j = i) + One(j = b) /\ drop[j] = One(j = ifcCmds[n])
        BY <1>2
      <3> QED BY <2>1, <2>4, <2>5, <2>7, <3>1, <3>2, <3>3, <3>4
    <2>9. Held(j)' = own + Cardinality(D) /\ D = (DerivedFrom(j) \ F) \cup E
      BY <2>6 DEF Held
    <2>10. IsFiniteSet(DerivedFrom(j)') <=> IsFiniteSet(D)
      OBVIOUS
    <2> HIDE DEF D, own
    <2>11. /\ RecountIfcs(gain, drop) /\ IfcCounted /\ F = Freed(gain, drop)
           /\ gain \in [Ifc -> Nat] /\ drop \in [Ifc -> Nat]
      BY <1>1, <1>2, <1>3, <1>4
    <2>12. /\ IsFiniteSet(E) /\ E \cap DerivedFrom(j) = {} /\ D = (DerivedFrom(j) \ F) \cup E
           /\ own \in Nat
           /\ own + Cardinality(DerivedFrom(j)) + Cardinality(E)
                  = ifcRefs[j] + gain[j] - drop[j]
      BY <2>5, <2>8, <2>9
    <2>13. /\ IsFiniteSet(D) /\ ifcRefs'[j] = own + Cardinality(D)
           /\ j \in F <=> ifcRefs[j] > 0 /\ ifcRefs'[j] = 0
           /\ ifcRefs'[j] \in Nat
      BY <2>11, <2>12, Released
    <2> QED BY <2>1, <2>8, <2>9, <2>10, <2>13
  <1>9. IfcCounted'
    <2>1. ifcRefs' \in [Ifc -> Nat]
      <3>1. DOMAIN ifcRefs' = Ifc /\ ifcRefs' = [j \in Ifc |-> ifcRefs'[j]]
        BY <1>1 DEF RecountIfcs
      <3> QED BY <1>8, <3>1
    <2> QED BY <1>8, <2>1 DEF IfcCounted
  <1>10. ifcRefs'[i] > 0
    <2>1. ifcCmds'[n] = i
      BY <1>1 DEF IfcIInv, IfcTypeOK
    <2>2. n \in CommandsFor(i)'
      BY <2>1 DEF CommandsFor
    <2> QED BY <1>9, <2>2, UsedAfter DEF HeldAreUsed
  <1>11. UnusedEmpty' /\ Placed'
    BY <1>1, <1>3, <1>7, <1>8, <1>9, <1>10, PlacedAfterRelease
  <1> QED BY <1>9, <1>11 DEF IfcUsed

\* Commands are gone, and drop says how many of each interface.
CommandsGone(drop) ==
    \A i \in Ifc : /\ IsFiniteSet(CommandsFor(i)') /\ IsFiniteSet(MethodsFor(i)')
                   /\ Cardinality(CommandsFor(i)') + Cardinality(MethodsFor(i)')
                          = Cardinality(CommandsFor(i)) + Cardinality(MethodsFor(i)) - drop[i]

LEMMA ReleaseUsed ==
    ASSUME IfcIInv, IfcUsed, IfcTypeOK', NEW drop \in [Ifc -> Nat], Release(drop),
           CommandsGone(drop),
           \A c \in MethodCmd : methods'[c] \in {methods[c], None}
    PROVE  IfcUsed'
  <1> DEFINE gain == NoIfc
             F == Freed(gain, drop)
  <1>1. /\ RecountIfcs(gain, drop)
        /\ baseIfc' = Without(baseIfc, F, None)
        /\ nMethods' = Without(nMethods, F, 0)
        /\ nInherited' = Without(nInherited, F, 0)
        /\ SlotsChange(<<>>, TablesOf(F))
    BY DEF Release
  <1>2. /\ F \in SUBSET Ifc /\ F = Freed(gain, drop)
        /\ gain \in [Ifc -> Nat] /\ \A j \in Ifc : gain[j] = 0
    BY FreedTyped DEF NoIfc
  <1> HIDE DEF gain, F
  <1>3. IfcCounted /\ UnusedEmpty /\ Placed
    BY DEF IfcUsed
  <1>4. \A j \in Ifc : baseIfc'[j] = IF j \in F THEN None ELSE baseIfc[j]
    BY <1>1 DEF Without
  <1>5. ASSUME NEW j \in Ifc
        PROVE  /\ IsFiniteSet(CommandsFor(j)') /\ IsFiniteSet(MethodsFor(j)')
               /\ IsFiniteSet(DerivedFrom(j)') /\ ifcRefs'[j] = Held(j)'
               /\ j \in F <=> ifcRefs[j] > 0 /\ ifcRefs'[j] = 0
               /\ ifcRefs'[j] \in Nat
    <2>1. /\ IsFiniteSet(CommandsFor(j)') /\ IsFiniteSet(MethodsFor(j)')
          /\ Cardinality(CommandsFor(j)') + Cardinality(MethodsFor(j)')
                 = Cardinality(CommandsFor(j)) + Cardinality(MethodsFor(j)) - drop[j]
      BY DEF CommandsGone, CommandsFor, MethodsFor
    <2>2. /\ IsFiniteSet(CommandsFor(j)) /\ IsFiniteSet(MethodsFor(j))
          /\ IsFiniteSet(DerivedFrom(j)) /\ ifcRefs[j] = Held(j)
      BY <1>3 DEF IfcCounted
    <2>3. /\ Cardinality(CommandsFor(j)) \in Nat /\ Cardinality(MethodsFor(j)) \in Nat
          /\ Cardinality(DerivedFrom(j)) \in Nat
          /\ Cardinality(CommandsFor(j)') \in Nat /\ Cardinality(MethodsFor(j)') \in Nat
      BY <2>1, <2>2, FS_CardinalityType
    <2>4. PICK E : E = {} /\ IsFiniteSet(E) /\ Cardinality(E) = 0 /\ E \cap DerivedFrom(j) = {}
      BY FS_EmptySet
    <2>5. DerivedFrom(j)' = (DerivedFrom(j) \ F) \cup E
      BY <1>4, <2>4, SlotIs DEF DerivedFrom
    <2> DEFINE D == DerivedFrom(j)'
               own == Cardinality(CommandsFor(j)') + Cardinality(MethodsFor(j)')
    <2>6. /\ own + Cardinality(DerivedFrom(j)) + Cardinality(E)
                 = ifcRefs[j] + gain[j] - drop[j]
          /\ own \in Nat
      BY <1>2, <2>1, <2>2, <2>3, <2>4 DEF Held
    <2>7. Held(j)' = own + Cardinality(D) /\ D = (DerivedFrom(j) \ F) \cup E
      BY <2>5 DEF Held
    <2>8. IsFiniteSet(DerivedFrom(j)') <=> IsFiniteSet(D)
      OBVIOUS
    <2> HIDE DEF D, own
    <2>9. RecountIfcs(gain, drop) /\ IfcCounted
      BY <1>1, <1>3
    <2>10. /\ IsFiniteSet(D) /\ ifcRefs'[j] = own + Cardinality(D)
           /\ j \in F <=> ifcRefs[j] > 0 /\ ifcRefs'[j] = 0
           /\ ifcRefs'[j] \in Nat
      BY <1>2, <2>4, <2>6, <2>7, <2>9, Released
    <2> QED BY <2>1, <2>7, <2>8, <2>10
  <1>6. IfcCounted'
    <2>1. ifcRefs' \in [Ifc -> Nat]
      <3>1. ifcRefs' = [j \in Ifc |-> ifcRefs'[j]]
        BY <1>1 DEF RecountIfcs
      <3> QED BY <1>5, <3>1
    <2> QED BY <1>5, <2>1 DEF IfcCounted
  <1>7. UnusedEmpty' /\ Placed'
    <2>1. None \notin Ifc
      BY SlotIs
    <2> QED BY <1>1, <1>2, <1>4, <1>5, <1>6, <2>1, PlacedAfterRelease
  <1> QED BY <1>6, <1>7 DEF IfcUsed

\* Methods of an interface, when some commands are deleted or replaced.
LEMMA MethodsCleared ==
    ASSUME IfcCounted, NEW C \in SUBSET MethodCmd, NEW i \in Ifc
    PROVE  /\ IsFiniteSet(MethodsFor(i) \ C)
           /\ Cardinality(MethodsFor(i) \ C) = Cardinality(MethodsFor(i)) - MethodsBound(C)[i]
           /\ MethodsBound(C)[i] \in Nat
  <1>1. {c \in C : methods[c] # None /\ methods[c][1] = i} = MethodsFor(i) \cap C
    BY DEF MethodsFor
  <1>2. MethodsBound(C)[i] = Cardinality(MethodsFor(i) \cap C)
    BY <1>1 DEF MethodsBound
  <1>3. IsFiniteSet(MethodsFor(i)) /\ IsFiniteSet(MethodsFor(i) \cap C)
    BY FS_Subset DEF IfcCounted
  <1> QED BY <1>2, <1>3, FS_Difference, FS_CardinalityType

LEMMA DestroyUsed ==
    ASSUME IfcIInv, IfcUsed, IfcTypeOK', NEW n \in IfcName, InterfaceDestroy(n)
    PROVE  IfcUsed'
  <1> DEFINE drop == OneIfc(ifcCmds[n])
  <1>1. /\ ifcCmds[n] # None /\ Release(drop) /\ methods' = methods
        /\ ifcCmds' = [ifcCmds EXCEPT ![n] = None]
    BY DEF InterfaceDestroy
  <1>2. drop \in [Ifc -> Nat] /\ \A j \in Ifc : drop[j] = One(j = ifcCmds[n])
    BY DEF OneIfc, One
  <1> HIDE DEF drop
  <1>3. ASSUME NEW j \in Ifc
        PROVE  /\ IsFiniteSet(CommandsFor(j)') /\ IsFiniteSet(MethodsFor(j)')
               /\ Cardinality(CommandsFor(j)') + Cardinality(MethodsFor(j)')
                      = Cardinality(CommandsFor(j)) + Cardinality(MethodsFor(j)) - drop[j]
    <2>1. /\ IsFiniteSet(CommandsFor(j)') /\ Cardinality(CommandsFor(j)) \in Nat
          /\ Cardinality(CommandsFor(j)')
                 = Cardinality(CommandsFor(j)) + One(j = None) - One(j = ifcCmds[n])
      <3>1. IfcIInv /\ IfcCounted /\ None \in Ifc \cup {None} /\ None # ifcCmds[n]
        BY <1>1 DEF IfcUsed
      <3>2. ifcCmds' = [ifcCmds EXCEPT ![n] = None]
        BY <1>1
      <3> QED BY <3>1, <3>2, CommandsMoved DEF CommandsFor, One
    <2>2. MethodsFor(j)' = MethodsFor(j) /\ IsFiniteSet(MethodsFor(j))
      BY <1>1 DEF MethodsFor, IfcUsed, IfcCounted
    <2>3. Cardinality(MethodsFor(j)) \in Nat
      BY <2>2, FS_CardinalityType
    <2>4. One(j = None) = 0 /\ One(j = ifcCmds[n]) \in Nat
      BY SlotIs DEF One
    <2>5. IsFiniteSet(MethodsFor(j)')
      BY <2>2
    <2> QED BY <1>2, <2>1, <2>2, <2>3, <2>4, <2>5
  <1>4. \A c \in MethodCmd : methods'[c] \in {methods[c], None}
    BY <1>1
  <1>5. CommandsGone(drop)
    BY <1>3 DEF CommandsGone
  <1> QED BY <1>1, <1>2, <1>4, <1>5, ReleaseUsed

\* Method commands are deleted, and nothing else changes.
LEMMA MethodsGoneUsed ==
    ASSUME IfcIInv, IfcUsed, IfcTypeOK', NEW C \in SUBSET MethodCmd,
           Release(MethodsBound(C)), ifcCmds' = ifcCmds,
           \A c \in MethodCmd : methods'[c] = IF c \in C THEN None ELSE methods[c]
    PROVE  IfcUsed'
  <1>1. MethodsBound(C) \in [Ifc -> Nat]
    <2>1. \A j \in Ifc : MethodsBound(C)[j] \in Nat
      BY MethodsCleared DEF IfcUsed
    <2>2. MethodsBound(C) = [j \in Ifc |-> MethodsBound(C)[j]]
      BY DEF MethodsBound
    <2> QED BY <2>1, <2>2
  <1>2. ASSUME NEW j \in Ifc
        PROVE  /\ IsFiniteSet(CommandsFor(j)') /\ IsFiniteSet(MethodsFor(j)')
               /\ Cardinality(CommandsFor(j)') + Cardinality(MethodsFor(j)')
                      = Cardinality(CommandsFor(j)) + Cardinality(MethodsFor(j))
                            - MethodsBound(C)[j]
    <2>1. /\ IsFiniteSet(CommandsFor(j)) /\ IsFiniteSet(MethodsFor(j))
          /\ CommandsFor(j)' = CommandsFor(j)
      BY DEF CommandsFor, IfcUsed, IfcCounted
    <2>2. MethodsFor(j)' = MethodsFor(j) \ C
      BY DEF MethodsFor
    <2>3. /\ IsFiniteSet(MethodsFor(j) \ C)
          /\ Cardinality(MethodsFor(j) \ C) = Cardinality(MethodsFor(j)) - MethodsBound(C)[j]
          /\ MethodsBound(C)[j] \in Nat
      BY MethodsCleared DEF IfcUsed
    <2>4. Cardinality(MethodsFor(j)) \in Nat /\ Cardinality(CommandsFor(j)) \in Nat
      BY <2>1, FS_CardinalityType
    <2>5. IsFiniteSet(MethodsFor(j)') /\ IsFiniteSet(CommandsFor(j)')
      BY <2>1, <2>2, <2>3
    <2> QED BY <2>1, <2>2, <2>3, <2>4, <2>5
  <1>3. \A c \in MethodCmd : methods'[c] \in {methods[c], None}
    OBVIOUS
  <1>4. CommandsGone(MethodsBound(C))
    BY <1>2 DEF CommandsGone
  <1> QED BY <1>1, <1>3, <1>4, ReleaseUsed

LEMMA DeleteUsed ==
    ASSUME IfcIInv, IfcUsed, IfcTypeOK', NEW c \in MethodCmd, MethodDelete(c)
    PROVE  IfcUsed'
  <1>1. \A d \in MethodCmd : methods'[d] = IF d \in {c} THEN None ELSE methods[d]
    BY DEF MethodDelete, IfcIInv, IfcTypeOK
  <1>2. Release(MethodsBound({c})) /\ ifcCmds' = ifcCmds /\ {c} \in SUBSET MethodCmd
    BY DEF MethodDelete
  <1> QED BY <1>1, <1>2, MethodsGoneUsed

LEMMA FailUsed ==
    ASSUME IfcIInv, IfcUsed, IfcTypeOK', NEW n \in IfcName, NEW list \in Lists,
           MethodsFail(n, list)
    PROVE  IfcUsed'
  <1>1. PICK C : C = CommandsOf(n, list)
    OBVIOUS
  <1>2. C \in SUBSET MethodCmd
    BY <1>1 DEF CommandsOf, MethodCmd, Lists
  <1>3. /\ Release(MethodsBound(C)) /\ ifcCmds' = ifcCmds
        /\ \A c \in MethodCmd : methods'[c] = IF c \in C THEN None ELSE methods[c]
    BY <1>1 DEF MethodsFail
  <1> QED BY <1>2, <1>3, MethodsGoneUsed

\* A list has at least as many entries as it names commands.
LEMMA ListedCommands ==
    ASSUME NEW n \in IfcName, NEW len \in Nat, NEW list \in [1 .. len -> Method]
    PROVE  /\ CommandsOf(n, list) \in SUBSET MethodCmd
           /\ IsFiniteSet(CommandsOf(n, list))
           /\ Cardinality(CommandsOf(n, list)) \in 0 .. len
  <1> DEFINE C == CommandsOf(n, list)
             f == [k \in 1 .. len |-> <<n, list[k]>>]
  <1>1. C \in SUBSET MethodCmd
    BY DEF CommandsOf, MethodCmd
  <1>2. f \in Surjection(1 .. len, C)
    BY DEF CommandsOf, Surjection
  <1>3. IsFiniteSet(1 .. len) /\ Cardinality(1 .. len) = len
    BY FS_Interval
  <1> HIDE DEF f, C
  <1>4. IsFiniteSet(C) /\ Cardinality(C) <= len
    BY <1>2, <1>3, FS_Surjection
  <1>5. Cardinality(C) \in Nat
    BY <1>4, FS_CardinalityType
  <1> QED BY <1>1, <1>4, <1>5 DEF C

\* Methods of an interface, when a list of them is defined: those that had their
\* names are gone.
LEMMA MethodsListed ==
    ASSUME IfcCounted, NEW C \in SUBSET MethodCmd, IsFiniteSet(C), NEW i \in Ifc, NEW j \in Ifc,
           NEW M, M = (MethodsFor(j) \ C) \cup (IF j = i THEN C ELSE {})
    PROVE  /\ IsFiniteSet(M)
           /\ Cardinality(M) = Cardinality(MethodsFor(j)) - MethodsBound(C)[j]
                               + (IF j = i THEN Cardinality(C) ELSE 0)
  <1>1. /\ IsFiniteSet(MethodsFor(j) \ C)
        /\ Cardinality(MethodsFor(j) \ C) = Cardinality(MethodsFor(j)) - MethodsBound(C)[j]
    BY MethodsCleared
  <1>2. Cardinality(MethodsFor(j) \ C) \in Nat /\ Cardinality(C) \in Nat
    BY <1>1, FS_CardinalityType
  <1>3. CASE j = i
    <2>1. /\ IsFiniteSet((MethodsFor(j) \ C) \cup C)
          /\ Cardinality((MethodsFor(j) \ C) \cup C)
                 = Cardinality(MethodsFor(j) \ C) + Cardinality(C)
                       - Cardinality((MethodsFor(j) \ C) \cap C)
      BY <1>1, FS_Union
    <2>2. (MethodsFor(j) \ C) \cap C = {}
      OBVIOUS
    <2>3. Cardinality((MethodsFor(j) \ C) \cap C) = 0
      BY <2>2, FS_EmptySet
    <2> QED BY <1>1, <1>2, <1>3, <2>1, <2>3
  <1>4. CASE j # i
    <2>1. M = MethodsFor(j) \ C
      BY <1>4
    <2> QED BY <1>1, <1>2, <1>4, <2>1
  <1> QED BY <1>3, <1>4

LEMMA DefineUsed ==
    ASSUME IfcIInv, IfcUsed, IfcTypeOK', NEW n \in IfcName, NEW list \in Lists,
           NEW protos \in [DOMAIN list -> Proto], MethodsDefine(n, list, protos)
    PROVE  IfcUsed'
  <1> DEFINE i == ifcCmds[n]
             b == baseIfc[i]
             base == BaseSlots(i)
             total == base + Len(list)
             C == CommandsOf(n, list)
             gain == [j \in Ifc |-> IF j = i THEN Len(list) ELSE 0]
             again == [j \in Ifc |-> IF j = i THEN Len(list) - Cardinality(C) ELSE 0]
             drop == [j \in Ifc |-> MethodsBound(C)[j] + again[j]]
             F == Freed(gain, drop)
             T == SlotsOf(i, total)
             table == [s \in T |-> IF s[2] <= base THEN slotProto[<<b, s[2]>>]
                                   ELSE protos[s[2] - base]]
             slot == [c \in C |-> SlotOf(i, list, c[2])]
  <1>1. /\ i # None /\ nMethods[i] = 0
        /\ total \in 1 .. MaxMethods
        /\ RecountIfcs(gain, drop)
        /\ baseIfc' = Without(baseIfc, F, None)
        /\ nMethods' = [Without(nMethods, F, 0) EXCEPT ![i] = total]
        /\ nInherited' = [Without(nInherited, F, 0) EXCEPT ![i] = base]
        /\ SlotsChange(table, TablesOf(F))
        /\ \A c \in MethodCmd : methods'[c] = IF c \in C THEN slot[c] ELSE methods[c]
        /\ ifcCmds' = ifcCmds
    BY DEF MethodsDefine
  <1>2. PICK len \in Nat : list \in [1 .. len -> Method]
    BY SlotIs DEF Lists
  <1>3. DOMAIN list = 1 .. len /\ Len(list) = len
    <2>1. list \in Seq(Method) /\ DOMAIN list = 1 .. len
      BY <1>2
    <2> QED BY <2>1, <1>2, LenProperties
  <1>4. C \in SUBSET MethodCmd /\ IsFiniteSet(C) /\ Cardinality(C) \in 0 .. len
    BY <1>2, ListedCommands
  <1>5. /\ i = ifcCmds[n] /\ b = baseIfc[i] /\ base = BaseSlots(i) /\ total = base + len
        /\ F \in SUBSET Ifc /\ F = Freed(gain, drop) /\ T = SlotsOf(i, total)
        /\ C = CommandsOf(n, list)
    BY <1>3, FreedTyped
  <1>6. \A j \in Ifc : /\ gain[j] = IF j = i THEN len ELSE 0
                       /\ drop[j] = MethodsBound(C)[j]
                                    + IF j = i THEN len - Cardinality(C) ELSE 0
    BY <1>3
  <1>7. /\ gain = [j \in Ifc |-> gain[j]] /\ drop = [j \in Ifc |-> drop[j]]
    OBVIOUS
  <1>8. \A s \in T : table[s] = IF s[2] <= base THEN slotProto[<<b, s[2]>>]
                                ELSE protos[s[2] - base]
    OBVIOUS
  <1>9. \A c \in C : slot[c] = SlotOf(i, list, c[2])
    OBVIOUS
  <1>10. DOMAIN table = T
    OBVIOUS
  <1> HIDE DEF i, b, base, total, C, gain, drop, F, T, table, slot
  <1>11. IfcCounted /\ UnusedEmpty /\ Placed
    BY DEF IfcUsed
  <1>12. i \in Ifc /\ b \in Ifc \cup {None}
    BY <1>1, <1>5 DEF IfcIInv, IfcTypeOK
  <1>13. /\ base \in Nat
         /\ base > 0 => b \in Ifc /\ base = nMethods[b] /\ b # i
    <2>1. base = IF b = None THEN 0 ELSE nMethods[b]
      BY <1>5 DEF BaseSlots
    <2> QED BY <1>1, <1>12, <2>1, SlotIs DEF IfcIInv, IfcTypeOK
  <1>14. \A c \in C : /\ slot[c] \in Slot /\ slot[c][1] = i
                      /\ slot[c][2] \in base + 1 .. total
    <2> SUFFICES ASSUME NEW c \in C
                 PROVE  /\ slot[c] \in Slot /\ slot[c][1] = i
                        /\ slot[c][2] \in base + 1 .. total
      OBVIOUS
    <2>1. PICK k \in DOMAIN list : c[2] = list[k]
      BY <1>5 DEF CommandsOf
    <2>2. BaseSlots(i) \in Nat /\ BaseSlots(i) + len <= MaxMethods
      BY <1>1, <1>5, <1>13, SlotIs
    <2>3. /\ SlotOf(i, list, c[2]) \in Slot /\ SlotOf(i, list, c[2])[1] = i
          /\ SlotOf(i, list, c[2])[2] \in BaseSlots(i) + 1 .. BaseSlots(i) + len
      BY <1>3, <1>12, <2>1, <2>2, SlotOfTyped
    <2> QED BY <1>5, <1>9, <2>3
  <1>15. gain \in [Ifc -> Nat] /\ drop \in [Ifc -> Nat]
    <2>1. ASSUME NEW j \in Ifc PROVE gain[j] \in Nat /\ drop[j] \in Nat
      <3>1. MethodsBound(C)[j] \in Nat
        BY <1>4, <1>11, MethodsCleared
      <3> QED BY <1>4, <1>6, <3>1
    <2> QED BY <1>7, <2>1
  <1>16. \A j \in Ifc : baseIfc'[j] = IF j \in F THEN None ELSE baseIfc[j]
    BY <1>1 DEF Without
  <1>17. ASSUME NEW j \in Ifc
         PROVE  /\ IsFiniteSet(CommandsFor(j)') /\ IsFiniteSet(MethodsFor(j)')
                /\ IsFiniteSet(DerivedFrom(j)') /\ ifcRefs'[j] = Held(j)'
                /\ j \in F <=> ifcRefs[j] > 0 /\ ifcRefs'[j] = 0
                /\ ifcRefs'[j] \in Nat
    <2>1. /\ IsFiniteSet(CommandsFor(j)) /\ IsFiniteSet(MethodsFor(j))
          /\ IsFiniteSet(DerivedFrom(j)) /\ ifcRefs[j] = Held(j)
      BY <1>11 DEF IfcCounted
    <2>2. CommandsFor(j)' = CommandsFor(j)
      BY <1>1 DEF CommandsFor
    <2>3. /\ IsFiniteSet(MethodsFor(j)')
          /\ Cardinality(MethodsFor(j)') = Cardinality(MethodsFor(j)) - MethodsBound(C)[j]
                                           + (IF j = i THEN Cardinality(C) ELSE 0)
      <3> DEFINE M == MethodsFor(j)'
      <3>1. M = (MethodsFor(j) \ C) \cup (IF j = i THEN C ELSE {})
        BY <1>1, <1>4, <1>14, SlotIs DEF MethodsFor
      <3> HIDE DEF M
      <3>2. IfcCounted /\ C \in SUBSET MethodCmd /\ IsFiniteSet(C)
        BY <1>4, <1>11
      <3>3. /\ IsFiniteSet(M)
            /\ Cardinality(M) = Cardinality(MethodsFor(j)) - MethodsBound(C)[j]
                                + (IF j = i THEN Cardinality(C) ELSE 0)
        BY <1>12, <3>1, <3>2, MethodsListed
      <3> QED BY <3>3 DEF M
    <2>4. /\ IsFiniteSet(CommandsFor(j)')
          /\ Cardinality(CommandsFor(j)') = Cardinality(CommandsFor(j))
      BY <2>1, <2>2
    <2>5. /\ Cardinality(CommandsFor(j)) \in Nat /\ Cardinality(MethodsFor(j)) \in Nat
          /\ Cardinality(DerivedFrom(j)) \in Nat /\ Cardinality(MethodsFor(j)') \in Nat
          /\ MethodsBound(C)[j] \in Nat
      BY <1>4, <1>11, <2>1, <2>3, FS_CardinalityType, MethodsCleared
    <2>6. PICK E : E = {} /\ IsFiniteSet(E) /\ Cardinality(E) = 0 /\ E \cap DerivedFrom(j) = {}
      BY FS_EmptySet
    <2>7. DerivedFrom(j)' = (DerivedFrom(j) \ F) \cup E
      BY <1>16, <2>6, SlotIs DEF DerivedFrom
    <2> DEFINE D == DerivedFrom(j)'
               own == Cardinality(CommandsFor(j)') + Cardinality(MethodsFor(j)')
    <2>8. /\ own + Cardinality(DerivedFrom(j)) + Cardinality(E)
                 = ifcRefs[j] + gain[j] - drop[j]
          /\ own \in Nat
      <3>1. ifcRefs[j] = Cardinality(CommandsFor(j)) + Cardinality(MethodsFor(j))
                         + Cardinality(DerivedFrom(j))
        BY <2>1 DEF Held
      <3>2. /\ gain[j] = IF j = i THEN len ELSE 0
            /\ drop[j] = MethodsBound(C)[j] + IF j = i THEN len - Cardinality(C) ELSE 0
        BY <1>6
      <3>3. len \in Nat /\ Cardinality(C) \in Nat
        BY <1>4
      <3> QED BY <2>3, <2>4, <2>5, <2>6, <3>1, <3>2, <3>3
    <2>9. Held(j)' = own + Cardinality(D) /\ D = (DerivedFrom(j) \ F) \cup E
      BY <2>7 DEF Held
    <2>10. IsFiniteSet(DerivedFrom(j)') <=> IsFiniteSet(D)
      OBVIOUS
    <2> HIDE DEF D, own
    <2>11. /\ RecountIfcs(gain, drop) /\ IfcCounted /\ F = Freed(gain, drop)
           /\ gain \in [Ifc -> Nat] /\ drop \in [Ifc -> Nat]
      BY <1>1, <1>5, <1>11, <1>15
    <2>12. /\ IsFiniteSet(E) /\ E \cap DerivedFrom(j) = {} /\ D = (DerivedFrom(j) \ F) \cup E
           /\ own \in Nat
           /\ own + Cardinality(DerivedFrom(j)) + Cardinality(E)
                  = ifcRefs[j] + gain[j] - drop[j]
      BY <2>6, <2>8, <2>9
    <2>13. /\ IsFiniteSet(D) /\ ifcRefs'[j] = own + Cardinality(D)
           /\ j \in F <=> ifcRefs[j] > 0 /\ ifcRefs'[j] = 0
           /\ ifcRefs'[j] \in Nat
      BY <2>11, <2>12, Released
    <2> QED BY <2>3, <2>4, <2>9, <2>10, <2>13
  <1>18. IfcCounted' /\ HeldAreUsed'
    <2>1. ifcRefs' \in [Ifc -> Nat]
      <3>1. ifcRefs' = [j \in Ifc |-> ifcRefs'[j]]
        BY <1>1 DEF RecountIfcs
      <3> QED BY <1>17, <3>1
    <2>2. IfcCounted'
      BY <1>17, <2>1 DEF IfcCounted
    <2> QED BY <2>2, UsedAfter
  <1>19. i \notin F /\ ifcRefs'[i] > 0
    <2>1. PICK k \in Ifc : k = i
      BY <1>12
    <2>2. n \in CommandsFor(k)'
      BY <1>1, <1>5, <2>1 DEF CommandsFor
    <2>3. ifcRefs'[k] > 0
      BY <1>18, <2>2 DEF HeldAreUsed
    <2> QED BY <1>17, <2>1, <2>3
  <1>20. ASSUME NEW j \in Ifc, j \notin F, baseIfc[j] \in Ifc
         PROVE  baseIfc'[j] = baseIfc[j] /\ baseIfc[j] \notin F
    <2>1. baseIfc'[j] = baseIfc[j]
      BY <1>16, <1>20
    <2>2. PICK k \in Ifc : k = baseIfc[j]
      BY <1>20
    <2>3. j \in DerivedFrom(k)'
      BY <2>1, <2>2 DEF DerivedFrom
    <2>4. ifcRefs'[k] > 0
      BY <1>18, <2>3 DEF HeldAreUsed
    <2> QED BY <1>17, <2>1, <2>2, <2>4
  <1>21. \A j \in Ifc :
             /\ nMethods'[j] = IF j = i THEN total ELSE IF j \in F THEN 0 ELSE nMethods[j]
             /\ nInherited'[j] = IF j = i THEN base ELSE IF j \in F THEN 0 ELSE nInherited[j]
    BY <1>1, <1>12 DEF Without
  <1>22. UnusedEmpty'
    <2>1. nInherited' \in [Ifc -> Nat]
      <3>1. nInherited' = [Without(nInherited, F, 0) EXCEPT ![i] = base]
        BY <1>1
      <3>2. Without(nInherited, F, 0) \in [Ifc -> Nat]
        BY <1>11 DEF Without, UnusedEmpty
      <3> QED BY <1>13, <3>1, <3>2
    <2>2. ASSUME NEW j \in Ifc, ifcRefs'[j] = 0
          PROVE  baseIfc'[j] = None /\ nMethods'[j] = 0 /\ nInherited'[j] = 0
      <3>1. j # i
        BY <1>19, <2>2
      <3>2. j \in F \/ ifcRefs[j] = 0
        BY <1>11, <1>17, <2>2 DEF IfcCounted
      <3> QED BY <1>11, <1>16, <1>21, <3>1, <3>2 DEF UnusedEmpty
    <2> QED BY <2>1, <2>2 DEF UnusedEmpty
  <1>23. ASSUME NEW c \in MethodCmd, methods'[c] # None
         PROVE  methods'[c][2] \in nInherited'[methods'[c][1]] + 1 .. nMethods'[methods'[c][1]]
    <2>1. CASE c \in C
      BY <1>1, <1>12, <1>14, <1>21, <2>1
    <2>2. CASE c \notin C
      <3>1. methods'[c] = methods[c] /\ methods[c] \in Slot
        BY <1>1, <1>23, <2>2 DEF IfcIInv, IfcTypeOK
      <3>2. PICK k \in Ifc : k = methods[c][1]
        BY <3>1, SlotIs
      <3>3. methods[c][2] \in nInherited[k] + 1 .. nMethods[k]
        BY <1>11, <1>23, <3>1, <3>2 DEF Placed
      <3>4. nInherited[k] \in Nat /\ nMethods[k] \in Nat
        BY <1>11, SlotIs DEF UnusedEmpty, IfcIInv, IfcTypeOK
      <3>5. k # i
        BY <1>1, <1>5, <3>3, <3>4
      <3>6. c \in MethodsFor(k)'
        BY <1>23, <3>1, <3>2 DEF MethodsFor
      <3>7. k \notin F
        BY <1>17, <1>18, <3>6 DEF HeldAreUsed
      <3> QED BY <1>21, <3>1, <3>2, <3>3, <3>5, <3>7
    <2> QED BY <2>1, <2>2
  <1>24. ASSUME NEW j \in Ifc, nInherited'[j] > 0, j # i
         PROVE  /\ j \notin F /\ baseIfc'[j] = baseIfc[j] /\ baseIfc[j] \in Ifc
                /\ baseIfc[j] \notin F /\ baseIfc[j] # i /\ nInherited[j] > 0
                /\ nInherited[j] <= nMethods[j] /\ nInherited[j] <= nMethods[baseIfc[j]]
    <2>1. j \notin F /\ nInherited[j] > 0
      BY <1>21, <1>24
    <2>2. /\ nInherited[j] <= nMethods[j] /\ baseIfc[j] \in Ifc
          /\ nInherited[j] <= nMethods[baseIfc[j]]
      BY <1>11, <2>1 DEF Placed
    <2>3. baseIfc[j] # i
      <3>1. nInherited[j] \in Nat
        BY <1>11 DEF UnusedEmpty
      <3> QED BY <1>1, <2>1, <2>2, <3>1
    <2> QED BY <1>20, <2>1, <2>2, <2>3
  <1>25. ASSUME base > 0
         PROVE  b \in Ifc /\ b # i /\ b \notin F /\ baseIfc'[i] = b /\ nMethods'[b] = base
    BY <1>5, <1>12, <1>13, <1>19, <1>20, <1>21, <1>25
  <1>26. ASSUME NEW j \in Ifc, nInherited'[j] > 0
         PROVE  /\ nInherited'[j] <= nMethods'[j]
                /\ baseIfc'[j] \in Ifc /\ nInherited'[j] <= nMethods'[baseIfc'[j]]
    <2>1. CASE j = i
      <3>1. nInherited'[i] = base /\ nMethods'[i] = total
        BY <1>12, <1>21
      <3> QED BY <1>2, <1>5, <1>13, <1>25, <1>26, <2>1, <3>1
    <2>2. CASE j # i
      BY <1>21, <1>24, <1>26, <2>2
    <2> QED BY <2>1, <2>2
  <1>27. \A s \in Slot :
             slotProto'[s] = IF s \in T THEN table[s]
                             ELSE IF s \in TablesOf(F) THEN None ELSE slotProto[s]
    BY <1>1, <1>10 DEF SlotsChange
  <1>28. \A s \in Slot : s \in TablesOf(F) => s[1] \in F
    BY <1>5, TableIs DEF IfcIInv
  <1>29. \A s \in Slot : s \in T <=> s[1] = i /\ s[2] <= total
    BY <1>1, <1>5, SlotIs DEF SlotsOf
  <1>30. ASSUME NEW s \in Slot, s[1] # i, s[1] \notin F PROVE slotProto'[s] = slotProto[s]
    BY <1>27, <1>28, <1>29, <1>30
  <1>31. ASSUME NEW j \in Ifc, NEW k \in 1 .. nInherited'[j]
         PROVE  slotProto'[<<j, k>>] = slotProto'[<<baseIfc'[j], k>>]
    <2>1. CASE j = i
      <3>1. k \in 1 .. base /\ base > 0
        BY <1>12, <1>13, <1>21, <2>1
      <3>2. k <= total /\ k \in 1 .. MaxMethods
        BY <1>1, <1>2, <1>5, <1>13, <3>1, SlotIs
      <3>3. <<i, k>> \in Slot /\ <<b, k>> \in Slot /\ <<i, k>> \in T
        BY <1>12, <1>25, <1>29, <3>1, <3>2, SlotIs
      <3>4. slotProto'[<<i, k>>] = table[<<i, k>>]
        BY <1>27, <3>3
      <3>5. table[<<i, k>>] = slotProto[<<b, k>>]
        BY <1>8, <3>1, <3>3
      <3>6. slotProto'[<<b, k>>] = slotProto[<<b, k>>]
        BY <1>25, <1>30, <3>1, <3>3
      <3> QED BY <1>25, <2>1, <3>1, <3>4, <3>5, <3>6
    <2>2. CASE j # i
      <3>1. nInherited'[j] > 0 /\ k \in 1 .. nInherited[j] /\ nInherited[j] \in Nat
        BY <1>11, <1>21, <2>2 DEF UnusedEmpty
      <3>2. /\ j \notin F /\ baseIfc'[j] = baseIfc[j] /\ baseIfc[j] \in Ifc
            /\ baseIfc[j] \notin F /\ baseIfc[j] # i /\ nInherited[j] <= nMethods[j]
        BY <1>24, <2>2, <3>1
      <3>3. k \in 1 .. MaxMethods
        BY <3>1, <3>2, SlotIs DEF IfcIInv, IfcTypeOK
      <3>4. <<j, k>> \in Slot /\ <<baseIfc[j], k>> \in Slot
        BY <3>2, <3>3, SlotIs
      <3>5. slotProto[<<j, k>>] = slotProto[<<baseIfc[j], k>>]
        BY <1>11, <3>1 DEF Placed
      <3> QED BY <1>30, <2>2, <3>2, <3>4, <3>5
    <2> QED BY <2>1, <2>2
  <1>32. Placed'
    BY <1>23, <1>26, <1>31 DEF Placed
  <1> QED BY <1>18, <1>22, <1>32 DEF IfcUsed

\* What leaves method tables and interfaces alone.
LEMMA OthersUsed ==
    ASSUME IfcUsed, slotProto' = slotProto, UNCHANGED ifcVars
    PROVE  IfcUsed'
  <1>1. ASSUME NEW i \in Ifc
        PROVE  /\ CommandsFor(i)' = CommandsFor(i) /\ MethodsFor(i)' = MethodsFor(i)
               /\ DerivedFrom(i)' = DerivedFrom(i) /\ Held(i)' = Held(i)
    BY DEF ifcVars, CommandsFor, MethodsFor, DerivedFrom, Held
  <1>2. ASSUME NEW i \in Ifc
        PROVE  /\ IsFiniteSet(CommandsFor(i)') /\ IsFiniteSet(MethodsFor(i)')
               /\ IsFiniteSet(DerivedFrom(i)') /\ ifcRefs'[i] = Held(i)'
    <2>1. /\ IsFiniteSet(CommandsFor(i)) /\ IsFiniteSet(MethodsFor(i))
          /\ IsFiniteSet(DerivedFrom(i)) /\ ifcRefs[i] = Held(i)
      BY DEF IfcUsed, IfcCounted
    <2> QED BY <1>1, <2>1 DEF ifcVars
  <1>3. IfcCounted'
    <2>1. ifcRefs' \in [Ifc -> Nat]
      BY DEF IfcUsed, IfcCounted, ifcVars
    <2> QED BY <1>2, <2>1 DEF IfcCounted
  <1>4. UnusedEmpty' /\ Placed'
    BY DEF IfcUsed, UnusedEmpty, Placed, ifcVars
  <1> QED BY <1>3, <1>4 DEF IfcUsed

LEMMA UsedStep ==
    ASSUME IfcIInv, IfcUsed, IfcIInv', [IfcNext]_<<vars, ifcVars>>
    PROVE  IfcUsed'
  <1>1. IfcTypeOK'
    BY DEF IfcIInv
  <1>2. CASE UNCHANGED <<vars, ifcVars>>
    BY <1>2, OthersUsed DEF vars
  <1>3. CASE IfcNext
    <2>1. ASSUME NEW c \in MethodCmd, NEW f \in Fn, MethodCall(c, f) PROVE IfcUsed'
      <3>1. slotProto' = slotProto /\ UNCHANGED ifcVars
        BY <2>1 DEF MethodCall, CallMethod, CallProto
      <3> QED BY <3>1, OthersUsed
    <2>2. ASSUME Ordinary, UNCHANGED ifcVars PROVE IfcUsed'
      BY <2>2, OrdinarySlots, OthersUsed
    <2> QED BY <1>1, <1>3, <2>1, <2>2, CreateUsed, DestroyUsed, DefineUsed, FailUsed, DeleteUsed
         DEF IfcNext
  <1> QED BY <1>2, <1>3

LEMMA UsedStarts == IfcInit => IfcUsed
  <1> SUFFICES ASSUME IfcInit PROVE IfcUsed
    OBVIOUS
  <1>1. ASSUME NEW i \in Ifc
        PROVE  CommandsFor(i) = {} /\ MethodsFor(i) = {} /\ DerivedFrom(i) = {}
    BY SlotIs DEF IfcInit, CommandsFor, MethodsFor, DerivedFrom
  <1>2. ASSUME NEW i \in Ifc
        PROVE  /\ IsFiniteSet(CommandsFor(i)) /\ IsFiniteSet(MethodsFor(i))
               /\ IsFiniteSet(DerivedFrom(i)) /\ Held(i) = 0 /\ ifcRefs[i] = 0
    BY <1>1, FS_EmptySet DEF IfcInit, Held
  <1>3. IfcCounted
    BY <1>2 DEF IfcCounted, IfcInit
  <1>4. UnusedEmpty /\ Placed
    BY DEF IfcInit, UnusedEmpty, Placed
  <1> QED BY <1>3, <1>4 DEF IfcUsed

LEMMA UsedInductive == IfcSpec => []IfcUsed
  <1>1. IfcIInv /\ IfcUsed /\ IfcIInv' /\ [IfcNext]_<<vars, ifcVars>> => IfcUsed'
    BY UsedStep
  <1> QED BY <1>1, UsedStarts, IfcInductive, PTL DEF IfcSpec

LEMMA Tagged ==
    ASSUME NEW S, IsFiniteSet(S), NEW tag
    PROVE  /\ IsFiniteSet({<<tag, x>> : x \in S})
           /\ Cardinality({<<tag, x>> : x \in S}) = Cardinality(S)
  <1> DEFINE T == {<<tag, x>> : x \in S}
             f == [x \in S |-> <<tag, x>>]
  <1>1. f \in Injection(S, T)
    BY DEF Injection, IsInjective
  <1>2. f \in Surjection(S, T)
    BY DEF Surjection
  <1>3. ExistsBijection(S, T)
    BY <1>1, <1>2 DEF ExistsBijection, Bijection
  <1> QED BY <1>3, FS_Bijection

\* What holds an interface is of three kinds.
LEMMA HeldIs ==
    ASSUME IfcCounted, NEW i \in Ifc
    PROVE  ifcRefs[i] = Cardinality(IfcHolders(i))
  <1> DEFINE X == {<<"command", n>> : n \in CommandsFor(i)}
             Y == {<<"method", c>> : c \in MethodsFor(i)}
             Z == {<<"derived", j>> : j \in DerivedFrom(i)}
  <1>1. IfcHolders(i) = (X \cup Y) \cup Z
    BY DEF IfcHolders, CommandsFor, MethodsFor, DerivedFrom
  <1>2. /\ IsFiniteSet(CommandsFor(i)) /\ IsFiniteSet(MethodsFor(i))
        /\ IsFiniteSet(DerivedFrom(i)) /\ ifcRefs[i] = Held(i)
    BY DEF IfcCounted
  <1>3. /\ IsFiniteSet(X) /\ Cardinality(X) = Cardinality(CommandsFor(i))
        /\ IsFiniteSet(Y) /\ Cardinality(Y) = Cardinality(MethodsFor(i))
        /\ IsFiniteSet(Z) /\ Cardinality(Z) = Cardinality(DerivedFrom(i))
    BY <1>2, Tagged
  <1>4. X \cap Y = {} /\ (X \cup Y) \cap Z = {}
    OBVIOUS
  <1> HIDE DEF X, Y, Z
  <1>5. /\ IsFiniteSet(X \cup Y)
        /\ Cardinality(X \cup Y) = Cardinality(X) + Cardinality(Y) - Cardinality(X \cap Y)
    BY <1>3, FS_Union
  <1>6. Cardinality((X \cup Y) \cup Z)
            = Cardinality(X \cup Y) + Cardinality(Z) - Cardinality((X \cup Y) \cap Z)
    BY <1>3, <1>5, FS_Union
  <1>7. Cardinality(X \cap Y) = 0 /\ Cardinality((X \cup Y) \cap Z) = 0
    BY <1>4, FS_EmptySet
  <1>8. Cardinality(X) \in Nat /\ Cardinality(Y) \in Nat /\ Cardinality(Z) \in Nat
    BY <1>3, FS_CardinalityType
  <1> QED BY <1>1, <1>2, <1>3, <1>5, <1>6, <1>7, <1>8 DEF Held


-----------------------------------------------------------------------------
(* What follows.                                                           *)

\* Interfaces with their methods implement Lifetimes: creating, destroying, defining
\* and calling change prototypes and functions as its actions do
\* (CffiInterfaceUnref, Interface.c:11; CffiInterfaceMethodsHelper,
\* Interface.c:175; CffiMethodInstanceCmd, Interface.c:76).
THEOREM InterfacesImplementLifetimes == IfcSpec => Spec
  <1>1. IfcInit => Init
    BY DEF IfcInit
  <1>2. IfcIInv /\ [IfcNext]_<<vars, ifcVars>> => [Next]_vars
    BY IfcStep
  <1> QED BY <1>1, <1>2, IfcInductive, PTL DEF IfcSpec, Spec

\* The prototypes in method tables, those of freed interfaces included, are counted
\* exactly (CffiInterfaceUnref, Interface.c:24; Interface.c:299, 333).
THEOREM IfcRefsCorrect == IfcSpec => []RefsExact
  BY InterfacesImplementLifetimes, RefsCorrect, PTL

\* A method that runs keeps its prototype although its script may destroy the
\* interface (CffiMethodInstanceCmd, Interface.c:138-145).
THEOREM IfcRunningCorrect == IfcSpec => []RunningIsAllocated
  BY InterfacesImplementLifetimes, RunningCorrect, PTL

\* A method command finds its slot in the table of its own interface, behind the
\* inherited ones, inherited slots keep the prototypes of the base, and no method is
\* called through an empty slot (CffiMethodInstanceCmd, Interface.c:91, 139;
\* CffiInterfaceMethodsHelper, Interface.c:203, 325-339).
THEOREM SlotsCorrect == IfcSpec => []SlotsAgree
  <1>1. IfcIInv /\ IfcUsed => SlotsAgree
    BY DEF IfcIInv, IfcUsed, Placed, SlotsAgree
  <1> QED BY <1>1, IfcInductive, UsedInductive, PTL

\* An interface is held exactly as often as it counts, however long the chain of bases
\* that is freed with it (CffiInterfaceUnref, Interface.c:11-32;
\* CffiMethodInstanceDeleter, Interface.c:171).
THEOREM IfcCountsCorrect == IfcSpec => []IfcRefsExact
  <1>1. IfcUsed => IfcRefsExact
    BY HeldIs DEF IfcUsed, IfcRefsExact
  <1> QED BY <1>1, UsedInductive, PTL
=============================================================================

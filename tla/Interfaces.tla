----------------------------- MODULE Interfaces -----------------------------
(***************************************************************************)
(* Interfaces: generic/tclCffiInterface.c.                                 *)
(*                                                                         *)
(* An interface is a command under a name.  Its methods are commands of    *)
(* their own, each bound to a slot of the table of methods of the          *)
(* interface; a derived interface starts its table with the slots of its   *)
(* base.  The commands of an interface and of its methods are replaced and *)
(* deleted one by one, so an interface counts what refers to it: its       *)
(* command, its methods and the interfaces derived from it.                *)
(*                                                                         *)
(* Everything that Lifetimes is about goes on at the same time, and the    *)
(* prototypes in method tables are among the references counted there.     *)
(* Lists of methods contain no comments.                                   *)
(***************************************************************************)
EXTENDS Lifetimes

CONSTANTS
    Ifc,        \* interface blocks
    IfcName,    \* names of interfaces
    Method,     \* names of methods
    MaxMethods  \* bound: the slots of a method table

\* A method command is named after the interface and the method.
MethodCmd == IfcName \X Method

SlotsOf(i, n) == {i} \X (1 .. n)

ASSUME InterfacesAssumption ==
    /\ Slot = Ifc \X (1 .. MaxMethods)
    /\ None \notin Ifc \cup Slot
    /\ MaxMethods \in Nat

VARIABLES
    ifcRefs,    \* nRefs of an interface, and 0 when not allocated
    baseIfc,    \* the interface it is derived from
    nMethods,   \* the size of its table; 0 when there is none
    nInherited, \* how many slots of it are those of the base
    ifcCmds,    \* the interface of each interface command
    methods     \* the slot of each method command

ifcVars == <<ifcRefs, baseIfc, nMethods, nInherited, ifcCmds, methods>>

IfcInit ==
    /\ Init
    /\ ifcRefs = [i \in Ifc |-> 0]
    /\ baseIfc = [i \in Ifc |-> None]
    /\ nMethods = [i \in Ifc |-> 0]
    /\ nInherited = [i \in Ifc |-> 0]
    /\ ifcCmds = [n \in IfcName |-> None]
    /\ methods = [c \in MethodCmd |-> None]

-----------------------------------------------------------------------------
(* Reference counts.  gain and drop say how often an interface is ref'd    *)
(* and unref'd.                                                            *)

NoIfc == [i \in Ifc |-> 0]

OneIfc(j) == [i \in Ifc |-> One(i = j)]

\* How many of a set of method commands are bound to each interface.
MethodsBound(C) == [i \in Ifc |-> Cardinality({c \in C : methods[c] # None /\ methods[c][1] = i})]

Derived(S, i) == Cardinality({j \in S : baseIfc[j] = i})

\* The interfaces whose last reference goes.  One that is freed releases its
\* base, which may go with it.
Freed(gain, drop) ==
    {i \in Ifc : \A S \in SUBSET Ifc :
        (\A j \in Ifc : (/\ ifcRefs[j] > 0
                         /\ ifcRefs[j] + gain[j] <= drop[j] + Derived(S, j)) => j \in S)
            => i \in S}

\* What the interfaces that stay have left.
RecountIfcs(gain, drop) ==
    LET F == Freed(gain, drop)
    IN  ifcRefs' = [i \in Ifc |-> IF i \in F THEN 0
                                  ELSE ifcRefs[i] + gain[i] - drop[i] - Derived(F, i)]

\* The slots in the method tables of some interfaces.
TablesOf(F) == UNION {SlotsOf(i, nMethods[i]) : i \in F}

Without(f, F, value) == [i \in Ifc |-> IF i \in F THEN value ELSE f[i]]

-----------------------------------------------------------------------------
(* Commands.                                                               *)

\* Mutant: a derived interface does not hold on to its base.
CreateGain_BorrowsBase(i, b) == OneIfc(i)

\* The command refers to the new interface, the new interface to its base.
CreateGain(i, b) == [j \in Ifc |-> One(j = i) + One(j = b)]

\* The command replaces one of the same name, after the base is ref'd: an
\* interface may be derived from the one whose name it takes.
InterfaceCreate(n, i, b) ==
    LET gain == CreateGain(i, b)
        drop == OneIfc(ifcCmds[n])
        F == Freed(gain, drop)
    IN  /\ ifcRefs[i] = 0
        /\ b # None => \E m \in IfcName : ifcCmds[m] = b
        /\ RecountIfcs(gain, drop)
        /\ baseIfc' = [Without(baseIfc, F, None) EXCEPT ![i] = b]
        /\ nMethods' = Without(nMethods, F, 0)
        /\ nInherited' = Without(nInherited, F, 0)
        /\ SlotsChange(<<>>, TablesOf(F))
        /\ ifcCmds' = [ifcCmds EXCEPT ![n] = i]
        /\ UNCHANGED methods

\* What is released when commands go, and no command comes.
Release(drop) ==
    LET F == Freed(NoIfc, drop)
    IN  /\ RecountIfcs(NoIfc, drop)
        /\ baseIfc' = Without(baseIfc, F, None)
        /\ nMethods' = Without(nMethods, F, 0)
        /\ nInherited' = Without(nInherited, F, 0)
        /\ SlotsChange(<<>>, TablesOf(F))

\* destroy, or rename to nothing.  Methods keep the interface.
InterfaceDestroy(n) ==
    /\ ifcCmds[n] # None
    /\ Release(OneIfc(ifcCmds[n]))
    /\ ifcCmds' = [ifcCmds EXCEPT ![n] = None]
    /\ UNCHANGED methods

\* A method command is deleted by the script.
MethodDelete(c) ==
    /\ methods[c] # None
    /\ Release(MethodsBound({c}))
    /\ methods' = [methods EXCEPT ![c] = None]
    /\ UNCHANGED ifcCmds

\* The size of the inherited part: whatever the base has at this moment.
BaseSlots(i) == IF baseIfc[i] = None THEN 0 ELSE nMethods[baseIfc[i]]

CommandsOf(n, list) == {<<n, list[k]>> : k \in DOMAIN list}

\* Mutant: own methods are numbered without regard to the inherited ones.
SlotOf_FromFirst(i, list, m) ==
    <<i, CHOOSE k \in DOMAIN list :
            list[k] = m /\ \A l \in DOMAIN list : list[l] = m => l <= k>>

\* A method that is listed more than once ends up in its last slot.
SlotOf(i, list, m) ==
    <<i, BaseSlots(i) + CHOOSE k \in DOMAIN list :
            list[k] = m /\ \A l \in DOMAIN list : list[l] = m => l <= k>>

\* methods, when every definition in the list is accepted: a prototype and a
\* command for each, and then the slots of the base.
MethodsDefine(n, list, protos) ==
    LET i == ifcCmds[n]
        b == baseIfc[i]
        base == BaseSlots(i)
        total == base + Len(list)
        C == CommandsOf(n, list)
        gain == [j \in Ifc |-> IF j = i THEN Len(list) ELSE 0]
        again == [j \in Ifc |-> IF j = i THEN Len(list) - Cardinality(C) ELSE 0]
        drop == [j \in Ifc |-> MethodsBound(C)[j] + again[j]]
        F == Freed(gain, drop)
        table == [s \in SlotsOf(i, total) |->
                      IF s[2] <= base THEN slotProto[<<b, s[2]>>] ELSE protos[s[2] - base]]
    IN  /\ i # None /\ nMethods[i] = 0
        /\ total \in 1 .. MaxMethods
        /\ \A k \in DOMAIN protos : refs[protos[k]] = 0
        /\ \A k, l \in DOMAIN protos : protos[k] = protos[l] => k = l
        /\ RecountIfcs(gain, drop)
        /\ baseIfc' = Without(baseIfc, F, None)
        /\ nMethods' = [Without(nMethods, F, 0) EXCEPT ![i] = total]
        /\ nInherited' = [Without(nInherited, F, 0) EXCEPT ![i] = base]
        /\ SlotsChange(table, TablesOf(F))
        /\ methods' = [c \in MethodCmd |-> IF c \in C THEN SlotOf(i, list, c[2]) ELSE methods[c]]
        /\ UNCHANGED ifcCmds

\* A definition after those in the list is refused, or none is the dispose
\* method: the commands made so far are deleted, the ones they replaced are gone.
MethodsFail(n, list) ==
    LET i == ifcCmds[n] C == CommandsOf(n, list)
    IN  /\ i # None /\ nMethods[i] = 0 /\ list # <<>>
        /\ Release(MethodsBound(C))
        /\ methods' = [c \in MethodCmd |-> IF c \in C THEN None ELSE methods[c]]
        /\ UNCHANGED ifcCmds

\* The script calls a method on a valid pointer of the right type.  The slot is
\* looked up in the table of the interface, the function in that of the object.
MethodCall(c, f) ==
    /\ methods[c] # None
    /\ methods[c][2] <= nMethods[methods[c][1]]
    /\ CallMethod(f, methods[c])
    /\ UNCHANGED ifcVars

Lists == UNION {[1 .. k -> Method] : k \in 0 .. MaxMethods}

IfcNext ==
    \/ \E n \in IfcName, i \in Ifc, b \in Ifc \cup {None} : InterfaceCreate(n, i, b)
    \/ \E n \in IfcName : InterfaceDestroy(n)
    \/ \E n \in IfcName, list \in Lists : \E protos \in [DOMAIN list -> Proto] :
           MethodsDefine(n, list, protos)
    \/ \E n \in IfcName, list \in Lists : MethodsFail(n, list)
    \/ \E c \in MethodCmd : MethodDelete(c)
    \/ \E c \in MethodCmd, f \in Fn : MethodCall(c, f)
    \/ Ordinary /\ UNCHANGED ifcVars

IfcSpec == IfcInit /\ [][IfcNext]_<<vars, ifcVars>>

-----------------------------------------------------------------------------
(* Properties.                                                             *)

IfcHolders(i) ==
    {<<"command", n>> : n \in {m \in IfcName : ifcCmds[m] = i}}
        \cup {<<"method", c>> : c \in {d \in MethodCmd : methods[d] # None /\ methods[d][1] = i}}
        \cup {<<"derived", j>> : j \in {k \in Ifc : baseIfc[k] = i}}

\* An interface is referenced as often as its count says, whatever is derived from
\* it and in whatever order interfaces and methods are replaced, deleted and
\* fail to be defined: none that a method or a derived interface needs is freed,
\* and none is left behind (CffiInterfaceUnref, Interface.c:11;
\* CffiMethodInstanceDeleter, Interface.c:171; CffiInterfaceMethodsHelper,
\* Interface.c:337-359).
IfcRefsExact == \A i \in Ifc : ifcRefs[i] = Cardinality(IfcHolders(i))

TablesFilled == \A s \in Slot : slotProto[s] # None <=> s[2] <= nMethods[s[1]]

\* A method command is bound to a slot of its own interface behind the inherited
\* ones, so the internal error of Interface.c:91 is never reported; inherited slots
\* have the prototypes of the base for as long as the interface exists; and a table
\* has a prototype in each of its slots and in no other.
SlotsAgree ==
    /\ \A c \in MethodCmd : methods[c] # None =>
           LET i == methods[c][1] IN methods[c][2] \in nInherited[i] + 1 .. nMethods[i]
    /\ \A i \in Ifc : \A k \in 1 .. nInherited[i] :
           slotProto[<<i, k>>] = slotProto[<<baseIfc[i], k>>]
    /\ TablesFilled
=============================================================================

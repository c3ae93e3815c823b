-------------------------------- MODULE Names --------------------------------
(***************************************************************************)
(* Tables of names, such as those of enums and aliases                     *)
(* (generic/tclCffiNames.c).                                               *)
(*                                                                         *)
(* A name has a scope and a tail.  A script may leave the scope out, and   *)
(* then it depends on the namespace the script runs in.  A table is a      *)
(* function on names with a scope.  Scopes are not taken apart, so names   *)
(* such as a::b, relative but with a scope, are left out.                  *)
(***************************************************************************)
EXTENDS Integers, Sequences

CONSTANTS
    Namespace,      \* names of namespaces
    Global,         \* the namespace ::
    Platform,       \* the namespace ::cffi::c
    Relative,       \* stands for a scope that is left out
    Tails,           \* the last parts of names
    ProperTails,     \* those that CffiNameSyntaxCheck accepts
    Glob,           \* for each tail, taken as a pattern, the tails it matches
    Free            \* what a table has for a name that is not in it

ASSUME NamesAssumption ==
    /\ Global \in Namespace /\ Platform \in Namespace /\ Relative \notin Namespace
    /\ ProperTails \subseteq Tails
    /\ Glob \in [Tails -> SUBSET Tails]
    /\ \A t \in ProperTails : Glob[t] = {t}

FQN == [scope : Namespace, tail : Tails]

\* Names as scripts write them.
Written == [scope : Namespace \cup {Relative}, tail : Tails]

\* Tclh_NsQualifyName
Qualified(name, current) ==
    IF name.scope = Relative THEN [name EXCEPT !.scope = current] ELSE name

\* The scopes a name is looked for in, the first one first.
SearchPath(name, current) ==
    IF name.scope # Relative THEN <<name.scope>> ELSE <<current, Global, Platform>>

\* CffiNameLookup: what the table has for a name, Free when it has nothing.
NameLookup(table, name, current) ==
    LET path  == SearchPath(name, current)
        At(i) == table[[name EXCEPT !.scope = path[i]]]
        found == {i \in DOMAIN path : At(i) # Free}
    IN  IF found = {} THEN Free
        ELSE At(CHOOSE i \in found : \A j \in found : i <= j)

\* CffiNameAdd never replaces.
MayAdd(table, name, current) == table[Qualified(name, current)] = Free

NameAdd(table, name, current, value) ==
    [table EXCEPT ![Qualified(name, current)] = value]

\* Scopes are compared as they are, tails with the pattern.
Matching(pattern, current) ==
    {q \in FQN : /\ q.scope = Qualified(pattern, current).scope
                 /\ q.tail \in Glob[pattern.tail]}

\* CffiNameDeleteNames
DeleteNames(table, pattern, current) ==
    [q \in FQN |-> IF q \in Matching(pattern, current) THEN Free ELSE table[q]]
=============================================================================

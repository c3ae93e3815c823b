-------------------------------- MODULE Enum --------------------------------
(***************************************************************************)
(* Enums, and the aliases that refer to them (generic/tclCffiEnum.c,       *)
(* tclCffiAlias.c, and the enum annotation in tclCffiTypes.c).             *)
(*                                                                         *)
(* An enum maps member names to integers and keeps the order in which they *)
(* were written.  A declaration refers to an enum by name when it is       *)
(* parsed and holds on to the map from then on, whatever becomes of the    *)
(* name.  Integers are sets of bits, Tcl_WideInt has WideBits of them and  *)
(* int IntBits.                                                            *)
(***************************************************************************)
EXTENDS Names, TypeAttrs, FiniteSets

CONSTANTS
    Member,         \* names of members
    ProperMember,   \* those that CffiNameSyntaxCheck accepts
    EnumLists,      \* the lists of members and values scripts define enums with
    Flags,          \* the lists of names they define flags with
    AliasDecls,     \* the declarations they define aliases with
    Here,           \* the namespaces they run in
    Counted,        \* the sequences they define: a list, the places where it has
                    \* values, and the value to start with
    MaxEnums,       \* bounds on the number of enums and aliases at a time
    MaxAliases,
    IntBits, WideBits

Values == SUBSET (0 .. WideBits - 1)

NoMap == <<>>

EnumList == Seq([member : Member, value : Values])

\* A declaration starts with a base type, or with an alias whose name is in alias; enum
\* is what its annotation refers to, if it has one.
DeclSyntax == [base : BaseTypes \cup {"alias"}, alias : Written,
               annots : Seq(Annotations), enum : Written]

ASSUME EnumAssumption ==
    /\ ProperMember \subseteq Member /\ Here \subseteq Namespace
    /\ MaxEnums \in Nat /\ MaxAliases \in Nat
    /\ IntBits \in Nat /\ WideBits \in Nat /\ 0 < IntBits /\ IntBits < WideBits
    /\ \A list \in EnumLists : list \in EnumList /\ list # NoMap
    /\ AliasDecls \subseteq DeclSyntax
    /\ \A s \in Counted : /\ s.list \in EnumList /\ s.list # NoMap
                          /\ s.start \in Values /\ s.own \subseteq DOMAIN s.list
    /\ \A names \in Flags : names \in Seq(Member) /\ names # <<>>

VARIABLES
    enums,      \* the table of enums
    aliases,    \* the table of aliases: the parsed type and the map of its enum
    last        \* whether the last command failed, and whether its name is taken for
                \* a pattern that is not the name itself

vars == <<enums, aliases, last>>

Outcome(name, failed) ==
    [failed |-> failed, pattern |-> Glob[name.tail] # {name.tail}]

Succeeded == [failed |-> FALSE, pattern |-> FALSE]

Taken(table) == {q \in FQN : table[q] # Free}

-----------------------------------------------------------------------------
(* Members and values.                                                     *)

\* The places where a member is written first, and the n-th place of a set of them.
Firsts(list) == {i \in DOMAIN list : \A j \in 1 .. i - 1 : list[j].member # list[i].member}

Nth(places, n) == CHOOSE i \in places : Cardinality({j \in places : j <= i}) = n

\* The last value that is written for a member.
LastValue(list, member) ==
    list[CHOOSE k \in DOMAIN list :
            /\ list[k].member = member
            /\ \A j \in DOMAIN list : list[j].member = member => j <= k].value

\* Mutant: a name that is repeated is kept twice.
DictOf_Repeats(list) == list

\* A list as a dictionary: a name that is repeated keeps its first place and its
\* last value.
DictOf(list) ==
    LET At(n) == list[Nth(Firsts(list), n)].member
    IN  [n \in 1 .. Cardinality(Firsts(list)) |->
            [member |-> At(n), value |-> LastValue(list, At(n))]]

\* CffiEnumMemberFind and CffiEnumMemberFindReverse
Find(map, member) ==
    LET i == CHOOSE i \in DOMAIN map : map[i].member = member IN map[i].value

FindReverse(map, value) ==
    LET found == {i \in DOMAIN map : map[i].value = value}
    IN  map[CHOOSE i \in found : \A j \in found : i <= j].member

\* CffiEnumMemberBitmask of a set of members and integers.
Bitmask(map, members, integers) ==
    UNION ({Find(map, m) : m \in members} \cup integers)

\* Mutant: a member that shares a bit with the mask is reported.
BitUnmask_Overlap(map, mask) ==
    {map[i].member : i \in {k \in DOMAIN map : map[k].value \cap mask # {}}}

\* CffiEnumMemberBitUnmask: members that have bits, all of them in the mask.  The mask
\* itself follows in the list.
BitUnmask(map, mask) ==
    {map[i].member : i \in {k \in DOMAIN map : map[k].value # {} /\ map[k].value \subseteq mask}}

\* The int that 1 << i is truncated to, made a wide integer with its sign.
FlagValue(i) ==
    CASE i < IntBits - 1 -> {i}
      [] i = IntBits - 1 -> i .. WideBits - 1
      [] i > IntBits - 1 -> {}

FlagsList(names) ==
    [i \in DOMAIN names |-> [member |-> names[i], value |-> FlagValue(i - 1)]]

\* One more.
Successor(bits) ==
    LET k == CHOOSE k \in 0 .. WideBits : k \notin bits /\ 0 .. k - 1 \subseteq bits
    IN  ((bits \ (0 .. k - 1)) \cup {k}) \cap (0 .. WideBits - 1)

\* The members of a sequence may bring their own value, and those after them go on
\* from there.
SequenceList(s) ==
    LET value[i \in DOMAIN s.list] ==
            IF i \in s.own THEN s.list[i].value
            ELSE IF i = 1 THEN s.start ELSE Successor(value[i - 1])
    IN  [i \in DOMAIN s.list |-> [member |-> s.list[i].member, value |-> value[i]]]

ProperMembers(list) == \A i \in DOMAIN list : list[i].member \in ProperMember

-----------------------------------------------------------------------------
(* Definitions.                                                            *)

Fail(name) ==
    /\ last' = Outcome(name, TRUE)
    /\ UNCHANGED <<enums, aliases>>

\* CffiEnumDefine, shared by all that define an enum.
EnumAccepted(current, name, list) ==
    ProperMembers(list) /\ MayAdd(enums, name, current)

EnumAdd(current, name, list) ==
    IF EnumAccepted(current, name, list)
    THEN /\ Cardinality(Taken(enums)) < MaxEnums
         /\ enums' = NameAdd(enums, name, current, DictOf(list))
         /\ last' = Outcome(name, FALSE)
         /\ UNCHANGED aliases
    ELSE Fail(name)

\* The syntax of the name is not looked at.
EnumDefine(current, name, list) == EnumAdd(current, name, list)

EnumFlags(current, name, names) ==
    IF name.tail \in ProperTails /\ Len(names) <= WideBits
    THEN EnumAdd(current, name, FlagsList(names))
    ELSE Fail(name)

EnumSequence(current, name, sequence) ==
    IF name.tail \in ProperTails
    THEN EnumAdd(current, name, SequenceList(sequence))
    ELSE Fail(name)

\* The type a declaration starts with and the map of its enum, in the given table
\* of enums.
Meaning(current, decl, table) ==
    LET alias == IF decl.base \in BaseTypes
                 THEN [type |-> TypeParse(decl.base, Scalar), map |-> NoMap]
                 ELSE NameLookup(aliases, decl.alias, current)
        type  == IF alias = Free THEN Rejected ELSE Declare(alias.type, decl.annots, AllModes)
        map   == NameLookup(table, decl.enum, current)
    IN  IF ~\E i \in DOMAIN decl.annots : decl.annots[i] = "enum"
        THEN [type |-> type, map |-> IF alias = Free THEN NoMap ELSE alias.map]
        ELSE [type |-> IF map = Free THEN Rejected ELSE type,
              map  |-> IF map = Free THEN NoMap ELSE map]

\* CffiAliasAdd: an alias that exists may be defined again as it is.
AliasAccepted(current, name, decl, table) ==
    LET alias == Meaning(current, decl, table) IN
    /\ name.tail \in ProperTails
    /\ alias.type.ok
    /\ MayAdd(aliases, name, current) \/ aliases[Qualified(name, current)] = alias

AliasesWith(current, name, decl, table) ==
    IF MayAdd(aliases, name, current)
    THEN NameAdd(aliases, name, current, Meaning(current, decl, table))
    ELSE aliases

\* A dictionary of aliases is this for one after the other until one fails.
AliasDefine(current, name, decl) ==
    IF AliasAccepted(current, name, decl, enums)
    THEN /\ Cardinality(Taken(aliases)) < MaxAliases
         /\ aliases' = AliasesWith(current, name, decl, enums)
         /\ last' = Outcome(name, FALSE)
         /\ UNCHANGED enums
    ELSE Fail(name)

\* Mutant: the enum stays when the alias is refused.
RolledBack_Not(table, name, current) == table

\* The enum is deleted again, its name taken for a pattern.
RolledBack(table, name, current) ==
    DeleteNames(table, Qualified(name, current), current)

\* The enum is defined first, and the alias refers to it.
EnumAlias(current, name, list, decl) ==
    LET table == NameAdd(enums, name, current, DictOf(list))
        full  == [decl EXCEPT !.annots = Append(@, "enum"),
                              !.enum = Qualified(name, current)]
    IN
    IF ~EnumAccepted(current, name, list) THEN Fail(name)
    ELSE /\ Cardinality(Taken(enums)) < MaxEnums
         /\ IF AliasAccepted(current, name, full, table)
            THEN /\ Cardinality(Taken(aliases)) < MaxAliases
                 /\ enums' = table
                 /\ aliases' = AliasesWith(current, name, full, table)
                 /\ last' = Outcome(name, FALSE)
            ELSE /\ enums' = RolledBack(table, name, current)
                 /\ last' = Outcome(name, TRUE)
                 /\ UNCHANGED aliases

\* The pattern is qualified, so what is deleted is in one namespace.
EnumDelete(current, pattern) ==
    /\ enums' = DeleteNames(enums, pattern, current)
    /\ last' = Outcome(pattern, FALSE)
    /\ UNCHANGED aliases

AliasDelete(current, pattern) ==
    /\ aliases' = DeleteNames(aliases, pattern, current)
    /\ last' = Outcome(pattern, FALSE)
    /\ UNCHANGED enums

\* No pattern at all: every namespace.
EnumClear ==
    /\ enums' = [q \in FQN |-> Free]
    /\ last' = Succeeded
    /\ UNCHANGED aliases

AliasClear ==
    /\ aliases' = [q \in FQN |-> Free]
    /\ last' = Succeeded
    /\ UNCHANGED enums

Init ==
    /\ enums = [q \in FQN |-> Free]
    /\ aliases = [q \in FQN |-> Free]
    /\ last = Succeeded

Next ==
    \/ \E current \in Here, name \in Written :
          \/ \E list \in EnumLists :
                \/ EnumDefine(current, name, list)
                \/ \E decl \in AliasDecls : EnumAlias(current, name, list, decl)
          \/ \E sequence \in Counted : EnumSequence(current, name, sequence)
          \/ \E names \in Flags : EnumFlags(current, name, names)
          \/ \E decl \in AliasDecls : AliasDefine(current, name, decl)
          \/ EnumDelete(current, name)
          \/ AliasDelete(current, name)
    \/ EnumClear
    \/ AliasClear

Spec == Init /\ [][Next]_vars

-----------------------------------------------------------------------------
(* Properties.                                                             *)

\* Tables map qualified names to maps in which no member is twice, and to types
\* that are accepted everywhere; only one that says enum has a map.
TypeOK ==
    /\ enums \in [FQN -> EnumList \cup {Free}]
    /\ \A q \in Taken(enums) :
          \A i, j \in DOMAIN enums[q] :
              /\ enums[q][i].member \in ProperMember
              /\ enums[q][i].member = enums[q][j].member => i = j
    /\ DOMAIN aliases = FQN
    /\ \A q \in Taken(aliases) :
          /\ q.tail \in ProperTails
          /\ aliases[q].type.ok
          /\ ("enum" \in aliases[q].type.flags) = (aliases[q].map # NoMap)
    /\ last \in [failed : BOOLEAN, pattern : BOOLEAN]

\* No command gives a name that is in use another meaning, and one that fails leaves
\* things as they were, enum alias included, which defines the enum before it knows
\* whether it can define the alias.  The exception is enum alias with a name that is a
\* glob pattern: taking its enum back may delete others or miss it (Enum.c:297-308).
DefinitionsStand ==
    [][ /\ \A q \in FQN : enums[q] # Free => enums'[q] \in {enums[q], Free}
        /\ \A q \in FQN : aliases[q] # Free => aliases'[q] \in {aliases[q], Free}
        /\ last'.failed => /\ aliases' = aliases
                           /\ ~last'.pattern => enums' = enums ]_vars

\* mask and unmask, value and name fit each other for every map: what a mask was made
\* of is reported, the members reported make up no more than the mask, and with the
\* mask that ends the list they make up the mask; a value is named by a member that
\* has it.  Flags that fit an int are distinct bits (Enum.c:418).
MasksRoundTrip ==
    /\ \A q \in Taken(enums) :
          LET map     == enums[q]
              members == {map[i].member : i \in DOMAIN map}
          IN
          /\ \A S \in SUBSET members :
                {m \in S : Find(map, m) # {}} \subseteq BitUnmask(map, Bitmask(map, S, {}))
          /\ \A mask \in Values :
                /\ Bitmask(map, BitUnmask(map, mask), {}) \subseteq mask
                /\ Bitmask(map, BitUnmask(map, mask), {mask}) = mask
          /\ \A m \in members : Find(map, FindReverse(map, Find(map, m))) = Find(map, m)
    /\ \A names \in Flags :
          LET values == FlagsList(names) IN
          Len(names) < IntBits =>
              \A i, j \in DOMAIN values :
                  Cardinality(values[i].value) = 1 /\ (i # j => values[i].value # values[j].value)
=============================================================================

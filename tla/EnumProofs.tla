----------------------------- MODULE EnumProofs -----------------------------
(***************************************************************************)
(* Enums and their aliases are what they should be: the map of an enum has *)
(* no member twice, an alias has a map if it says enum, no command         *)
(* replaces a definition, one that fails leaves things as they were, and   *)
(* masks and members fit each other, for lists of any length.              *)
(***************************************************************************)
EXTENDS Enum, FiniteSetTheorems, SequenceTheorems, WellFoundedInduction, TLAPS

IsTable(T) == T = [q \in FQN |-> T[q]]

Tables == IsTable(enums) /\ IsTable(aliases)

\* Nothing that table T has is something else in table U.
Keeps(T, U) == \A q \in FQN : T[q] # Free => U[q] \in {T[q], Free}

-----------------------------------------------------------------------------
(* Tables of names (Names.c).                                              *)

\* A name that a script writes in a namespace is a name with a scope.
LEMMA QualifiedInTable ==
    ASSUME NEW name \in Written, NEW current \in Namespace
    PROVE  Qualified(name, current) \in FQN
<1>1. CASE name.scope = Relative
  BY <1>1 DEF Qualified, Written, FQN
<1>2. CASE name.scope # Relative
  BY <1>2 DEF Qualified, Written, FQN
<1> QED BY <1>1, <1>2

\* Adding a name replaces none.
LEMMA AddKeeps ==
    ASSUME NEW T, IsTable(T), NEW name, NEW current, NEW value,
           MayAdd(T, name, current)
    PROVE  IsTable(NameAdd(T, name, current, value)) /\ Keeps(T, NameAdd(T, name, current, value))
BY DEF IsTable, Keeps, NameAdd, MayAdd

\* Deleting names changes none.
LEMMA DeleteKeeps ==
    ASSUME NEW T, NEW name, NEW current
    PROVE  LET U == DeleteNames(T, name, current)
           IN  IsTable(U) /\ Keeps(T, U) /\ (\A q \in FQN : U[q] \in {T[q], Free})
BY DEF IsTable, Keeps, DeleteNames

\* Deleting the name that was added, if it is no pattern, undoes the addition.
LEMMA RolledBackExact ==
    ASSUME NEW T, IsTable(T), NEW name \in Written, NEW current \in Namespace, NEW value,
           MayAdd(T, name, current), Glob[name.tail] = {name.tail}
    PROVE  RolledBack(NameAdd(T, name, current, value), name, current) = T
<1> DEFINE f == Qualified(name, current)
           U == NameAdd(T, name, current, value)
<1>1. f \in FQN /\ f.scope \in Namespace /\ f.tail = name.tail
  <2>1. f \in FQN
    BY QualifiedInTable
  <2>2. f.tail = name.tail
    BY DEF Qualified, Written
  <2> QED BY <2>1, <2>2 DEF FQN
<1>2. Qualified(f, current) = f
  BY <1>1, NamesAssumption DEF Qualified
<1>3. Matching(f, current) = {f}
  <2>1. Matching(f, current) = {q \in FQN : q.scope = f.scope /\ q.tail \in {f.tail}}
    BY <1>1, <1>2 DEF Matching
  <2>2. ASSUME NEW q \in FQN, q.scope = f.scope, q.tail = f.tail
        PROVE  q = f
    BY <2>2, <1>1 DEF FQN
  <2> QED BY <2>1, <2>2, <1>1
<1>4. RolledBack(U, name, current) = [q \in FQN |-> IF q = f THEN Free ELSE U[q]]
  BY <1>3 DEF RolledBack, DeleteNames
<1>5. ASSUME NEW q \in FQN
      PROVE  (IF q = f THEN Free ELSE U[q]) = T[q]
  BY <1>1 DEF NameAdd, MayAdd, IsTable
<1>6. [q \in FQN |-> IF q = f THEN Free ELSE U[q]] = [q \in FQN |-> T[q]]
  BY <1>5
<1> QED BY <1>4, <1>6 DEF IsTable

-----------------------------------------------------------------------------
(* The commands.                                                           *)

\* What each command does to the tables: they remain tables, definitions stand, and
\* a failure changes nothing.
Stands ==
    /\ Tables'
    /\ Keeps(enums, enums')
    /\ Keeps(aliases, aliases')
    /\ last'.failed => aliases' = aliases /\ (~last'.pattern => enums' = enums)

LEMMA FailStands ==
    ASSUME NEW name, Tables, Fail(name)
    PROVE  Stands
BY DEF Fail, Stands, Tables, Keeps, IsTable

LEMMA EnumAddStands ==
    ASSUME NEW name, NEW current, NEW list, Tables, EnumAdd(current, name, list)
    PROVE  Stands
<1>1. CASE EnumAccepted(current, name, list)
  <2>1. enums' = NameAdd(enums, name, current, DictOf(list)) /\ aliases' = aliases
        /\ ~last'.failed
    BY <1>1 DEF EnumAdd, Outcome
  <2>2. MayAdd(enums, name, current)
    BY <1>1 DEF EnumAccepted
  <2>3. IsTable(enums') /\ Keeps(enums, enums')
    BY <2>1, <2>2, AddKeeps DEF Tables
  <2> QED BY <2>1, <2>3 DEF Stands, Tables, Keeps, IsTable
<1>2. CASE ~EnumAccepted(current, name, list)
  BY <1>2, FailStands DEF EnumAdd
<1> QED BY <1>1, <1>2

\* An alias is added or was there.
LEMMA AliasesWithKeeps ==
    ASSUME NEW name, NEW current, NEW decl, NEW table, Tables
    PROVE  LET new == AliasesWith(current, name, decl, table)
           IN  IsTable(new) /\ Keeps(aliases, new)
<1>1. CASE MayAdd(aliases, name, current)
  BY <1>1, AddKeeps DEF AliasesWith, Tables
<1>2. CASE ~MayAdd(aliases, name, current)
  BY <1>2 DEF AliasesWith, Tables, Keeps
<1> QED BY <1>1, <1>2

LEMMA EnumAliasStands ==
    ASSUME NEW name \in Written, NEW current \in Namespace, NEW list, NEW decl, Tables,
           EnumAlias(current, name, list, decl)
    PROVE  Stands
<1> DEFINE table == NameAdd(enums, name, current, DictOf(list))
           full == [decl EXCEPT !.annots = Append(@, "enum"), !.enum = Qualified(name, current)]
<1>1. CASE ~EnumAccepted(current, name, list)
  BY <1>1, FailStands DEF EnumAlias
<1>2. CASE EnumAccepted(current, name, list)
  <2>1. MayAdd(enums, name, current)
    BY <1>2 DEF EnumAccepted
  <2>2. IsTable(table) /\ Keeps(enums, table)
    BY <2>1, AddKeeps DEF Tables
  <2>3. CASE AliasAccepted(current, name, full, table)
    <3>1. enums' = table /\ aliases' = AliasesWith(current, name, full, table) /\ ~last'.failed
      BY <1>2, <2>3 DEF EnumAlias, Outcome
    <3>2. IsTable(aliases') /\ Keeps(aliases, aliases')
      BY <3>1, AliasesWithKeeps
    <3> QED BY <3>1, <3>2, <2>2 DEF Stands, Tables
  <2>4. CASE ~AliasAccepted(current, name, full, table)
    <3>1. /\ enums' = RolledBack(table, name, current)
          /\ aliases' = aliases
          /\ last' = Outcome(name, TRUE)
      BY <1>2, <2>4 DEF EnumAlias
    <3>2. IsTable(enums') /\ (\A q \in FQN : enums'[q] \in {table[q], Free})
      BY <3>1, DeleteKeeps DEF RolledBack
    <3>3. Keeps(enums, enums')
      BY <2>2, <3>2 DEF Keeps
    <3>4. ~last'.pattern => enums' = enums
      BY <3>1, <2>1, RolledBackExact DEF Outcome, Tables
    <3> QED BY <3>1, <3>2, <3>3, <3>4 DEF Stands, Tables, Keeps, IsTable
  <2> QED BY <2>3, <2>4
<1> QED BY <1>1, <1>2

\* Every command, one after the other.
LEMMA CommandStands ==
    ASSUME Tables, [Next]_vars
    PROVE  Tables' /\ (vars' = vars \/ Stands)
<1> SUFFICES ASSUME Next PROVE Stands
  BY DEF vars, Tables, IsTable, Stands
<1>1. ASSUME NEW current \in Here, NEW name \in Written, NEW list \in EnumLists,
             EnumDefine(current, name, list)
      PROVE  Stands
  BY <1>1, EnumAddStands DEF EnumDefine
<1>2. ASSUME NEW current \in Here, NEW name \in Written, NEW sequence \in Counted,
             EnumSequence(current, name, sequence)
      PROVE  Stands
  BY <1>2, EnumAddStands, FailStands DEF EnumSequence
<1>3. ASSUME NEW current \in Here, NEW name \in Written, NEW names \in Flags,
             EnumFlags(current, name, names)
      PROVE  Stands
  BY <1>3, EnumAddStands, FailStands DEF EnumFlags
<1>4. ASSUME NEW current \in Here, NEW name \in Written, NEW list \in EnumLists,
             NEW decl \in AliasDecls, EnumAlias(current, name, list, decl)
      PROVE  Stands
  BY <1>4, EnumAliasStands, EnumAssumption
<1>5. ASSUME NEW current \in Here, NEW name \in Written, NEW decl \in AliasDecls,
             AliasDefine(current, name, decl)
      PROVE  Stands
  <2>1. CASE AliasAccepted(current, name, decl, enums)
    <3>1. /\ aliases' = AliasesWith(current, name, decl, enums)
          /\ enums' = enums /\ ~last'.failed
      BY <1>5, <2>1 DEF AliasDefine, Outcome
    <3>2. IsTable(aliases') /\ Keeps(aliases, aliases')
      BY <3>1, AliasesWithKeeps
    <3> QED BY <3>1, <3>2 DEF Stands, Tables, Keeps, IsTable
  <2>2. CASE ~AliasAccepted(current, name, decl, enums)
    BY <1>5, <2>2, FailStands DEF AliasDefine
  <2> QED BY <2>1, <2>2
<1>6. ASSUME NEW current \in Here, NEW name \in Written, EnumDelete(current, name)
      PROVE  Stands
  BY <1>6, DeleteKeeps DEF EnumDelete, Outcome, Stands, Tables, Keeps, IsTable
<1>7. ASSUME NEW current \in Here, NEW name \in Written, AliasDelete(current, name)
      PROVE  Stands
  BY <1>7, DeleteKeeps DEF AliasDelete, Outcome, Stands, Tables, Keeps, IsTable
<1>8. CASE EnumClear
  BY <1>8 DEF EnumClear, Succeeded, Stands, Tables, Keeps, IsTable
<1>9. CASE AliasClear
  BY <1>9 DEF AliasClear, Succeeded, Stands, Tables, Keeps, IsTable
<1> QED BY <1>1, <1>2, <1>3, <1>4, <1>5, <1>6, <1>7, <1>8, <1>9 DEF Next

\* Both tables are always functions on the qualified names.
THEOREM TablesInvariant == Spec => []Tables
<1>1. Init => Tables
  BY DEF Init, Tables, IsTable
<1>2. Tables /\ [Next]_vars => Tables'
  BY CommandStands
<1> QED BY <1>1, <1>2, PTL DEF Spec

\* No command replaces a definition and none that fails leaves a trace, whatever names,
\* enums and declarations there are; enum alias of a name that is a pattern excepted.
THEOREM DefinitionsAlwaysStand == Spec => DefinitionsStand
<1>1. ASSUME Tables, [Next]_vars
      PROVE  [/\ \A q \in FQN : enums[q] # Free => enums'[q] \in {enums[q], Free}
              /\ \A q \in FQN : aliases[q] # Free => aliases'[q] \in {aliases[q], Free}
              /\ last'.failed => /\ aliases' = aliases
                                 /\ ~last'.pattern => enums' = enums]_vars
  BY <1>1, CommandStands DEF Stands, Keeps
<1> QED BY <1>1, TablesInvariant, PTL DEF Spec, DefinitionsStand

-----------------------------------------------------------------------------
(* Lists as dictionaries (CffiEnumDefine).                                 *)

\* Naturals have a least one, and those up to a bound a greatest one.
LEMMA LeastOf ==
    ASSUME NEW S \in SUBSET Nat, S # {}
    PROVE  \E i \in S : \A j \in S : i <= j
<1>1. PICK i \in S : \A j \in S : ~ (<<j, i>> \in OpToRel(<, Nat))
      BY WFMin, NatLessThanWellFounded
<1>2. \A j \in S : ~(j < i)
      BY <1>1 DEF OpToRel
<1> QED BY <1>2

LEMMA GreatestOf ==
    ASSUME NEW n \in Nat, NEW S \in SUBSET (1 .. n), S # {}
    PROVE  \E i \in S : \A j \in S : j <= i
<1> DEFINE T == {n - j : j \in S}
<1>1. T \in SUBSET Nat /\ T # {}
  <2>1. \A j \in S : n - j \in Nat
        OBVIOUS
  <2> QED BY <2>1
<1>2. PICK k \in T : \A j \in T : k <= j
      BY <1>1, LeastOf
<1>3. PICK i \in S : k = n - i
      BY <1>2
<1>4. ASSUME NEW j \in S
      PROVE  j <= i
  <2>1. k <= n - j
        BY <1>2
  <2> QED BY <2>1, <1>3
<1> QED BY <1>4

\* Every place of a finite set has its number.
LEMMA NthOf ==
    ASSUME NEW S \in SUBSET Nat, IsFiniteSet(S), NEW n \in 1 .. Cardinality(S)
    PROVE  Nth(S, n) \in S /\ Cardinality({j \in S : j <= Nth(S, n)}) = n
<1> DEFINE Below(i) == {j \in S : j <= i}
           rank == [i \in S |-> Cardinality(Below(i))]
<1>1. ASSUME NEW i \in S
      PROVE  IsFiniteSet(Below(i)) /\ Cardinality(Below(i)) \in 1 .. Cardinality(S)
  <2>1. IsFiniteSet(Below(i)) /\ Cardinality(Below(i)) <= Cardinality(S)
        BY FS_Subset
  <2>2. Below(i) # {}
        OBVIOUS
  <2>3. Cardinality(Below(i)) \in Nat /\ Cardinality(Below(i)) # 0
        BY <2>1, <2>2, FS_CardinalityType, FS_EmptySet
  <2>4. Cardinality(S) \in Nat
        BY FS_CardinalityType
  <2> HIDE DEF Below
  <2> QED BY <2>1, <2>3, <2>4
<1>2. ASSUME NEW i \in S, NEW k \in S, i < k
      PROVE  Cardinality(Below(i)) # Cardinality(Below(k))
  <2>1. Below(i) \subseteq Below(k) /\ k \notin Below(i) /\ k \in Below(k)
    <3>1. \A j \in S : j \in Nat
          OBVIOUS
    <3>2. i \in Nat /\ k \in Nat
          BY <3>1
    <3>3. \A j \in S : j <= i => j <= k
          BY <1>2, <3>1, <3>2
    <3>4. ~(k <= i) /\ k <= k
          BY <1>2, <3>2
    <3> QED BY <3>3, <3>4
  <2> HIDE DEF Below
  <2> QED BY <2>1, <1>1, FS_Subset
<1>3. rank \in Injection(S, 1 .. Cardinality(S))
  <2>1. rank \in [S -> 1 .. Cardinality(S)]
        BY <1>1
  <2>2. ASSUME NEW i \in S, NEW k \in S, rank[i] = rank[k]
        PROVE  i = k
    <3>1. ~(i < k) /\ ~(k < i)
          BY <1>2, <2>2
    <3> QED BY <3>1
  <2> QED BY <2>1, <2>2 DEF Injection, IsInjective
<1>4. Cardinality(S) \in Nat /\ IsFiniteSet(1 .. Cardinality(S))
      /\ Cardinality(1 .. Cardinality(S)) = Cardinality(S)
  <2>1. Cardinality(S) \in Nat
        BY FS_CardinalityType
  <2>2. IsFiniteSet(1 .. Cardinality(S))
        /\ Cardinality(1 .. Cardinality(S))
             = IF 1 > Cardinality(S) THEN 0 ELSE Cardinality(S) - 1 + 1
        BY <2>1, FS_Interval
  <2> QED BY <2>1, <2>2
<1>5. rank \in Surjection(S, 1 .. Cardinality(S))
      BY <1>3, <1>4, FS_Injection
<1>6. PICK at \in S : rank[at] = n
      BY <1>5 DEF Surjection
<1>7. \E i \in S : Cardinality({j \in S : j <= i}) = n
      BY <1>6
<1> QED BY <1>7 DEF Nth

\* A function on 1, ..., n is a sequence.
LEMMA FunctionIsSeq ==
    ASSUME NEW S, NEW n \in Nat, NEW f, f = [i \in 1 .. n |-> f[i]], \A i \in 1 .. n : f[i] \in S
    PROVE  f \in Seq(S) /\ Len(f) = n
<1>1. f \in [1 .. n -> S]
      OBVIOUS
<1> QED BY <1>1

\* No member is twice in a map.
UniqueMembers(map) == \A i, j \in DOMAIN map : map[i].member = map[j].member => i = j

EnumEntry == [member : Member, value : Values]

\* The dictionary that Tcl makes of a list has every member once, and no other
\* members than the list.
LEMMA DictShape ==
    ASSUME NEW list \in EnumList
    PROVE  /\ DictOf(list) \in EnumList
           /\ UniqueMembers(DictOf(list))
           /\ list # NoMap => DictOf(list) # NoMap
           /\ \A i \in DOMAIN DictOf(list) :
                 \E j \in DOMAIN list : DictOf(list)[i].member = list[j].member
<1> DEFINE F == Firsts(list)
           n == Cardinality(F)
           dict == DictOf(list)
<1>1. /\ Len(list) \in Nat /\ DOMAIN list = 1 .. Len(list)
      /\ \A i \in DOMAIN list : list[i] \in EnumEntry
  <2>1. list \in Seq(EnumEntry)
        BY DEF EnumList, EnumEntry
  <2> QED BY <2>1, ElementOfSeq, LenProperties
<1>2. F \in SUBSET (1 .. Len(list)) /\ F \in SUBSET Nat /\ IsFiniteSet(F) /\ n \in Nat
  <2>1. F \in SUBSET (1 .. Len(list))
        BY <1>1 DEF Firsts
  <2>2. IsFiniteSet(1 .. Len(list))
        BY <1>1, FS_Interval
  <2>3. IsFiniteSet(F)
        BY <2>1, <2>2, FS_Subset
  <2> QED BY <2>1, <2>3, FS_CardinalityType
<1>3. /\ DOMAIN dict = 1 .. n
      /\ \A i \in 1 .. n : /\ dict[i].member = list[Nth(F, i)].member
                            /\ dict[i] = [member |-> list[Nth(F, i)].member,
                                          value |-> LastValue(list, list[Nth(F, i)].member)]
      BY DEF DictOf
<1>4. \A i \in 1 .. n : Nth(F, i) \in F /\ Cardinality({j \in F : j <= Nth(F, i)}) = i
      BY <1>2, NthOf
<1>5. \A i \in 1 .. n : Nth(F, i) \in DOMAIN list
      BY <1>1, <1>2, <1>4
<1>6. ASSUME NEW j \in DOMAIN list
      PROVE  LastValue(list, list[j].member) \in Values
  <2> DEFINE S == {k \in DOMAIN list : list[k].member = list[j].member}
  <2>1. S \in SUBSET (1 .. Len(list)) /\ S # {}
        BY <1>1
  <2>2. PICK k \in S : \A i \in S : i <= k
        BY <2>1, <1>1, GreatestOf
  <2>3. \E i \in DOMAIN list : LastValue(list, list[j].member) = list[i].value
        BY <2>2 DEF LastValue
  <2> QED BY <2>3, <1>1 DEF EnumEntry
<1>7. dict \in EnumList
  <2>1. ASSUME NEW i \in 1 .. n
        PROVE  dict[i] \in EnumEntry
        BY <1>1, <1>3, <1>5, <1>6 DEF EnumEntry
  <2>2. dict = [i \in 1 .. n |-> dict[i]]
        BY DEF DictOf
  <2> HIDE DEF dict, n
  <2>3. dict \in Seq(EnumEntry)
        BY <2>1, <2>2, <1>2, FunctionIsSeq
  <2> QED BY <2>3 DEF EnumList, EnumEntry
<1>8. UniqueMembers(dict)
  <2> SUFFICES ASSUME NEW i \in 1 .. n, NEW j \in 1 .. n, dict[i].member = dict[j].member
               PROVE  i = j
      BY <1>3 DEF UniqueMembers
  <2>1. list[Nth(F, i)].member = list[Nth(F, j)].member
        BY <1>3
  <2>2. Nth(F, i) \in F /\ Nth(F, j) \in F
        BY <1>4
  <2>3. Nth(F, i) \in Nat /\ Nth(F, j) \in Nat /\ Nth(F, i) >= 1 /\ Nth(F, j) >= 1
        BY <2>2, <1>2
  <2>4. ASSUME NEW p \in F, NEW q \in F, p < q
        PROVE  list[p].member # list[q].member
    <3>1. p \in 1 .. q - 1
          BY <2>4, <1>2
    <3> QED BY <3>1, <2>4 DEF Firsts
  <2>5. Nth(F, i) = Nth(F, j)
    <3>1. ~(Nth(F, i) < Nth(F, j)) /\ ~(Nth(F, j) < Nth(F, i))
          BY <2>1, <2>2, <2>4
    <3> HIDE DEF F
    <3> QED BY <3>1, <2>3
  <2> QED BY <2>5, <1>4
<1>9. ASSUME list # NoMap
      PROVE  dict # NoMap
  <2>1. 1 \in DOMAIN list
        BY <1>9, <1>1 DEF NoMap, EnumList
  <2>2. 1 \in F
        BY <2>1 DEF Firsts
  <2>3. n # 0
        BY <2>2, <1>2, FS_EmptySet
  <2>4. 1 \in DOMAIN dict
        BY <2>3, <1>2, <1>3
  <2> QED BY <2>4 DEF NoMap
<1>10. \A i \in DOMAIN dict : \E j \in DOMAIN list : dict[i].member = list[j].member
      BY <1>3, <1>5
<1> QED BY <1>7, <1>8, <1>9, <1>10

-----------------------------------------------------------------------------
(* The lists that enum sequence and enum flags make.                       *)

\* The value of the i-th member, when those before it have the given ones.
SequenceValue(s, value, i) ==
    IF i \in s.own THEN s.list[i].value
    ELSE IF i = 1 THEN s.start ELSE Successor(value[i - 1])

\* The values of a sequence are well defined, each by those before it: by induction
\* over the length of what has values already.
LEMMA SequenceValues ==
    ASSUME NEW s, s.list \in EnumList, s.start \in Values, s.own \subseteq DOMAIN s.list
    PROVE  \E value \in [DOMAIN s.list -> Values] :
              /\ value = [i \in DOMAIN s.list |-> SequenceValue(s, value, i)]
              /\ SequenceList(s) = [i \in DOMAIN s.list |->
                                      [member |-> s.list[i].member, value |-> value[i]]]
<1> DEFINE m == Len(s.list)
           D == DOMAIN s.list
           chosen == CHOOSE value : value = [i \in D |-> SequenceValue(s, value, i)]
           P == {k \in 0 .. m : \E value \in [1 .. k -> Values] :
                    \A i \in 1 .. k : value[i] = SequenceValue(s, value, i)}
<1>1. m \in Nat /\ D = 1 .. m /\ \A i \in D : s.list[i].value \in Values
  <2>1. s.list \in Seq(EnumEntry)
        BY DEF EnumList, EnumEntry
  <2>2. \A i \in D : s.list[i] \in EnumEntry
        BY <2>1, ElementOfSeq, LenProperties
  <2> QED BY <2>1, <2>2, LenProperties DEF EnumEntry
<1>2. ASSUME NEW value, NEW i \in D
      PROVE  SequenceValue(s, value, i) \in Values
  <2>1. \A bits : Successor(bits) \in Values
        BY DEF Successor, Values
  <2> QED BY <2>1, <1>1 DEF SequenceValue
<1>3. m \in P
  <2> SUFFICES ASSUME m \notin P PROVE FALSE
      OBVIOUS
  <2>1. PICK k \in (0 .. m) \ P : \A j \in (0 .. m) \ P : k <= j
    <3>1. (0 .. m) \ P \in SUBSET Nat /\ (0 .. m) \ P # {}
          BY <1>1
    <3> HIDE DEF P
    <3> QED BY <3>1, LeastOf
  <2>2. k # 0
    <3>1. [i \in 1 .. 0 |-> {}] \in [1 .. 0 -> Values] /\ 1 .. 0 = {}
          OBVIOUS
    <3>2. \A i \in 1 .. 0 : FALSE
          OBVIOUS
    <3>3. \E value \in [1 .. 0 -> Values] : \A i \in 1 .. 0 : value[i] = SequenceValue(s, value, i)
          BY <3>1, <3>2
    <3>4. 0 \in 0 .. m
          BY <1>1
    <3>5. 0 \in P
          BY <3>3, <3>4
    <3> QED BY <3>5
  <2>3. k \in 1 .. m /\ k - 1 \in 0 .. m /\ ~(k <= k - 1)
        BY <2>1, <2>2, <1>1
  <2>4. k - 1 \in P
    <3> HIDE DEF P
    <3> QED BY <2>1, <2>3
  <2>5. PICK value \in [1 .. k - 1 -> Values] :
           \A i \in 1 .. k - 1 : value[i] = SequenceValue(s, value, i)
        BY <2>4
  <2> DEFINE more == [i \in 1 .. k |-> IF i < k THEN value[i] ELSE SequenceValue(s, value, k)]
  <2>6. k \in Nat /\ \A i \in 1 .. k : i < k => i \in 1 .. k - 1
        BY <2>3
  <2>7. more \in [1 .. k -> Values]
        BY <2>3, <2>6, <1>1, <1>2
  <2>8. ASSUME NEW i \in 1 .. k
        PROVE  more[i] = SequenceValue(s, more, i)
    <3>1. i # 1 => i - 1 \in 1 .. k /\ i - 1 < k /\ more[i - 1] = value[i - 1]
          BY <2>6
    <3>2. SequenceValue(s, more, i) = SequenceValue(s, value, i)
          BY <3>1 DEF SequenceValue
    <3> QED BY <3>2, <2>5, <2>6
  <2>9. k \in P
    <3> HIDE DEF more
    <3> QED BY <2>1, <2>7, <2>8
  <2> QED BY <2>1, <2>9
<1>4. PICK value \in [D -> Values] : \A i \in D : value[i] = SequenceValue(s, value, i)
      BY <1>3, <1>1
<1>5. value = [i \in D |-> SequenceValue(s, value, i)]
      BY <1>4
<1>6. chosen = [i \in D |-> SequenceValue(s, chosen, i)]
      BY <1>5
<1>7. chosen \in [D -> Values]
      BY <1>2, <1>6
<1>8. SequenceList(s) = [i \in D |-> [member |-> s.list[i].member, value |-> chosen[i]]]
      BY DEF SequenceList, SequenceValue
<1> QED BY <1>6, <1>7, <1>8

\* So enum sequence makes a list of members and values (Enum.c:338-382).
LEMMA SequenceShape ==
    ASSUME NEW s, s.list \in EnumList, s.start \in Values, s.own \subseteq DOMAIN s.list
    PROVE  /\ SequenceList(s) \in EnumList
           /\ s.list # NoMap => SequenceList(s) # NoMap
<1> DEFINE seq == SequenceList(s)
<1>1. PICK value \in [DOMAIN s.list -> Values] :
         seq = [i \in DOMAIN s.list |-> [member |-> s.list[i].member, value |-> value[i]]]
      BY SequenceValues
<1>2. /\ Len(s.list) \in Nat /\ DOMAIN s.list = 1 .. Len(s.list)
      /\ \A i \in DOMAIN s.list : s.list[i].member \in Member
      /\ s.list # NoMap => Len(s.list) # 0
  <2>1. s.list \in Seq(EnumEntry)
        BY DEF EnumList, EnumEntry
  <2>2. \A i \in DOMAIN s.list : s.list[i] \in EnumEntry
        BY <2>1, ElementOfSeq, LenProperties
  <2>3. s.list # NoMap => Len(s.list) # 0
        BY <2>1, EmptySeq DEF NoMap
  <2> QED BY <2>1, <2>2, <2>3, LenProperties DEF EnumEntry
<1>3. \A i \in 1 .. Len(s.list) : seq[i] \in EnumEntry
      BY <1>1, <1>2 DEF EnumEntry
<1>4. seq = [i \in 1 .. Len(s.list) |-> seq[i]] /\ DOMAIN seq = 1 .. Len(s.list)
      BY <1>1, <1>2
<1>5. seq \in Seq(EnumEntry) /\ Len(seq) = Len(s.list)
  <2> DEFINE m == Len(s.list)
  <2>1. m \in Nat /\ seq = [i \in 1 .. m |-> seq[i]] /\ \A i \in 1 .. m : seq[i] \in EnumEntry
        BY <1>2, <1>3, <1>4
  <2> HIDE DEF seq, m
  <2>2. seq \in Seq(EnumEntry) /\ Len(seq) = m
        BY ONLY <2>1, FunctionIsSeq
  <2> QED BY <2>2 DEF m
<1>6. s.list # NoMap => seq # NoMap
      BY <1>2, <1>5, EmptySeq DEF NoMap
<1> QED BY <1>5, <1>6 DEF EnumList, EnumEntry

\* And so does enum flags.
LEMMA FlagsShape ==
    ASSUME NEW names \in Seq(Member)
    PROVE  /\ FlagsList(names) \in EnumList
           /\ names # <<>> => FlagsList(names) # NoMap
<1> DEFINE list == FlagsList(names)
<1>1. /\ Len(names) \in Nat /\ DOMAIN names = 1 .. Len(names)
      /\ \A i \in 1 .. Len(names) : names[i] \in Member
      /\ names # <<>> => Len(names) # 0
      BY ElementOfSeq, LenProperties, EmptySeq
<1>2. \A i \in Nat : FlagValue(i) \in Values
  <2> SUFFICES ASSUME NEW i \in Nat PROVE FlagValue(i) \in Values
      OBVIOUS
  <2>1. CASE i < IntBits - 1
        BY <2>1, EnumAssumption DEF FlagValue, Values
  <2>2. CASE i = IntBits - 1
    <3>1. FlagValue(i) = i .. WideBits - 1
          BY <2>2, EnumAssumption DEF FlagValue
    <3> QED BY <3>1, EnumAssumption DEF Values
  <2>3. CASE i > IntBits - 1
        BY <2>3, EnumAssumption DEF FlagValue, Values
  <2> QED BY <2>1, <2>2, <2>3, EnumAssumption
<1>3. /\ list = [i \in 1 .. Len(names) |-> list[i]] /\ DOMAIN list = 1 .. Len(names)
      /\ \A i \in 1 .. Len(names) : list[i] = [member |-> names[i], value |-> FlagValue(i - 1)]
      BY <1>1 DEF FlagsList
<1>4. \A i \in 1 .. Len(names) : list[i] \in EnumEntry
  <2>1. \A i \in 1 .. Len(names) : i - 1 \in Nat
        OBVIOUS
  <2> QED BY <2>1, <1>1, <1>2, <1>3 DEF EnumEntry
<1>5. list \in Seq(EnumEntry) /\ Len(list) = Len(names)
  <2> HIDE DEF list
  <2> QED BY <1>1, <1>3, <1>4, FunctionIsSeq
<1> QED BY <1>1, <1>5, EmptySeq DEF NoMap, EnumList, EnumEntry

-----------------------------------------------------------------------------
(* Types and lookups.                                                      *)

\* The shape of a type that was accepted for every context.
Typed(ta) ==
    ta \in [ok : {TRUE}, base : BaseTypes, size : Int, varsize : BOOLEAN,
            flags : SUBSET Annotations, slot : {"none", "default", "handler"}]

\* A declaration says enum if an annotation does or the alias it starts with.
LEMMA DeclareFlags ==
    ASSUME NEW ta, Typed(ta), NEW annots \in Seq(Annotations), Declare(ta, annots, AllModes).ok
    PROVE  /\ Typed(Declare(ta, annots, AllModes))
           /\ "enum" \in Declare(ta, annots, AllModes).flags
                <=> "enum" \in ta.flags \/ \E i \in DOMAIN annots : annots[i] = "enum"
<1> DEFINE tb == Annotated(ta, annots, AllModes)
           Before(i) == ta.flags \cup UNION {Adds(annots[j], AllModes) : j \in 1 .. (i - 1)}
<1>1. InContext(tb, AllModes) = tb
  <2>1. AllModes # {"param"} /\ AllModes # {"return"} /\ AllModes # {"field"}
    <3>1. "param" \in AllModes /\ "return" \in AllModes
          BY DEF AllModes
    <3>2. "param" # "return" /\ "param" # "field" /\ "return" # "field"
          OBVIOUS
    <3> QED BY <3>1, <3>2
  <2> QED BY <2>1 DEF InContext
<1>2. Declare(ta, annots, AllModes) = tb /\ tb.ok
      BY <1>1 DEF Declare, Rejected
<1>3. PICK slot \in {"none", "default", "handler"} :
         tb = [ta EXCEPT !.flags = Before(Len(annots) + 1), !.slot = slot]
      BY <1>2, Zenon DEF Annotated, Rejected, Typed
<1>4. /\ Len(annots) \in Nat /\ DOMAIN annots = 1 .. Len(annots) /\ Len(annots) + 1 - 1 = Len(annots)
      /\ \A i \in DOMAIN annots : annots[i] \in Annotations
      BY ElementOfSeq, LenProperties
<1>5. \A a \in Annotations : /\ Adds(a, AllModes) \subseteq Annotations
                             /\ "enum" \in Adds(a, AllModes) <=> a = "enum"
      BY DEF Adds, AllModes, Annotations, ParamMask, SafetyMask, Requirement, ErrorMask,
             Direction, Disposal
<1>6. /\ Before(Len(annots) + 1) \subseteq Annotations
      /\ "enum" \in Before(Len(annots) + 1)
            <=> "enum" \in ta.flags \/ \E i \in DOMAIN annots : annots[i] = "enum"
      BY <1>4, <1>5 DEF Typed
<1> HIDE DEF Before
<1>7. Typed(tb) /\ tb.flags = Before(Len(annots) + 1)
      BY <1>3, <1>6 DEF Typed
<1> QED BY <1>2, <1>6, <1>7

\* What the table of enums holds.
GoodMap(map) ==
    /\ map \in EnumList /\ map # NoMap /\ UniqueMembers(map)
    /\ \A i \in DOMAIN map : map[i].member \in ProperMember

\* What the table of aliases holds.
GoodMeaning(alias) ==
    /\ Typed(alias.type)
    /\ ("enum" \in alias.type.flags) = (alias.map # NoMap)

MapsGood(T) == \A q \in Taken(T) : GoodMap(T[q])

AliasesGood(T) == \A q \in Taken(T) : q.tail \in ProperTails /\ GoodMeaning(T[q])

\* The inductive invariant: TypeOK, with the shape of types and no empty map.
EnumInv ==
    /\ Tables
    /\ MapsGood(enums)
    /\ AliasesGood(aliases)
    /\ last \in [failed : BOOLEAN, pattern : BOOLEAN]

\* The dictionary of a list that is accepted is a map as they should be.
LEMMA DictGood ==
    ASSUME NEW list \in EnumList, list # NoMap, ProperMembers(list)
    PROVE  GoodMap(DictOf(list))
BY DictShape DEF GoodMap, ProperMembers

\* A lookup finds something that the table has.
LEMMA LookupFinds ==
    ASSUME NEW T, NEW name \in Written, NEW current \in Namespace,
           NameLookup(T, name, current) # Free
    PROVE  \E q \in Taken(T) : NameLookup(T, name, current) = T[q]
<1> DEFINE path == SearchPath(name, current)
           at(i) == [name EXCEPT !.scope = path[i]]
           found == {i \in DOMAIN path : T[at(i)] # Free}
<1>1. DOMAIN path \subseteq Nat /\ \A i \in DOMAIN path : path[i] \in Namespace
  <2>1. CASE name.scope = Relative
        BY <2>1, NamesAssumption DEF SearchPath
  <2>2. CASE name.scope # Relative
        BY <2>2 DEF SearchPath, Written
  <2> QED BY <2>1, <2>2
<1>2. \A i \in DOMAIN path : at(i) \in FQN
      BY <1>1 DEF FQN, Written
<1>3. NameLookup(T, name, current)
         = IF found = {} THEN Free ELSE T[at(CHOOSE i \in found : \A j \in found : i <= j)]
      BY DEF NameLookup
<1>4. found # {} /\ found \in SUBSET Nat
      BY <1>1, <1>3
<1>5. PICK i \in found : NameLookup(T, name, current) = T[at(i)]
  <2>1. \E i \in found : \A j \in found : i <= j
        BY <1>4, LeastOf
  <2> HIDE DEF found
  <2>2. (CHOOSE i \in found : \A j \in found : i <= j) \in found
        BY <2>1
  <2> QED BY <2>2, <1>3, <1>4
<1>6. at(i) \in Taken(T)
      BY <1>2 DEF Taken
<1> QED BY <1>5, <1>6

\* A declaration that is accepted has a map if it says enum, whichever namespaces
\* its names are found in.
LEMMA MeaningGood ==
    ASSUME NEW current \in Namespace, NEW table, NEW decl, MapsGood(table), AliasesGood(aliases),
           decl.base \in BaseTypes \cup {"alias"}, decl.alias \in Written,
           decl.annots \in Seq(Annotations), decl.enum \in Written,
           Meaning(current, decl, table).type.ok
    PROVE  GoodMeaning(Meaning(current, decl, table))
<1> DEFINE alias == IF decl.base \in BaseTypes
                    THEN [type |-> TypeParse(decl.base, Scalar), map |-> NoMap]
                    ELSE NameLookup(aliases, decl.alias, current)
           type  == IF alias = Free THEN Rejected ELSE Declare(alias.type, decl.annots, AllModes)
           map   == NameLookup(table, decl.enum, current)
           says  == \E i \in DOMAIN decl.annots : decl.annots[i] = "enum"
           meaning == Meaning(current, decl, table)
<1>1. meaning = IF ~says
                THEN [type |-> type, map |-> IF alias = Free THEN NoMap ELSE alias.map]
                ELSE [type |-> IF map = Free THEN Rejected ELSE type,
                      map  |-> IF map = Free THEN NoMap ELSE map]
      BY DEF Meaning
<1>2. ~Rejected.ok
      BY DEF Rejected
<1>3. alias # Free /\ type = Declare(alias.type, decl.annots, AllModes) /\ type.ok
      /\ meaning.type = type
  <2> HIDE DEF alias, map, says
  <2> QED BY <1>1, <1>2
<1>4. GoodMeaning(alias)
  <2>1. CASE decl.base \in BaseTypes
    <3>1. alias.type = TypeParse(decl.base, Scalar) /\ alias.map = NoMap
          BY <2>1
    <3>2. alias.type.ok
          BY <1>2, <1>3 DEF Declare
    <3>3. Typed(alias.type) /\ alias.type.flags = {}
      <4>1. alias.type = Parsed(decl.base, Scalar, decl.base = "vstruct" \/ Scalar = VLA, {}, "none")
            BY <3>1, <3>2, <1>2 DEF TypeParse
      <4>2. Scalar \in Int
            BY DEF Scalar
      <4> HIDE DEF alias
      <4> QED BY <2>1, <4>1, <4>2 DEF Parsed, Typed
    <3> QED BY <3>1, <3>3 DEF GoodMeaning
  <2>2. CASE decl.base \notin BaseTypes
    <3>1. PICK q \in Taken(aliases) : alias = aliases[q]
          BY <1>3, <2>2, LookupFinds
    <3> QED BY <3>1 DEF AliasesGood
  <2> QED BY <2>1, <2>2
<1>5. Typed(type) /\ ("enum" \in type.flags <=> "enum" \in alias.type.flags \/ says)
  <2> HIDE DEF alias
  <2> QED BY <1>3, <1>4, DeclareFlags DEF GoodMeaning
<1>6. CASE ~says
  <2>1. meaning.map = alias.map
        BY <1>1, <1>3, <1>6
  <2> HIDE DEF alias, type, says, meaning
  <2>2. ("enum" \in meaning.type.flags) = (meaning.map # NoMap)
        BY <2>1, <1>3, <1>4, <1>5, <1>6 DEF GoodMeaning
  <2>3. GoodMeaning(meaning)
        BY <2>2, <1>3, <1>5 DEF GoodMeaning
  <2> QED BY <2>3 DEF meaning
<1>7. CASE says
  <2>1. map # Free /\ meaning.map = map
    <3> HIDE DEF alias, type, says, map
    <3> QED BY <1>1, <1>2, <1>3, <1>7
  <2>2. PICK q \in Taken(table) : map = table[q]
        BY <2>1, LookupFinds
  <2>3. map # NoMap
        BY <2>2 DEF MapsGood, GoodMap
  <2> HIDE DEF alias, type, says, meaning, map
  <2>4. ("enum" \in meaning.type.flags) = (meaning.map # NoMap)
        BY <2>1, <2>3, <1>3, <1>5, <1>7
  <2>5. GoodMeaning(meaning)
        BY <2>4, <1>3, <1>5 DEF GoodMeaning
  <2> QED BY <2>5 DEF meaning
<1> QED BY <1>6, <1>7

-----------------------------------------------------------------------------
(* The commands keep the invariant.                                        *)

\* What a table has after an addition, it had before or was added.
LEMMA AddTaken ==
    ASSUME NEW T, IsTable(T), NEW name, NEW current, NEW value,
           NEW q \in Taken(NameAdd(T, name, current, value))
    PROVE  LET U == NameAdd(T, name, current, value)
           IN  \/ q \in Taken(T) /\ U[q] = T[q]
               \/ q = Qualified(name, current) /\ U[q] = value
BY DEF Taken, IsTable, NameAdd

\* Deleting keeps a table good.
LEMMA DeleteTaken ==
    ASSUME NEW T, NEW name, NEW current, NEW q \in Taken(DeleteNames(T, name, current))
    PROVE  q \in Taken(T) /\ DeleteNames(T, name, current)[q] = T[q]
BY DEF Taken, DeleteNames

\* Qualifying a name keeps its tail.
LEMMA QualifiedTail ==
    ASSUME NEW name \in Written, NEW current \in Namespace
    PROVE  Qualified(name, current).tail = name.tail /\ Qualified(name, current) \in Written
<1>1. Qualified(name, current) \in FQN
      BY QualifiedInTable
<1> QED BY <1>1 DEF Qualified, Written, FQN

\* Outcomes are outcomes.
LEMMA OutcomeType ==
    ASSUME NEW name, NEW failed \in BOOLEAN
    PROVE  Outcome(name, failed) \in [failed : BOOLEAN, pattern : BOOLEAN]
BY DEF Outcome

\* Defining an enum, in whichever way, keeps the tables good.
LEMMA EnumAddGood ==
    ASSUME NEW name, NEW current, NEW list \in EnumList, list # NoMap, EnumInv,
           EnumAdd(current, name, list)
    PROVE  MapsGood(enums') /\ AliasesGood(aliases') /\ last' \in [failed : BOOLEAN, pattern : BOOLEAN]
<1>1. CASE EnumAccepted(current, name, list)
  <2>1. /\ enums' = NameAdd(enums, name, current, DictOf(list)) /\ aliases' = aliases
        /\ last' = Outcome(name, FALSE)
        BY <1>1 DEF EnumAdd
  <2>2. GoodMap(DictOf(list))
        BY <1>1, DictGood DEF EnumAccepted
  <2>3. MapsGood(enums')
        BY <2>1, <2>2, AddTaken DEF MapsGood, EnumInv, Tables
  <2> QED BY <2>1, <2>3, OutcomeType DEF EnumInv
<1>2. CASE ~EnumAccepted(current, name, list)
      BY <1>2, OutcomeType DEF EnumAdd, Fail, EnumInv
<1> QED BY <1>1, <1>2

\* So does defining an alias,
LEMMA AliasesWithGood ==
    ASSUME NEW name \in Written, NEW current \in Namespace, NEW table, NEW decl, EnumInv,
           MapsGood(table),
           decl.base \in BaseTypes \cup {"alias"}, decl.alias \in Written,
           decl.annots \in Seq(Annotations), decl.enum \in Written,
           AliasAccepted(current, name, decl, table)
    PROVE  AliasesGood(AliasesWith(current, name, decl, table))
<1>1. GoodMeaning(Meaning(current, decl, table))
      BY MeaningGood DEF AliasAccepted, EnumInv
<1>2. CASE MayAdd(aliases, name, current)
  <2>1. AliasesWith(current, name, decl, table)
           = NameAdd(aliases, name, current, Meaning(current, decl, table))
        BY <1>2 DEF AliasesWith
  <2>2. Qualified(name, current).tail \in ProperTails
        BY QualifiedTail DEF AliasAccepted
  <2> QED BY <2>1, <2>2, <1>1, AddTaken DEF AliasesGood, EnumInv, Tables
<1>3. CASE ~MayAdd(aliases, name, current)
      BY <1>3 DEF AliasesWith, EnumInv
<1> QED BY <1>2, <1>3

\* an enum with its alias,
LEMMA EnumAliasGood ==
    ASSUME NEW name \in Written, NEW current \in Namespace, NEW list \in EnumList, list # NoMap,
           NEW decl \in DeclSyntax, EnumInv, EnumAlias(current, name, list, decl)
    PROVE  MapsGood(enums') /\ AliasesGood(aliases') /\ last' \in [failed : BOOLEAN, pattern : BOOLEAN]
<1> DEFINE table == NameAdd(enums, name, current, DictOf(list))
           full == [decl EXCEPT !.annots = Append(@, "enum"), !.enum = Qualified(name, current)]
<1>1. CASE ~EnumAccepted(current, name, list)
      BY <1>1, OutcomeType DEF EnumAlias, Fail, EnumInv
<1>2. CASE EnumAccepted(current, name, list)
  <2>1. GoodMap(DictOf(list))
        BY <1>2, DictGood DEF EnumAccepted
  <2>2. MapsGood(table)
        BY <2>1, AddTaken DEF MapsGood, EnumInv, Tables
  <2>3. /\ full.base \in BaseTypes \cup {"alias"} /\ full.alias \in Written
        /\ full.annots \in Seq(Annotations) /\ full.enum \in Written
    <3>1. /\ full.base = decl.base /\ full.alias = decl.alias
          /\ full.annots = Append(decl.annots, "enum") /\ full.enum = Qualified(name, current)
          BY DEF DeclSyntax
    <3>2. decl.annots \in Seq(Annotations) /\ "enum" \in Annotations
          BY DEF DeclSyntax, Annotations
    <3>3. Append(decl.annots, "enum") \in Seq(Annotations)
          BY <3>2, AppendProperties
    <3> HIDE DEF full
    <3> QED BY <3>1, <3>3, QualifiedTail DEF DeclSyntax
  <2>4. CASE AliasAccepted(current, name, full, table)
    <3>1. /\ enums' = table /\ aliases' = AliasesWith(current, name, full, table)
          /\ last' = Outcome(name, FALSE)
          BY <1>2, <2>4 DEF EnumAlias
    <3> HIDE DEF full, table
    <3>2. AliasesGood(aliases')
          BY <2>2, <2>3, <2>4, <3>1, AliasesWithGood
    <3> QED BY <3>1, <3>2, <2>2, OutcomeType
  <2>5. CASE ~AliasAccepted(current, name, full, table)
    <3>1. /\ enums' = DeleteNames(table, Qualified(name, current), current)
          /\ aliases' = aliases /\ last' = Outcome(name, TRUE)
          BY <1>2, <2>5 DEF EnumAlias, RolledBack
    <3> HIDE DEF full, table
    <3>2. MapsGood(enums')
          BY <2>2, <3>1, DeleteTaken DEF MapsGood
    <3> QED BY <3>1, <3>2, OutcomeType DEF EnumInv
  <2> QED BY <2>4, <2>5
<1> QED BY <1>1, <1>2

\* and every other command.
LEMMA CommandGood ==
    ASSUME EnumInv, [Next]_vars
    PROVE  EnumInv'
<1> DEFINE Good == MapsGood(enums') /\ AliasesGood(aliases')
                     /\ last' \in [failed : BOOLEAN, pattern : BOOLEAN]
<1>1. Tables'
      BY CommandStands DEF EnumInv
<1>2. ASSUME NEW name, Fail(name) PROVE Good
      BY <1>2, OutcomeType DEF Fail, EnumInv
<1>3. ASSUME NEW current \in Here, NEW name \in Written, NEW list \in EnumLists,
             EnumDefine(current, name, list)
      PROVE  Good
      BY <1>3, EnumAddGood, EnumAssumption DEF EnumDefine
<1>4. ASSUME NEW current \in Here, NEW name \in Written, NEW sequence \in Counted,
             EnumSequence(current, name, sequence)
      PROVE  Good
  <2>1. SequenceList(sequence) \in EnumList /\ SequenceList(sequence) # NoMap
        BY SequenceShape, EnumAssumption
  <2> QED BY <2>1, <1>2, <1>4, EnumAddGood DEF EnumSequence
<1>5. ASSUME NEW current \in Here, NEW name \in Written, NEW names \in Flags,
             EnumFlags(current, name, names)
      PROVE  Good
  <2>1. FlagsList(names) \in EnumList /\ FlagsList(names) # NoMap
        BY FlagsShape, EnumAssumption
  <2> QED BY <2>1, <1>2, <1>5, EnumAddGood DEF EnumFlags
<1>6. ASSUME NEW current \in Here, NEW name \in Written, NEW list \in EnumLists,
             NEW decl \in AliasDecls, EnumAlias(current, name, list, decl)
      PROVE  Good
      BY <1>6, EnumAliasGood, EnumAssumption
<1>7. ASSUME NEW current \in Here, NEW name \in Written, NEW decl \in AliasDecls,
             AliasDefine(current, name, decl)
      PROVE  Good
  <2>1. CASE AliasAccepted(current, name, decl, enums)
    <3>1. /\ aliases' = AliasesWith(current, name, decl, enums)
          /\ enums' = enums /\ last' = Outcome(name, FALSE)
          BY <1>7, <2>1 DEF AliasDefine
    <3>2. decl \in DeclSyntax /\ current \in Namespace
          BY EnumAssumption
    <3>3. AliasesGood(aliases')
          BY <3>1, <3>2, <2>1, AliasesWithGood DEF EnumInv, DeclSyntax
    <3> QED BY <3>1, <3>3, OutcomeType DEF EnumInv
  <2>2. CASE ~AliasAccepted(current, name, decl, enums)
        BY <1>2, <1>7, <2>2 DEF AliasDefine
  <2> QED BY <2>1, <2>2
<1>8. ASSUME NEW current \in Here, NEW name \in Written, EnumDelete(current, name)
      PROVE  Good
  <2>1. MapsGood(DeleteNames(enums, name, current))
        BY DeleteTaken DEF EnumInv, MapsGood
  <2> QED BY <1>8, <2>1, OutcomeType DEF EnumDelete, EnumInv
<1>9. ASSUME NEW current \in Here, NEW name \in Written, AliasDelete(current, name)
      PROVE  Good
  <2>1. AliasesGood(DeleteNames(aliases, name, current))
        BY DeleteTaken DEF EnumInv, AliasesGood
  <2> QED BY <1>9, <2>1, OutcomeType DEF AliasDelete, EnumInv
<1>10. ASSUME EnumClear PROVE Good
      BY <1>10 DEF EnumClear, Succeeded, EnumInv, MapsGood, Taken
<1>11. ASSUME AliasClear PROVE Good
      BY <1>11 DEF AliasClear, Succeeded, EnumInv, AliasesGood, Taken
<1>12. ASSUME UNCHANGED vars PROVE Good
      BY <1>12 DEF vars, EnumInv
<1>13. Good
  <2> HIDE DEF Good
  <2> QED BY <1>3, <1>4, <1>5, <1>6, <1>7, <1>8, <1>9, <1>10, <1>11, <1>12 DEF Next
<1>14. MapsGood(enums)' = MapsGood(enums') /\ AliasesGood(aliases)' = AliasesGood(aliases')
      OBVIOUS
<1> QED BY <1>1, <1>13, <1>14 DEF EnumInv

\* In every state the maps of enums have no member twice and the aliases have a map if
\* their types say enum, whatever lists, declarations and names there are.
THEOREM EnumInvariant == Spec => []EnumInv
<1>1. Init => EnumInv
  BY DEF Init, EnumInv, Tables, IsTable, MapsGood, AliasesGood, Taken, Succeeded
<1>2. EnumInv /\ [Next]_vars => EnumInv'
  BY CommandGood
<1> QED BY <1>1, <1>2, PTL DEF Spec

\* The invariant has more to say than TypeOK.
LEMMA InvImpliesTypeOK == EnumInv => TypeOK
<1> SUFFICES ASSUME EnumInv PROVE TypeOK
    OBVIOUS
<1>1. enums \in [FQN -> EnumList \cup {Free}]
      BY DEF EnumInv, Tables, IsTable, MapsGood, GoodMap, Taken
<1>2. \A q \in Taken(enums) :
          \A i, j \in DOMAIN enums[q] :
              /\ enums[q][i].member \in ProperMember
              /\ enums[q][i].member = enums[q][j].member => i = j
      BY DEF EnumInv, MapsGood, GoodMap, UniqueMembers
<1>3. DOMAIN aliases = FQN
      BY DEF EnumInv, Tables, IsTable
<1>4. \A q \in Taken(aliases) :
          /\ q.tail \in ProperTails
          /\ aliases[q].type.ok
          /\ ("enum" \in aliases[q].type.flags) = (aliases[q].map # NoMap)
      BY DEF EnumInv, AliasesGood, GoodMeaning, Typed
<1> QED BY <1>1, <1>2, <1>3, <1>4 DEF TypeOK, EnumInv

\* So the type invariant holds.
THEOREM TypeCorrect == Spec => []TypeOK
BY EnumInvariant, InvImpliesTypeOK, PTL

-----------------------------------------------------------------------------
(* Masks.                                                                  *)

MembersOf(map) == {map[i].member : i \in DOMAIN map}

\* In a dictionary a member has one value, which Find returns.
LEMMA FindValue ==
    ASSUME NEW map, UniqueMembers(map), NEW i \in DOMAIN map
    PROVE  Find(map, map[i].member) = map[i].value
BY DEF Find, UniqueMembers

\* Members that make up a mask are reported for it unless they have no bits, and what
\* is reported for a mask makes up no more than the mask.
THEOREM MaskFitsMembers ==
    ASSUME NEW map, UniqueMembers(map)
    PROVE  /\ \A S \in SUBSET MembersOf(map) :
                 {m \in S : Find(map, m) # {}} \subseteq BitUnmask(map, Bitmask(map, S, {}))
           /\ \A mask : Bitmask(map, BitUnmask(map, mask), {}) \subseteq mask
<1>1. ASSUME NEW S \in SUBSET MembersOf(map), NEW m \in S, Find(map, m) # {}
      PROVE  m \in BitUnmask(map, Bitmask(map, S, {}))
  <2>1. PICK i \in DOMAIN map : map[i].member = m
    BY DEF MembersOf
  <2>2. map[i].value = Find(map, m)
    BY <2>1, FindValue
  <2>3. Find(map, m) \subseteq Bitmask(map, S, {})
    BY DEF Bitmask
  <2> QED BY <1>1, <2>1, <2>2, <2>3 DEF BitUnmask
<1>2. ASSUME NEW mask, NEW m \in BitUnmask(map, mask)
      PROVE  Find(map, m) \subseteq mask
  <2>1. PICK i \in DOMAIN map : map[i].value \subseteq mask /\ m = map[i].member
    BY DEF BitUnmask
  <2> QED BY <2>1, FindValue
<1>3. ASSUME NEW mask
      PROVE  Bitmask(map, BitUnmask(map, mask), {}) \subseteq mask
  BY <1>2 DEF Bitmask
<1> QED BY <1>1, <1>3

\* A value that a map has is named by a member that has it.
LEMMA NamedValue ==
    ASSUME NEW map, GoodMap(map), NEW i \in DOMAIN map
    PROVE  Find(map, FindReverse(map, map[i].value)) = map[i].value
<1> DEFINE found == {j \in DOMAIN map : map[j].value = map[i].value}
<1>1. found \in SUBSET Nat /\ found # {}
  <2>1. map \in Seq(EnumEntry)
        BY DEF GoodMap, EnumList, EnumEntry
  <2>2. DOMAIN map \subseteq Nat
        BY <2>1, LenProperties
  <2> QED BY <2>2
<1>2. PICK k \in found : FindReverse(map, map[i].value) = map[k].member
  <2>1. \E k \in found : \A j \in found : k <= j
        BY <1>1, LeastOf
  <2>2. FindReverse(map, map[i].value)
           = map[CHOOSE k \in found : \A j \in found : k <= j].member
        BY DEF FindReverse
  <2> HIDE DEF found
  <2> QED BY <2>1, <2>2
<1> QED BY <1>2, FindValue DEF GoodMap

\* Flags that fit an int are distinct bits.
LEMMA FlagsDistinct ==
    ASSUME NEW names \in Seq(Member), Len(names) < IntBits,
           NEW i \in DOMAIN FlagsList(names), NEW j \in DOMAIN FlagsList(names)
    PROVE  /\ Cardinality(FlagsList(names)[i].value) = 1
           /\ i # j => FlagsList(names)[i].value # FlagsList(names)[j].value
<1>1. /\ DOMAIN FlagsList(names) = 1 .. Len(names) /\ Len(names) \in Nat
      /\ \A k \in 1 .. Len(names) : FlagsList(names)[k].value = FlagValue(k - 1)
      BY LenProperties DEF FlagsList
<1>2. \A k \in 1 .. Len(names) : k - 1 < IntBits - 1
      BY <1>1, EnumAssumption
<1>3. \A k \in 1 .. Len(names) : FlagsList(names)[k].value = {k - 1}
  <2> SUFFICES ASSUME NEW k \in 1 .. Len(names) PROVE FlagValue(k - 1) = {k - 1}
      BY <1>1
  <2>1. k - 1 \in Int /\ IntBits - 1 \in Int /\ k - 1 < IntBits - 1
        BY <1>1, <1>2, EnumAssumption
  <2> QED BY <2>1 DEF FlagValue
<1>4. Cardinality({i - 1}) = 1
      BY FS_Singleton
<1>5. i # j => {i - 1} # {j - 1}
  <2>1. i \in Nat /\ j \in Nat
        BY <1>1
  <2> QED BY <2>1
<1> QED BY <1>1, <1>3, <1>4, <1>5

\* Masks and members, values and names fit each other for every enum that is ever
\* defined, and flags that fit an int are distinct bits (Enum.c:418).
THEOREM MasksCorrect == Spec => []MasksRoundTrip
<1>1. ASSUME EnumInv PROVE MasksRoundTrip
  <2>1. ASSUME NEW q \in Taken(enums)
        PROVE  LET map == enums[q]
                   members == {map[i].member : i \in DOMAIN map}
               IN /\ \A S \in SUBSET members :
                        {m \in S : Find(map, m) # {}} \subseteq BitUnmask(map, Bitmask(map, S, {}))
                  /\ \A mask \in Values :
                        /\ Bitmask(map, BitUnmask(map, mask), {}) \subseteq mask
                        /\ Bitmask(map, BitUnmask(map, mask), {mask}) = mask
                  /\ \A m \in members : Find(map, FindReverse(map, Find(map, m))) = Find(map, m)
    <3> DEFINE map == enums[q]
    <3>1. GoodMap(map)
          BY <1>1 DEF EnumInv, MapsGood
    <3> HIDE DEF map
    <3>2. UniqueMembers(map)
          BY <3>1 DEF GoodMap
    <3>3. /\ \A S \in SUBSET MembersOf(map) :
                {m \in S : Find(map, m) # {}} \subseteq BitUnmask(map, Bitmask(map, S, {}))
          /\ \A mask \in Values : Bitmask(map, BitUnmask(map, mask), {}) \subseteq mask
          BY <3>2, MaskFitsMembers
    <3>4. \A mask \in Values : Bitmask(map, BitUnmask(map, mask), {mask}) = mask
      <4>1. \A mask : Bitmask(map, BitUnmask(map, mask), {mask})
                         = Bitmask(map, BitUnmask(map, mask), {}) \cup mask
            BY DEF Bitmask
      <4> QED BY <4>1, <3>3
    <3>5. \A i \in DOMAIN map : Find(map, FindReverse(map, Find(map, map[i].member)))
                                   = Find(map, map[i].member)
          BY <3>1, <3>2, FindValue, NamedValue
    <3> QED BY <3>3, <3>4, <3>5 DEF MembersOf, map
  <2>2. \A names \in Flags :
          LET values == FlagsList(names) IN
          Len(names) < IntBits =>
              \A i, j \in DOMAIN values :
                  Cardinality(values[i].value) = 1 /\ (i # j => values[i].value # values[j].value)
        BY FlagsDistinct, EnumAssumption
  <2> QED BY <2>1, <2>2 DEF MasksRoundTrip
<1> QED BY <1>1, EnumInvariant, PTL
=============================================================================

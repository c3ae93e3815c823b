------------------------------- MODULE MCEnum -------------------------------
(* A name and a pattern that matches it, in the global, the platform's and one  *)
(* other namespace.                                                         *)
EXTENDS Enum

CONSTANTS N, E, Star, a, b, c, bad

MCGlob == [t \in Tails |-> IF t = Star THEN Tails ELSE {t}]

Entry(member, value) == [member |-> member, value |-> value]

\* One with two names of a value, one that overlaps, one with a repeated name, and
\* one that is refused.
MCEnumLists == {
    <<Entry(a, {0}), Entry(b, {0, 1})>>,
    <<Entry(a, {1, 2}), Entry(a, {})>>,
    <<Entry(bad, {0})>> }

MCFlags == {<<a, b>>, <<b, a, c>>}

Name(scope, tail) == [scope |-> scope, tail |-> tail]

AnE == Name(Relative, E)

Decl(base, annots) == [base |-> base, alias |-> AnE, annots |-> annots, enum |-> AnE]

MCAliasDecls == {
    Decl("int", <<>>), Decl("float", <<>>), Decl("int", <<"bitmask", "enum">>),
    Decl("alias", <<"errno">>) }

\* One that wraps around, and one that goes on from a member's own value.
MCCounted == {
    [list |-> <<Entry(a, {}), Entry(b, {})>>, own |-> {}, start |-> 0 .. 3],
    [list |-> <<Entry(c, {}), Entry(a, {1}), Entry(b, {})>>, own |-> {2}, start |-> {}] }
=============================================================================

------------------------------ MODULE MCScopes ------------------------------
(* Scopes for TLC: two names and a third, lists with and without initial values, small pools and limits. *)
EXTENDS Scopes

CONSTANTS x, y, z      \* z is declared and never mentioned again

D(n) == [name |-> n, init |-> NoName]
MCNames == {x, y}
MCVarLists == {<<D(x)>>, <<D(y), [name |-> z, init |-> y]>>}
MCPatternArgs == {<<>>, <<y, x>>}
=============================================================================

-------------------------- MODULE MCReadModelPages --------------------------
(* Small instances of ReadModelPages for TLC. *)
EXTENDS ReadModelPages

\* The same content from two origins.
MCSubmissions == {<<"d1", "o1">>, <<"d1", "o2">>, <<"d1", "o3">>}

\* Lower-case names: both orders agree.  In locale order "a" comes before
\* "B", by code units after it.
SameOrder == <<1, 2>>
MixedCase == <<2, 1>>

Symmetry == Permutations(Callers)
=============================================================================

------------------------------ MODULE MC_Daemon ------------------------------
(* Daemon instantiated for TLC: two search roots, two desktop files, two   *)
(* display names of which one is a prefix of the other.                   *)
EXTENDS Daemon

CONSTANTS i1, i2

MC_Ids == {i1, i2}
MC_Ranks == 0..1
\* "f" and "fx"; the user may type " a" after a name, or "z" alone.
MC_Names == {<<"f">>, <<"f", "x">>}
MC_Alphabet == <<" ", "F", "a", "f", "x", "z">>
MC_Lower == [c \in {" ", "F", "a", "f", "x", "z"} |-> IF c = "F" THEN "f" ELSE c]
\* "F" and "a": byte order puts "F" first, case folding puts "a" first,
\* and the user may type "F" as "f".
MC_CaseNames == {<<"F">>, <<"a">>}
\* A usage log that is empty, or holds a launch typed as "f", as a run with
\* --case-insensitive records it.
MC_Histories == {<<>>, <<[count |-> 1, name |-> <<"f">>]>>}
MC_NoHistory == {<<>>}
MC_Args == <<" ", "a">>
MC_Custom == <<"z">>

\* Desktop identities are interchangeable: nothing orders them.
IdSymmetry == Permutations(MC_Ids)
=============================================================================

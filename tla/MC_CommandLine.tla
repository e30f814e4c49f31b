---------------------------- MODULE MC_CommandLine ----------------------------
(* CommandLine instantiated for TLC: arguments over a plain letter, a     *)
(* blank and the characters the quoting layers treat specially; how many  *)
(* and how long is set in each .cfg (MaxArgs, MaxArgLen).                 *)
EXTENDS CommandLine

MC_ArgChars == {"a", " ", "'", "\"", "$"}
MC_Queries  == {<<"a">>, <<"a", " ", "a">>}
MC_Wrapper  == <<"w">>
MC_Terminal == <<"t">>
MC_Shell    == <<"s">>
=============================================================================

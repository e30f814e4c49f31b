----------------------------- MODULE MC_ExecKey -----------------------------
(* Every Exec key of up to 6 characters over a letter, the blank, the      *)
(* double quote, the backslash and the dollar sign, under all quirks.      *)
EXTENDS ExecKey

MC_ExecChars == {"a", " ", "\"", "\\", "$"}
=============================================================================

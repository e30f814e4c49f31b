----------------------------- MODULE MC_SqQuote -----------------------------
(* sq_quote over every string of up to 6 characters made of a letter, the  *)
(* single quote, a blank, the backslash and the double quote.              *)
EXTENDS SqQuote

MC_Chars == {"a", "'", " ", "\\", "\""}
=============================================================================

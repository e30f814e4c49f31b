---------------------------- MODULE ShellSyntax ----------------------------
(***************************************************************************)
(* Reference definition, not a model of this repository's code: how a      *)
(* POSIX shell turns a command string into words, restricted to quoting.   *)
(* Blanks separate words; '...' quotes everything up to the next '; "..."  *)
(* quotes with \ escaping only $ ` " \ ; outside quotes \ escapes the next *)
(* character.  An unquoted or double-quoted ` , or $ before a name or a    *)
(* special character, starts an expansion,                                 *)
(* whose result this definition does not compute: the string is then not  *)
(* taken literally and ShellWords returns Expands.  An unterminated quote  *)
(* is a syntax error.                                                      *)
(***************************************************************************)
EXTENDS Naturals, Sequences

\* The two failures, as a one-word result whose only "character" is a
\* longer string, so that no real word list equals them.
Unterminated == <<<<"unterminated quote">>>>
Expands      == <<<<"expansion">>>>

\* The backquote character (SANY does not accept it inside a string).
Backtick == "BQ"

DqEscapable == {"$", Backtick, "\"", "\\"}

\* A $ followed by one of these, or by nothing, is a literal $.
LiteralAfterDollar == {" ", "'", "\"", "\\"}

\* c, followed by the rest r, starts a parameter expansion or a command
\* substitution.
StartsExpansion(c, r) ==
    \/ c = Backtick
    \/ c = "$" /\ r # <<>> /\ Head(r) \notin LiteralAfterDollar

\* s: the rest of the input; mode: "plain", "single" or "double";
\* cur: the word being built; open: a word has been started (so that ''
\* yields an empty word); words: the words finished so far.
RECURSIVE Words(_, _, _, _, _)
Words(s, mode, cur, open, words) ==
    IF s = <<>>
    THEN IF mode # "plain" THEN Unterminated
         ELSE IF open THEN Append(words, cur) ELSE words
    ELSE LET c == Head(s)
             r == Tail(s)
             InSingle ==
                 IF c = "'" THEN Words(r, "plain", cur, TRUE, words)
                 ELSE Words(r, "single", Append(cur, c), TRUE, words)
             InDouble ==
                 CASE c = "\"" -> Words(r, "plain", cur, TRUE, words)
                   [] c = "\\" /\ r # <<>> /\ Head(r) \in DqEscapable ->
                        Words(Tail(r), "double", Append(cur, Head(r)), TRUE, words)
                   [] StartsExpansion(c, r) -> Expands
                   [] OTHER -> Words(r, "double", Append(cur, c), TRUE, words)
             InPlain ==
                 CASE StartsExpansion(c, r) -> Expands
                   [] c = " " ->
                        IF open THEN Words(r, "plain", <<>>, FALSE, Append(words, cur))
                        ELSE Words(r, "plain", cur, FALSE, words)
                   [] c = "'"  -> Words(r, "single", cur, TRUE, words)
                   [] c = "\"" -> Words(r, "double", cur, TRUE, words)
                   [] c = "\\" /\ r # <<>> -> Words(Tail(r), "plain", Append(cur, Head(r)), TRUE, words)
                   [] OTHER -> Words(r, "plain", Append(cur, c), TRUE, words)
         IN  CASE mode = "single" -> InSingle
               [] mode = "double" -> InDouble
               [] mode = "plain"  -> InPlain

ShellWords(s) == Words(s, "plain", <<>>, FALSE, <<>>)

\* All strings over the alphabet A of length at most n.
Strings(A, n) == UNION {[1..k -> A] : k \in 0..n}
=============================================================================

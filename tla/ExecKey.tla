------------------------------- MODULE ExecKey -------------------------------
(***************************************************************************)
(* The Exec key grammar of src/src/CMDLineAssembler.cc.                    *)
(* validate_exec_key is a recursive definition over the index of its loop; *)
(* convert_exec_to_command is a state machine that consumes one character  *)
(* per step, with the loop's variables curr, result, in_quotes and         *)
(* escaping, under both ParsingQuirks flags.  A thrown invalid_Exec ends   *)
(* the machine in status "error".  Warnings are left out.                  *)
(***************************************************************************)
EXTENDS Naturals, Sequences, SequencesExt, ShellSyntax, CMDLineAssembly

CONSTANTS ExecChars,  \* the characters Exec keys are made of
          MaxLen      \* the longest Exec key checked

\* The characters an escape may introduce: " ` $ \ (switch cases).
Escapable == {"\"", Backtick, "$", "\\"}

\* Fault variant: an unquoted \ is not rejected.
RECURSIVE Valid_unquotedBackslash(_, _, _)
Valid_unquotedBackslash(s, i, inQuotes) ==
    IF i > Len(s) THEN ~inQuotes
    ELSE IF inQuotes
    THEN CASE s[i] = "\\" -> i < Len(s) /\ s[i + 1] \in Escapable
                             /\ Valid_unquotedBackslash(s, i + 2, TRUE)
           [] s[i] = "\"" -> Valid_unquotedBackslash(s, i + 1, FALSE)
           [] OTHER       -> Valid_unquotedBackslash(s, i + 1, TRUE)
    ELSE Valid_unquotedBackslash(s, i + 1, s[i] = "\"")

\* validate_exec_key from index i (1-based) on: in quotes a \ must be
\* followed by an escapable character (and skips it); outside quotes a \
\* is an error; the key must not end inside quotes.
RECURSIVE Valid(_, _, _)
Valid(s, i, inQuotes) ==
    IF i > Len(s) THEN ~inQuotes
    ELSE IF inQuotes
    THEN CASE s[i] = "\\" -> i < Len(s) /\ s[i + 1] \in Escapable
                             /\ Valid(s, i + 2, TRUE)
           [] s[i] = "\"" -> Valid(s, i + 1, FALSE)
           [] OTHER       -> Valid(s, i + 1, TRUE)
    ELSE s[i] # "\\" /\ Valid(s, i + 1, s[i] = "\"")

validate_exec_key(s) == Valid(s, 1, FALSE)

Quirks == [extra_wine_escaping : BOOLEAN, multiple_spaces_in_exec : BOOLEAN]

VARIABLES exec,      \* the Exec key being converted
          quirks,    \* the ParsingQuirks argument
          pos,       \* index of the next character
          curr,      \* the argument being built
          result,    \* the arguments finished so far
          inQuotes,  \* in_quotes
          escaping,  \* escaping
          status     \* "run", "done" (returned) or "error" (threw)

vars == <<exec, quirks, pos, curr, result, inQuotes, escaping, status>>

TypeOK ==
    /\ exec \in Strings(ExecChars, MaxLen)
    /\ quirks \in Quirks
    /\ pos \in 1..Len(exec) + 1
    /\ curr \in Seq(ExecChars)
    /\ result \in Seq(Seq(ExecChars))
    /\ inQuotes \in BOOLEAN /\ escaping \in BOOLEAN
    /\ status \in {"run", "done", "error"}

Init ==
    /\ exec \in Strings(ExecChars, MaxLen)
    /\ quirks \in Quirks
    /\ pos = 1 /\ curr = <<>> /\ result = <<>>
    /\ inQuotes = FALSE /\ escaping = FALSE
    /\ status = "run"

Scanning == status = "run" /\ pos <= Len(exec)
ch == exec[pos]

\* One iteration of the for loop: the character is consumed.
Step(c, r, q, e) ==
    /\ curr' = c /\ result' = r /\ inQuotes' = q /\ escaping' = e
    /\ pos' = pos + 1
    /\ UNCHANGED <<exec, quirks, status>>

Throw ==
    /\ status' = "error"
    /\ UNCHANGED <<exec, quirks, pos, curr, result, inQuotes, escaping>>

(* escaping *)
EscapedChar ==
    Scanning /\ escaping /\ ch \in Escapable /\ Step(Append(curr, ch), result, inQuotes, FALSE)
EscapedSpace ==
    Scanning /\ escaping /\ ch = " " /\ quirks.extra_wine_escaping
    /\ Step(Append(curr, " "), result, inQuotes, FALSE)
EscapedSpaceThrows ==
    Scanning /\ escaping /\ ch = " " /\ ~quirks.extra_wine_escaping /\ Throw
\* No case of the switch matches: nothing is appended.
EscapedOther ==
    Scanning /\ escaping /\ ch \notin Escapable \cup {" "} /\ Step(curr, result, inQuotes, FALSE)

(* in_quotes *)
CloseQuote ==
    Scanning /\ ~escaping /\ inQuotes /\ ch = "\"" /\ Step(curr, result, FALSE, FALSE)
\* Fault variant: the escaped character skipped as validate_exec_key does
\* (++i), so it is never looked at.
QuotedBackslash_skip ==
    /\ Scanning /\ ~escaping /\ inQuotes /\ ch = "\\"
    /\ escaping' = TRUE /\ pos' = pos + 2
    /\ UNCHANGED <<exec, quirks, curr, result, inQuotes, status>>
QuotedBackslash ==
    Scanning /\ ~escaping /\ inQuotes /\ ch = "\\" /\ Step(curr, result, TRUE, TRUE)
QuotedChar ==
    Scanning /\ ~escaping /\ inQuotes /\ ch \notin {"\"", "\\"}
    /\ Step(Append(curr, ch), result, TRUE, FALSE)

(* outside quotes *)
OpenQuote ==
    Scanning /\ ~escaping /\ ~inQuotes /\ ch = "\"" /\ Step(curr, result, TRUE, FALSE)
\* multiple_spaces_in_exec: a blank with nothing collected is skipped.
SkipSpace ==
    Scanning /\ ~escaping /\ ~inQuotes /\ ch = " "
    /\ quirks.multiple_spaces_in_exec /\ curr = <<>>
    /\ Step(curr, result, FALSE, FALSE)
\* Otherwise a blank ends the argument, even an empty one.
SplitArg ==
    Scanning /\ ~escaping /\ ~inQuotes /\ ch = " "
    /\ ~(quirks.multiple_spaces_in_exec /\ curr = <<>>)
    /\ Step(<<>>, Append(result, curr), FALSE, FALSE)
UnquotedBackslash ==
    Scanning /\ ~escaping /\ ~inQuotes /\ ch = "\\" /\ quirks.extra_wine_escaping
    /\ Step(curr, result, FALSE, TRUE)
UnquotedBackslashThrows ==
    Scanning /\ ~escaping /\ ~inQuotes /\ ch = "\\" /\ ~quirks.extra_wine_escaping
    /\ Throw
PlainChar ==
    Scanning /\ ~escaping /\ ~inQuotes /\ ch \notin {"\"", " ", "\\"}
    /\ Step(Append(curr, ch), result, FALSE, FALSE)

\* After the loop: a non-empty curr is the last argument; return.
Finish ==
    /\ status = "run" /\ pos > Len(exec)
    /\ result' = IF curr # <<>> THEN Append(result, curr) ELSE result
    /\ status' = "done"
    /\ UNCHANGED <<exec, quirks, pos, curr, inQuotes, escaping>>

Next ==
    \/ EscapedChar \/ EscapedSpace \/ EscapedSpaceThrows \/ EscapedOther
    \/ CloseQuote \/ QuotedBackslash \/ QuotedChar
    \/ OpenQuote \/ SkipSpace \/ SplitArg
    \/ UnquotedBackslash \/ UnquotedBackslashThrows \/ PlainChar
    \/ Finish

Spec == Init /\ [][Next]_vars

-----------------------------------------------------------------------------
(* Properties.                                                             *)

\* validate_exec_key and convert_exec_to_command agree: an Exec key the
\* validator accepts never makes the converter throw, under any quirks.
ValidatedNeverThrows ==
    validate_exec_key(exec) => status # "error"

\* Specification 8.3: the argv the converter returns, joined by
\* convert_argv_to_string (sq_quote on every argument), is read back by
\* the shell as the same argv, empty arguments included.
ArgvRoundTrip ==
    status = "done" => ShellWords(convert_argv_to_string(result)) = result

(***************************************************************************)
(* Reference: tokenize-and-expand of specification 4.3, before field-code  *)
(* expansion.  An escape emits one of " ` $ \ , or a blank under the Wine  *)
(* quirk, and is an error before anything else; an unquoted \ is an error  *)
(* unless the Wine quirk is on; an unquoted blank ends the current token   *)
(* if it is non-empty (with or without the multiple-spaces quirk, "an      *)
(* empty token is still collapsed"); the key must not end in quotes or in  *)
(* an escape.  ExecError stands for the error.                             *)
(***************************************************************************)
ExecError == <<<<"invalid Exec">>>>

Close(acc, cur) == IF cur # <<>> THEN Append(acc, cur) ELSE acc

RECURSIVE Tokenize(_, _, _, _, _, _, _)
Tokenize(s, i, wine, inQ, esc, cur, acc) ==
    IF i > Len(s) THEN IF inQ \/ esc THEN ExecError ELSE Close(acc, cur)
    ELSE LET c == s[i]
             More(q, e, cu, ac) == Tokenize(s, i + 1, wine, q, e, cu, ac)
         IN  IF esc
             THEN IF c \in Escapable \/ (wine /\ c = " ")
                  THEN More(inQ, FALSE, Append(cur, c), acc)
                  ELSE ExecError
             ELSE CASE c = "\"" -> More(~inQ, FALSE, cur, acc)
                    [] c = "\\" -> IF inQ \/ wine THEN More(inQ, TRUE, cur, acc) ELSE ExecError
                    [] c = " " /\ ~inQ -> More(FALSE, FALSE, <<>>, Close(acc, cur))
                    [] OTHER -> More(inQ, FALSE, Append(cur, c), acc)

\* Specification 4.3: convert_exec_to_command returns exactly the tokens
\* of the specification's tokenizer, and throws exactly when it reports an
\* error: for every key and every ParsingQuirks setting.
ConvertMatchesSpec ==
    status \in {"done", "error"} =>
        (IF status = "done" THEN result ELSE ExecError)
            = Tokenize(exec, 1, quirks.extra_wine_escaping, FALSE, FALSE, <<>>, <<>>)
=============================================================================

------------------------------- MODULE SqQuote -------------------------------
(***************************************************************************)
(* CMDLineAssembly::sq_quote (src/src/CMDLineAssembler.cc), step by step:  *)
(* the string_view "input" shrinks as each ' is replaced by '\'' and the   *)
(* function returns from one of three places.  Positions are size_t        *)
(* values, 0-based, of SizeWidth bits: npos is the largest, and size()-1   *)
(* of an empty view wraps around to it.                                    *)
(***************************************************************************)
EXTENDS Integers, Sequences, SequencesExt, ShellSyntax

CONSTANTS Chars,      \* the characters strings are made of
          MaxLen,     \* the longest input checked
          SizeWidth   \* bits of size_t in the model

ASSUME 2^SizeWidth > MaxLen + 1

SizeT == 2^SizeWidth
npos  == SizeT - 1

\* Fault variant: "not found" reported as -1, as a signed index would.
find_signed(s, ch) ==
    LET j == SelectInSeq(s, LAMBDA x : x = ch)
    IN  IF j = 0 THEN -1 ELSE j - 1

\* string_view::find(ch): the first position of ch, or npos.
find(s, ch) ==
    LET j == SelectInSeq(s, LAMBDA x : x = ch)
    IN  IF j = 0 THEN npos ELSE j - 1

\* string_view::substr(pos, count): count is clamped to what is left.
substr(s, pos, count) ==
    SubSeq(s, pos + 1, IF pos + count > Len(s) THEN Len(s) ELSE pos + count)

\* input.size() - 1 in size_t arithmetic.
LastPos(s) == (Len(s) + SizeT - 1) % SizeT

VARIABLES orig,    \* the argument sq_quote was called with
          input,   \* the string_view still to be quoted
          where,   \* position of the next ' in input
          result,  \* the string built so far
          pc       \* "start" before the loop, "loop" inside, "done" returned

vars == <<orig, input, where, result, pc>>

TypeOK ==
    /\ orig \in Strings(Chars, MaxLen)
    /\ input \in Strings(Chars, MaxLen)
    /\ where \in 0..npos
    /\ result \in Seq(Chars)
    /\ pc \in {"start", "loop", "done"}

\* result = "'"; where = input.find('\'').
Init ==
    /\ orig \in Strings(Chars, MaxLen)
    /\ input = orig
    /\ result = <<"'">>
    /\ where = find(orig, "'")
    /\ pc = "start"

\* No ' at all: the input in '' and return.
QuickReturn ==
    /\ pc = "start" /\ where = npos
    /\ result' = result \o input \o <<"'">>
    /\ pc' = "done"
    /\ UNCHANGED <<orig, input, where>>

EnterLoop ==
    /\ pc = "start" /\ where # npos
    /\ pc' = "loop"
    /\ UNCHANGED <<orig, input, where, result>>

\* Fault variant: the trailing ' encoded without closing the quote first.
TrailingQuote_unclosed ==
    /\ pc = "loop" /\ where = LastPos(input)
    /\ result' = result \o substr(input, 0, LastPos(input)) \o <<"\\", "'">>
    /\ pc' = "done"
    /\ UNCHANGED <<orig, input, where>>

\* The ' is the last character: close the quote and append \' .
TrailingQuote ==
    /\ pc = "loop" /\ where = LastPos(input)
    /\ result' = result \o substr(input, 0, LastPos(input)) \o <<"'", "\\", "'">>
    /\ pc' = "done"
    /\ UNCHANGED <<orig, input, where>>

\* No ' left: the rest of the input and the closing '.
NoMoreQuotes ==
    /\ pc = "loop" /\ where # LastPos(input) /\ where = npos
    /\ result' = result \o input \o <<"'">>
    /\ pc' = "done"
    /\ UNCHANGED <<orig, input, where>>

\* A ' inside: the text before it, then '\'' ; continue after it.
EscapeQuote ==
    /\ pc = "loop" /\ where # LastPos(input) /\ where # npos
    /\ result' = result \o substr(input, 0, where) \o <<"'", "\\", "'", "'">>
    /\ input' = substr(input, where + 1, npos)
    /\ where' = find(input', "'")
    /\ UNCHANGED <<orig, pc>>

Next == QuickReturn \/ EnterLoop \/ TrailingQuote \/ NoMoreQuotes \/ EscapeQuote

Spec == Init /\ [][Next]_vars

\* Specification 8.1: the shell reads the quoted string back as exactly one
\* word equal to the input, for every input, including the empty string,
\* runs of ' and a ' at either end.
QuoteRoundTrip ==
    pc = "done" => ShellWords(result) = <<orig>>
=============================================================================

-------------------------- MODULE CMDLineAssembly --------------------------
(***************************************************************************)
(* The pure functions of namespace CMDLineAssembly (src/src/               *)
(* CMDLineAssembler.cc) over strings as sequences of characters: quoting   *)
(* for the shell and joining an argv into one command string.  SqQuote.tla *)
(* follows sq_quote step by step; here it is one recursive definition of   *)
(* the same loop.                                                          *)
(***************************************************************************)
EXTENDS Naturals, Sequences, SequencesExt

\* The loop of sq_quote from the current view "in" on; the opening ' has
\* been written already.  A ' is replaced by '\'' ; a ' at the very end by
\* '\' with no closing quote.
RECURSIVE SqRest(_)
SqRest(in) ==
    LET w == SelectInSeq(in, LAMBDA x : x = "'")   \* 1-based, 0 if none
    IN  IF w = 0 THEN in \o <<"'">>
        ELSE IF w = Len(in) THEN SubSeq(in, 1, w - 1) \o <<"'", "\\", "'">>
        ELSE SubSeq(in, 1, w - 1) \o <<"'", "\\", "'", "'">>
             \o SqRest(SubSeq(in, w + 1, Len(in)))

sq_quote(s) == <<"'">> \o SqRest(s)

\* Fault variant: arguments joined without a separating blank.
convert_argv_to_string_unspaced(command) ==
    FoldLeft(LAMBDA acc, arg : acc \o sq_quote(arg), <<>>, command)

\* Each argument quoted, joined by single blanks; "" for an empty argv.
convert_argv_to_string(command) ==
    IF command = <<>> THEN <<>>
    ELSE FoldLeft(LAMBDA acc, arg : acc \o <<" ">> \o sq_quote(arg),
                  sq_quote(Head(command)), Tail(command))
=============================================================================

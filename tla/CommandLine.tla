----------------------------- MODULE CommandLine -----------------------------
(***************************************************************************)
(* execute_app of src/src/main.cc: the command string of the chosen        *)
(* application (or the user's custom command) is put behind the --wrapper, *)
(* prefixed with "exec " when it came from a desktop file, and handed to   *)
(* $SHELL -c, directly or through the terminal, by execl/execlp or as an   *)
(* i3 IPC message.  The model follows the string from application_command  *)
(* to the words the last shell runs, using ShellSyntax as the shell.       *)
(***************************************************************************)
EXTENDS Naturals, Sequences, SequencesExt, ShellSyntax, CMDLineAssembly

CONSTANTS ArgChars,   \* characters of the application's arguments
          MaxArgs,    \* most arguments in an argv
          MaxArgLen,  \* longest argument
          Queries,    \* custom commands the user may type
          Wrapper,    \* the --wrapper string when one is given
          Terminal,   \* the --term program
          Shell,      \* $SHELL
          I3Modes     \* the values "--i3-ipc given" can take

Exec    == <<"e", "x", "e", "c">>
Blank   == <<" ">>
Dash(c) == <<"-", c>>

\* application_command (ApplicationRunner, not under src/): the expanded
\* argv of the desktop file, joined by convert_argv_to_string.
application_command(argv) == convert_argv_to_string(argv)

Argvs == UNION {[1..n -> Strings(ArgChars, MaxArgLen)] : n \in 1..MaxArgs}

VARIABLES argv,        \* the application's argv (desktop files only)
          isCustom,    \* is_custom: lookup_name found no application
          appCommand,  \* the command string execute_app is called with
          isTerminal,  \* is_terminal
          i3,          \* i3 IPC mode
          wrapper,     \* the wrapper string, <<>> if none
          command,     \* execute_app's local "command"
          pc,          \* "wrap", "prefix", "run" or "launched"
          launch       \* what was started: an argv (execl/execlp) or an i3 message

vars == <<argv, isCustom, appCommand, isTerminal, i3, wrapper, command, pc, launch>>

NoLaunch == [via |-> "none"]

\* do_wait_on / main: command is the custom query or application_command;
\* is_terminal is false for a custom command.
Init ==
    /\ argv \in Argvs
    /\ isCustom \in BOOLEAN
    /\ appCommand \in IF isCustom THEN Queries ELSE {application_command(argv)}
    /\ isTerminal \in IF isCustom THEN {FALSE} ELSE BOOLEAN
    /\ i3 \in I3Modes
    /\ wrapper \in {<<>>, Wrapper}
    /\ command = <<>>
    /\ pc = "wrap"
    /\ launch = NoLaunch

\* command = wrapper + " \"" + exec + "\"", or exec without a wrapper.
WrapCommand ==
    /\ pc = "wrap"
    /\ command' = IF wrapper # <<>>
                  THEN wrapper \o <<" ", "\"">> \o appCommand \o <<"\"">>
                  ELSE appCommand
    /\ pc' = "prefix"
    /\ UNCHANGED <<argv, isCustom, appCommand, isTerminal, i3, wrapper, launch>>

\* Fault variant: "exec" prepended without the separating blank.
PrefixExec_noBlank ==
    /\ pc = "prefix"
    /\ command' = IF ~isCustom THEN Exec \o command ELSE command
    /\ pc' = "run"
    /\ UNCHANGED <<argv, isCustom, appCommand, isTerminal, i3, wrapper, launch>>

\* if (!is_custom) command = "exec " + command;
PrefixExec ==
    /\ pc = "prefix"
    /\ command' = IF ~isCustom THEN Exec \o Blank \o command ELSE command
    /\ pc' = "run"
    /\ UNCHANGED <<argv, isCustom, appCommand, isTerminal, i3, wrapper, launch>>

\* execlp(terminal, terminal, "-e", shell, "-c", command)
ExecTerminal ==
    /\ pc = "run" /\ isTerminal /\ ~i3
    /\ launch' = [via |-> "exec", argv |-> <<Terminal, Dash("e"), Shell, Dash("c"), command>>]
    /\ pc' = "launched"
    /\ UNCHANGED <<argv, isCustom, appCommand, isTerminal, i3, wrapper, command>>

\* i3_exec(terminal + " -e " + shell + " -c '" + command + "'")
I3Terminal ==
    /\ pc = "run" /\ isTerminal /\ i3
    /\ launch' = [via |-> "i3",
                  msg |-> Terminal \o Blank \o Dash("e") \o Blank \o Shell \o Blank
                          \o Dash("c") \o <<" ", "'">> \o command \o <<"'">>]
    /\ pc' = "launched"
    /\ UNCHANGED <<argv, isCustom, appCommand, isTerminal, i3, wrapper, command>>

\* execl(shell, shell, "-c", command)
ExecShell ==
    /\ pc = "run" /\ ~isTerminal /\ ~i3
    /\ launch' = [via |-> "exec", argv |-> <<Shell, Dash("c"), command>>]
    /\ pc' = "launched"
    /\ UNCHANGED <<argv, isCustom, appCommand, isTerminal, i3, wrapper, command>>

\* i3_exec(command)
I3Shell ==
    /\ pc = "run" /\ ~isTerminal /\ i3
    /\ launch' = [via |-> "i3", msg |-> command]
    /\ pc' = "launched"
    /\ UNCHANGED <<argv, isCustom, appCommand, isTerminal, i3, wrapper, command>>

Next == WrapCommand \/ PrefixExec \/ ExecTerminal \/ I3Terminal \/ ExecShell \/ I3Shell

Spec == Init /\ [][Next]_vars

-----------------------------------------------------------------------------
(***************************************************************************)
(* What finally runs.  i3 runs a message as a shell command line; a        *)
(* terminal started with "-e prog args" runs prog with args; "shell -c C"  *)
(* runs the words of C.  The result is the words of the innermost command, *)
(* or Unterminated / Expands when a shell on the way cannot take C as      *)
(* literal text.                                                           *)
(***************************************************************************)
Unwrap(w) ==
    IF w \in {Unterminated, Expands} THEN w
    ELSE IF Len(w) = 5 /\ SubSeq(w, 1, 4) = <<Terminal, Dash("e"), Shell, Dash("c")>>
    THEN ShellWords(w[5])
    ELSE IF Len(w) = 3 /\ SubSeq(w, 1, 2) = <<Shell, Dash("c")>>
    THEN ShellWords(w[3])
    ELSE w

Delivered ==
    Unwrap(IF launch.via = "i3" THEN ShellWords(launch.msg) ELSE launch.argv)

\* Specification 4.4: a desktop application started without a wrapper, by
\* execl, by execlp through the terminal or by i3 IPC, runs as "exec"
\* followed by exactly its argv, whatever blanks and quotes the arguments
\* hold.  (i3 IPC with a terminal application is the next property.)
LaunchPreservesArgv ==
    (pc = "launched" /\ ~isCustom /\ wrapper = <<>> /\ ~(i3 /\ isTerminal))
        => Delivered = <<Exec>> \o argv

\* Specification 4.4, terminal wrap under IPC: the message
\* "<term> -e <shell> -c '<cmdstring>'" runs the application's argv.
I3TerminalPreservesArgv ==
    (pc = "launched" /\ ~isCustom /\ wrapper = <<>> /\ i3 /\ isTerminal)
        => Delivered = <<Exec>> \o argv

\* --wrapper: the wrapper program is run with the command string as its
\* one last argument, unchanged, for a desktop application or a custom
\* command, so that the wrapper runs the command execute_app was given.
WrapperGetsCommand ==
    (pc = "launched" /\ wrapper # <<>> /\ ~(i3 /\ isTerminal))
        => Delivered = (IF isCustom THEN <<>> ELSE <<Exec>>)
                       \o ShellWords(wrapper) \o <<appCommand>>
=============================================================================

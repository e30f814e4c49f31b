# TLA+ models of j4-dmenu-desktop

This directory holds TLA+ models of the code under `src/src/`. It covers the
daemon's event loop and menu dispatcher in `main.cc`, and the command-line
quoting and Exec-key grammar in `CMDLineAssembler.cc` and `ParsingQuirks.hh`.
Each model is checked with TLC against the behaviour that
`spec.md` describes. `PROJECT.json` lists three things for each model:

- which source lines every definition translates;
- the runs and their expected outcome;
- the hazards of the code, with the properties that cover them.

## The system and how its parts interact

j4-dmenu-desktop collects desktop files from the XDG data directories.
Directories earlier in `$XDG_DATA_DIRS` shadow later ones with the same
desktop-file ID. The program then does three things:

1. It shows the display names of the applications in a menu program (dmenu).
2. It resolves the answer to an application plus extra arguments, or to a custom command.
3. It runs the result.

There are two modes.

- **One-shot.** `main` shows the menu once, launches the result and exits.
- **Daemon** (`--wait-on FIFO`). `do_wait_on` polls two sources:
  - a FIFO, where each byte asks for a menu session and `q` quits;
  - a file-system watcher, whose pending changes it applies to the
    `AppManager` catalog with `add` and `remove`.

  Every menu session runs `do_dmenu`, then `lookup_name`, and, if a usage log is
  configured, the history increment. It then forks a child that runs the
  command. The history puts frequently used names first.

An application's `Exec` key is split into an argv by
`convert_exec_to_command`, after `validate_exec_key` has checked it. The argv
goes back to a shell string through `convert_argv_to_string`, which uses
`sq_quote` on each argument.

Several collaborators are not under `src/`:

- `AppManager`, `HistoryManager`, the change watchers, the desktop-entry parser,
  `Dmenu` and `i3_exec`.
- Where the loop calls one of them (`AppManager::add`/`remove`,
  `HistoryManager::increment`), the model follows section 4 of `spec.md`. Those
  definitions are marked `spec_modelled` in the map.

## Modules

| module | models | source |
|---|---|---|
| `Menu` | the comparator (`DynamicCompare`, case-sensitive or folding to lower case), `do_dmenu`'s line order, `lookup_name`, and `HistoryManager::increment` from spec 4.7 | main.cc 151-228 |
| `DesktopCatalog` | desktop files per root and identity, the catalog's ingest/add/remove from spec 4.6, `format_name_app_mapping`, and the drain of pending changes | main.cc 111-143, 316-332 |
| `Daemon` | `do_wait_on` as a state machine, composed with `DesktopCatalog` and `Menu`, plus an environment of file writes and FIFO clients | main.cc 286-388, 598-673 |
| `SqQuote` | `sq_quote` step by step with size_t positions | CMDLineAssembler.cc 31-66 |
| `CMDLineAssembly` | `sq_quote` as a recursive operator, and `convert_argv_to_string` | CMDLineAssembler.cc 31-66, 218-227 |
| `ExecKey` | `validate_exec_key` (recursive) and `convert_exec_to_command` (one step per character) under both quirks | CMDLineAssembler.cc 68-212, ParsingQuirks.hh |
| `CommandLine` | `execute_app`: wrapper, `exec` prefix, execl / execlp through the terminal / i3 IPC, and the words the last shell runs | main.cc 239-284 |
| `CatalogService` | abstract specification of the catalog the daemon maintains, implemented by `Daemon` | (abstract, spec 8.5) |
| `ShellSyntax` | a reference definition of how a POSIX shell splits a string into words: quotes, escapes, `$name` and backquote expansions | (reference, no source) |

The MC modules (`MC_Daemon`, `MC_SqQuote`, `MC_ExecKey`, `MC_CommandLine`) give the constants
that a `.cfg` file cannot write. Examples are character sets that contain a
backslash, and the identity permutations used for symmetry.

### Daemon

**State.** The variables fall into two groups.

- The environment:
  - `disk`: the file per root and identity;
  - `changes`: the watcher's pending events;
  - `fifo`: unread bytes;
  - `fsOps` and `requests`: how many file operations and FIFO bytes there
    have been. With `Sustained = FALSE` they are bounded by `MaxFsOps` and
    `MaxRequests`. With `Sustained = TRUE` the environment may act for ever,
    and the same constants bound only the events pending in the watcher and
    the unread bytes in the FIFO (`FsRoom`, `FifoRoom`).
- The daemon:
  - `cat`: the sources per identity, with an allocation tag, so that a freed
    `Application` can be told apart from a live one. A new object takes a tag
    no object in use holds (`NewAlloc`): not one the catalog owns, and not
    one the mapping still points to (`Pinned`). Tags are reused, as an
    allocator reuses memory, which keeps them bounded under sustained traffic;
  - `mapping`: the name → application map built once in `main`;
  - `hist`;
  - `pc`: setup, poll, ready sources, menu, fork, quit or failed;
  - `shown`: the lines of the current menu;
  - `chosen`: the lookup result;
  - the four flags `usageLog`, `noExec`, `waitOn` and `caseInsensitive`.

**Actions.** Each action is one path through the loop body. The early exits are
part of the path:

- `StartWatcher` is the end of `main`'s set-up in daemon mode: it creates
  `NotifyInotify` on the search path and enters `do_wait_on`, whose SIGCHLD
  handler and FIFO are made before the loop (main.cc 665-673). Until then
  (`pc = "setup"`) there is no watcher, so a file change in that window, which
  the constant `SetupWrites` allows, changes the disk and queues nothing.
- `Poll` is `poll()`. It starts a new iteration of the loop, so the last
  session's locals (`shown`, `chosen`) are dropped (`EndSession`).
- For the change watcher:
  - `DrainChanges` applies the whole queue of pending changes, as the for loop
    over `getchanges()` does;
  - `SkipChanges` covers the case where the watcher is not readable.
- For the FIFO, the byte read goes to one of three actions:
  - `ReadQuit` for `q`;
  - `ReadRequest`, which covers `dmenu.run` and `do_dmenu`;
  - `SkipFifo` when nothing is readable.
- The user's answer goes to one of three actions:
  - `Cancel`;
  - `SelectNoExec`, the `--no-exec` print;
  - `SelectLaunch`, which covers the lookup, the history increment and the
    fork, ending in either `ForkChild` or `ForkFails`.

**One-shot mode.** `waitOn = FALSE` is `main`'s one-shot path (main.cc
674-720). `OneShotMenu` runs `do_dmenu` once. The answer actions are shared
with the daemon. `AfterSession` makes cancel and `--no-exec` end in `exit(0)`,
and a launch ends in `execute_app`, which `CommandLine` models. Nothing watches
the files in this mode, so the environment acts only in daemon mode.

**Init.** `Init` is what `main` builds before it creates the watcher
(main.cc 598-664):
- the catalog ingested from the disk;
- any first-wins name mapping of it under the comparator;
- the usage log as loaded from its file. An earlier run may have written it,
  possibly with other options, so it is one of the `Histories` constant.

**Comparator.** With `--case-insensitive`, names are compared after folding to
lower case. The mapping keeps one key per folded name. `do_dmenu` writes a
history line when `erase` with the map's comparator accepts it, in the
history's own spelling. `lookup_name`'s `find` also uses the comparator. The
`startswith` prefix test stays byte-wise. The user may type a shown name in
lower case; the default `dmenu -i` matches without case.

**Refinement.** `Daemon` defines `Service == INSTANCE CatalogService WITH
view <- Contents(cat)`, and `CatalogRefinement == Service!Spec`.
`CatalogService` has three variables: the disk, the queue of changes, and the
catalog `view`. In one step, a file is written or deleted and the change is
queued. In another, the queue is emptied and the view becomes a fresh ingest of
the disk. The environment's `FsWrite`/`FsDelete` map to the first.
`DrainChanges` maps to the second. Every other daemon step leaves all three
unchanged. So the catalog never changes at any other time, and a drain that
reads files changed since their events were queued still lands on the fresh
ingest.

### CommandLine

The inputs are chosen by `Init`:

- an argv, and whether the application is a terminal application;
- a custom query instead of an argv;
- the wrapper, and whether i3 IPC is used.

The command string of a desktop application is `application_command`. That
function (ApplicationRunner) is not under `src/`, so its result is taken from
the specification: `convert_argv_to_string` of the expanded argv.

Each block of `execute_app` is one action:

- `WrapCommand` puts the command behind the wrapper.
- `PrefixExec` adds the `exec ` prefix.
- `ExecTerminal`, `I3Terminal`, `ExecShell` and `I3Shell` are the four launch
  branches.

`Delivered` computes what finally runs, by passing the launched argv or the i3
message through `ShellSyntax`:

- i3 runs its message as a command line;
- `terminal -e prog args` runs prog;
- `shell -c C` runs the words of C.

### ExecKey

- The loop's variables are state: `curr`, `result`, `in_quotes`, `escaping`
  and the index.
- Each branch of the loop body is one action: a case of the escaping switch,
  one of the quoted branches, or one of the unquoted branches.
- A thrown `invalid_Exec` ends the run in status `error`. `Finish` is the code
  after the loop.
- `Tokenize` is a reference definition, not a model of the code: the
  tokenizer that specification 4.3 describes (quotes group, a backslash
  escapes only inside quotes or under the Wine quirk, blanks separate, empty
  tokens are dropped, an open quote or escape at the end is an error). It is
  written as a RECURSIVE operator over the key, and `ConvertMatchesSpec`
  compares the converter's result with it.

### SqQuote

- The function's three returns are `QuickReturn`, `TrailingQuote` and
  `NoMoreQuotes`.
- The loop iteration that replaces a `'` is `EscapeQuote`.
- `size()-1` is computed modulo 2^SizeWidth, so an empty view wraps to `npos`
  as it does in C++. The code only reaches that line for a non-empty view, so
  the wrap never happens there, but the model would find it if the guard went.

## Runs

| run | cfg | expect | what it shows |
|---|---|---|---|
| daemon_safety | MC_Daemon.cfg | pass | `MenuLinesOrdered`: the menu lists every mapped name exactly once, history names first in history order, the rest sorted, keys compared by the active comparator. `ShownLineLaunchesItsApp`: any line the menu shows, picked as is, launches the application the mapping holds under that key. That includes a history line spelled differently from the key. The run covers both comparators, and usage logs an earlier run may have left. |
| daemon_liveness | MC_Daemon_live.cfg | pass | The file system and the FIFO clients may act for ever (`Sustained`). `ChangesEventuallyApplied`: pending changes are applied even when clients refill the FIFO before every poll. `FifoEventuallyServed`: the converse, every FIFO byte is served even when the file system queues a new event before every poll. `CatalogRefinement`: do_wait_on implements `CatalogService`. One identity under two roots, with up to two pending events, so a shadowed source can be promoted, replaced, or rewritten again before its event is drained. |
| daemon_stale_mapping | MC_Daemon_LookupUsesLiveApp.cfg | violation | The mapping is never rebuilt, so a menu answer resolves to an application the catalog freed. |
| history_records_args | MC_Daemon_HistoryHoldsNames.cfg | violation | The history stores `name args`, not the name. |
| lookup_prefix | MC_Daemon_LookupFindsTypedName.cfg | violation | `fx a` launches the application named `f`. |
| sq_quote | MC_SqQuote.cfg | pass | `QuoteRoundTrip`: the shell reads back every quoted string, up to 6 characters over `a ' blank \ "`, as the one original word. |
| command_line | MC_CommandLine.cfg | pass | `LaunchPreservesArgv`: a desktop application without a wrapper, started by execl, through the terminal, or by i3 IPC, runs as `exec` followed by exactly its argv. This holds for every argv of up to two arguments of up to three characters over `a blank ' " $`. |
| i3_terminal_quoting | MC_CommandLine_I3Terminal.cfg | violation | With i3 IPC, a terminal application's already-quoted command is put inside `'...'` again, so an empty argument vanishes and blanks split arguments. |
| wrapper_quoting | MC_CommandLine_Wrapper.cfg | violation | With `--wrapper`, the command is put inside `"..."`, so an argument holding `"` leaves a quote unterminated and `$name` is expanded. |
| exec_key | MC_ExecKey.cfg | pass | `ValidatedNeverThrows`: validator and converter agree. `ArgvRoundTrip`: the converted argv survives joining and the shell. Every key up to 6 characters over `a blank " \ $` is checked, under all four quirk settings. |
| exec_vs_spec | MC_ExecKey_ConvertMatchesSpec.cfg | violation | `ConvertMatchesSpec`: the converter's argv, or its error, equals what the tokenizer of spec 4.3 (`Tokenize`) gives, for every key up to 4 characters. The trace is a trailing `\` under the Wine quirk, which yields `[]` instead of an error. Checked on their own, `"` (unterminated quote) also yields `[]`, and `" "` yields one empty argument where the spec collapses empty tokens. |
| daemon_startup_race | MC_Daemon_StartupRace.cfg | violation | `CatalogConverges`: eventually the catalog always equals a fresh ingest of the disk (or the daemon has stopped). A desktop file written after `main` has scanned the search path but before `NotifyInotify` exists is never reported, so the catalog stays stale for ever. |

Each violation is explained under "findings" in `PROJECT.json`. Every property
of a passing run has a mutant: a variant of one mapped definition, written the
way a plausible bug would be, under which TLC finds the property violated.

## Bounds and why they are enough

**Daemon.** The bounds are chosen so that every interesting case can happen:

- Roots `0..1` and two desktop-file identities. This is enough for one source to
  shadow another, and for a removal to promote the shadowed one.
- In the safety run, names `F` and `a`. Byte order sorts `F` first and case
  folding sorts `a` first, and `F` can be typed as `f`. The safety run also
  includes a usage log that holds `f`, as a `--case-insensitive` run records
  it. The violation and liveness runs use names `f` and `fx`, one a prefix of
  the other, with the case-sensitive comparator and an empty usage log.
- A file that does not parse is one value, `Broken`. Nothing reads its name.
- One argument string (` a`) and one custom command.
- `MaxFsOps = 1` file operation and `MaxRequests = 2` FIFO requests in total
  (`Sustained = FALSE`). With these,
  a change can arrive before, between, or during menu sessions, and a session
  can follow a change.
- Symmetry over identities, which is sound because nothing orders identities.
- Both modes (`WaitOnModes = {TRUE, FALSE}`) in the safety run; the other
  Daemon runs are about the loop and fix daemon mode.
- `SetupWrites = FALSE` everywhere except the start-up race run. With it TRUE
  every run that asserts convergence or refinement would fail on that race
  alone, and hide what else they check. The race run sets it TRUE with
  `MaxFsOps = 1`: a single write during set-up is all the trace needs.

The liveness and refinement run uses one identity, with symmetry off, since
symmetry and liveness do not mix. It sets `Sustained = TRUE`: with traffic
bounded in total, neither poll source could stay busy, and a loop that served
one source only while the other is idle would pass. Instead, up to
`MaxFsOps = 2` events may be pending and `MaxRequests = 1` byte unread, and
both refill without end. The mutants `Poll_fifoFirst` and `Poll_watcherFirst`
are such loops, and TLC finds a starving cycle for each. With one identity
under two roots, a write can shadow a source, a delete can promote it, a
rewrite can fail to parse, and a file can change again before its event is
drained. The usage log is off in this run, so the history stays bounded.

**CommandLine.** It enumerates every argv of one or two arguments of at most three
characters over `a`, blank, `'`, `"` and `$`. It covers every combination of
custom/desktop, terminal, wrapper and i3. That takes in the empty argument,
quotes at either end of an argument, and `$a`.

**SqQuote and ExecKey.** These enumerate every input up to the length bound over
an alphabet that contains every character with a role in the code: quote,
backslash, blank, `$`, and a plain character.

## Fairness

- `WF_vars(Loop)`. The daemon never blocks except in `poll`, and `poll` returns
  whenever a source is readable.
- `WF_vars(User)`. The menu program eventually returns: the user answers or
  cancels.
- The environment (file writes, FIFO clients) has no fairness.

## Not modelled

The following are not modelled:

- The SIGPIPE handler of do_dmenu (main.cc:145). Writing the names to the menu is one step in the model. A menu that exits before it has read them all would make the handler exit the whole daemon. That is listed as a hazard.
- `application_command` (field-code expansion, ApplicationRunner), which is
  not under `src/`. Because of this, the blank that `lookup_name` leaves in
  front of the arguments (main.cc:224) is recorded as a hazard without a run.
- A failing exec in the child (main.cc:282-283), which only exits the child.
- `wrap_cmdstring_in_shell`, `wrap_command_in_wrapper` and `create_argv`, which
  no code under `src/` calls.
- Command-line option parsing (main.cc 424-565). It is configuration, and the
  flags that matter are constants or initial choices of the models. Separately,
  the `-v` handling tests "--log-level was not given" by comparing the
  verbosity with its default, so `--log-level=WARNING -v` yields INFO.
- The binary-name formatters (`-b`, `-f`). They only change the text of the
  keys, which the model keeps abstract.
- Desktop-file visibility filters and the parser.
- The history file format and its atomic save.
- Watcher queue overflow.
- The `SIGCHLD` handler's race with the menu child's `waitpid`.
- Command-line parsing, which only sets the flags the Daemon model has as
  constants.

## Plan for later work

1. Desktop-file visibility (`NoDisplay`, `Hidden`, `OnlyShowIn`, `TryExec`).
   This is a filter that AppManager applies when it builds the mapping. It is
   not under `src/`, and in the daemon it matters only for the mapping built at
   start-up.
2. Option parsing (main.cc 424-565), with the `-v` / `--log-level`
   precedence as a property. The comment at main.cc:536 states it, and
   `--log-level=WARNING -v` breaks it. This would need a violation run of its
   own.

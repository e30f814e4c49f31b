------------------------------- MODULE Daemon -------------------------------
(***************************************************************************)
(* Daemon mode (--wait-on) of src/src/main.cc: do_wait_on polls the        *)
(* control FIFO and the change watcher.  Changes reported by the watcher   *)
(* are applied to the AppManager catalog; every byte read from the FIFO    *)
(* runs one menu session against the display-name mapping, which main()   *)
(* built once before entering the loop.                                    *)
(*                                                                         *)
(* Actors: the file system (other programs installing, editing and         *)
(* removing desktop files), FIFO clients, the user answering the menu,     *)
(* and the daemon itself.                                                  *)
(***************************************************************************)
EXTENDS DesktopCatalog, Menu

CONSTANTS Args,          \* what the user types after a name: a space and arguments
          Custom,        \* a line that names no application (a custom command)
          UsageLogModes, \* the values --usage-log being given can take
          NoExecModes,   \* the values --no-exec can take
          WaitOnModes,   \* the values "--wait-on given" can take
          CaseModes,     \* the values --case-insensitive can take
          Histories,     \* usage logs earlier runs may have left (sorted, counts > 0)
          SetupWrites,   \* may files change while main() sets up, before the watcher exists
          Sustained,     \* may the file system and the clients act for ever
          MaxFsOps,      \* bound on file-system writes and deletions (pending ones if Sustained)
          MaxRequests    \* bound on bytes written to the FIFO (unread ones if Sustained)

ASSUME MaxFsOps \in Nat /\ MaxRequests \in Nat /\ Sustained \in BOOLEAN

VARIABLES disk,      \* the desktop files under every search root
          fsOps,     \* file-system operations so far (bounded)
          changes,   \* the change watcher's pending events (inotify queue)
          fifo,      \* bytes written to the control FIFO, not yet read
          requests,  \* bytes written to the FIFO so far (bounded)
          cat,       \* AppManager's catalog: identity -> parsed sources
          mapping,   \* the name_map passed to do_wait_on
          hist,      \* the HistoryManager's entries
          pc,        \* where do_wait_on is
          ready,     \* revents of the last poll
          shown,     \* the lines written to the menu in this session
          chosen,    \* the user's last answer and what lookup_name made of it
          usageLog,  \* --usage-log was given
          noExec,    \* --no-exec was given
          waitOn,    \* --wait-on was given (daemon mode)
          caseInsensitive \* --case-insensitive was given

vars == <<disk, fsOps, changes, fifo, requests, cat, mapping, hist,
          pc, ready, shown, chosen, usageLog, noExec, waitOn, caseInsensitive>>
env == <<disk, fsOps, changes, fifo, requests>>
\* the daemon's variables other than pc
daemon == <<cat, mapping, hist, ready, shown, chosen, usageLog, noExec, waitOn, caseInsensitive>>

\* What the user may type: a name, in its spelling or in lower case, with
\* or without arguments, or a custom command.
Spellings(n) == {n, Folded(n, TRUE)}
Spelled == UNION {Spellings(n) : n \in Names}
Query == Spelled \cup {n \o Args : n \in Spelled} \cup {Custom}
NoChoice == [query |-> <<>>, found |-> FALSE, app |-> NoApp, args |-> <<>>]

TypeOK ==
    /\ disk \in Disk
    /\ fsOps \in 0..MaxFsOps
    /\ changes \in Seq(Change)
    /\ fifo \in Seq({"q", "x"})
    /\ requests \in 0..MaxRequests
    /\ DOMAIN cat = Ids /\ \A i \in Ids : cat[i] \subseteq App
    /\ DOMAIN mapping \subseteq Names /\ \A n \in DOMAIN mapping : mapping[n] \in App
    /\ hist \in Seq(HistEntry(Query))
    /\ pc \in {"setup", "start", "poll", "changes", "fifo", "menu", "fork", "launched", "quit", "failed"}
    /\ ready \in [changes : BOOLEAN, fifo : BOOLEAN]
    /\ shown \in Seq(Spelled)
    /\ chosen \in [query : Query \cup {<<>>}, found : BOOLEAN, app : App \cup {NoApp},
                   args : Seq(Range(Alphabet))]
    /\ usageLog \in BOOLEAN /\ noExec \in BOOLEAN /\ waitOn \in BOOLEAN
    /\ caseInsensitive \in BOOLEAN

\* main(): collect_files, AppManager, the HistoryManager's load of the
\* usage log (empty without one) and format_name_app_mapping; in daemon
\* mode the change watcher is still to be created, in one-shot mode the
\* single menu session is still to come.
Init ==
    /\ disk \in Disk
    /\ fsOps = 0 /\ changes = <<>> /\ fifo = <<>> /\ requests = 0
    /\ cat = Ingest(disk)
    /\ caseInsensitive \in CaseModes
    /\ mapping \in NameMappings(cat, [n \in Names |-> Folded(n, caseInsensitive)])
    /\ waitOn \in WaitOnModes
    /\ pc = IF waitOn THEN "setup" ELSE "start"
    /\ ready = [changes |-> FALSE, fifo |-> FALSE]
    /\ shown = <<>>
    /\ chosen = NoChoice
    /\ usageLog \in UsageLogModes
    /\ hist \in IF usageLog THEN Histories ELSE {<<>>}
    /\ noExec \in NoExecModes

-----------------------------------------------------------------------------
(* The environment.  In one-shot mode nothing looks at the files again    *)
(* once they are read and there is no FIFO, so only daemon mode has one.   *)
(* A file changed before the watcher exists (pc = "setup") is not reported.*)

Watching == pc # "setup"

\* The environment's bounds: in total, or, when it may act for ever, on the
\* events the watcher holds and the bytes the FIFO holds.
FsRoom == IF Sustained THEN Len(changes) < MaxFsOps ELSE fsOps < MaxFsOps
FifoRoom == IF Sustained THEN Len(fifo) < MaxRequests ELSE requests < MaxRequests
Counted(n) == IF Sustained THEN n ELSE n + 1

\* A desktop file is created or rewritten; the watcher queues "modified".
FsWrite(r, i, c) ==
    /\ waitOn /\ FsRoom /\ (Watching \/ SetupWrites)
    /\ disk' = [disk EXCEPT ![r][i] = c]
    /\ changes' = IF Watching THEN Append(changes, [id |-> i, rank |-> r, kind |-> "modified"])
                  ELSE changes
    /\ fsOps' = Counted(fsOps)
    /\ UNCHANGED <<fifo, requests, pc, daemon>>

\* A desktop file is deleted; the watcher queues "deleted".
FsDelete(r, i) ==
    /\ waitOn /\ FsRoom /\ (Watching \/ SetupWrites)
    /\ disk[r][i] # NoFile
    /\ disk' = [disk EXCEPT ![r][i] = NoFile]
    /\ changes' = IF Watching THEN Append(changes, [id |-> i, rank |-> r, kind |-> "deleted"])
                  ELSE changes
    /\ fsOps' = Counted(fsOps)
    /\ UNCHANGED <<fifo, requests, pc, daemon>>

\* A client writes one byte to the FIFO: "q" to quit, anything else to
\* ask for a menu.
ClientWrite(b) ==
    /\ waitOn /\ Watching /\ FifoRoom
    /\ fifo' = Append(fifo, b)
    /\ requests' = Counted(requests)
    /\ UNCHANGED <<disk, fsOps, changes, pc, daemon>>

-----------------------------------------------------------------------------
(* do_wait_on.                                                             *)

\* main() creates the change watcher (NotifyInotify on the search path) and
\* calls do_wait_on, which installs the SIGCHLD handler and creates and
\* opens the FIFO before its loop.
StartWatcher ==
    /\ pc = "setup"
    /\ pc' = "poll"
    /\ UNCHANGED <<env, daemon>>

\* The loop body's locals (the lines sent to the menu, the answer and its
\* lookup) end with the iteration; a new one starts without them.
EndSession == shown' = <<>> /\ chosen' = NoChoice

\* Fault variant: the watcher's branch taken only in the "else" of the
\* FIFO's, so its events wait while the FIFO has bytes.
Poll_fifoFirst ==
    /\ pc = "poll"
    /\ changes # <<>> \/ fifo # <<>>
    /\ ready' = [changes |-> changes # <<>> /\ fifo = <<>>, fifo |-> fifo # <<>>]
    /\ pc' = "changes"
    /\ EndSession
    /\ UNCHANGED <<env, cat, mapping, hist, usageLog, noExec, waitOn, caseInsensitive>>

\* Fault variant: the FIFO's branch taken only in the "else" of the
\* watcher's, so requests wait while file events keep arriving.
Poll_watcherFirst ==
    /\ pc = "poll"
    /\ changes # <<>> \/ fifo # <<>>
    /\ ready' = [changes |-> changes # <<>>, fifo |-> fifo # <<>> /\ changes = <<>>]
    /\ pc' = "changes"
    /\ EndSession
    /\ UNCHANGED <<env, cat, mapping, hist, usageLog, noExec, waitOn, caseInsensitive>>

\* poll() on the FIFO and the watcher returns when either is readable.
Poll ==
    /\ pc = "poll"
    /\ changes # <<>> \/ fifo # <<>>
    /\ ready' = [changes |-> changes # <<>>, fifo |-> fifo # <<>>]
    /\ pc' = "changes"
    /\ EndSession
    /\ UNCHANGED <<env, cat, mapping, hist, usageLog, noExec, waitOn, caseInsensitive>>

\* The Application objects the name mapping points to.
Pinned == {mapping[n].alloc : n \in DOMAIN mapping}

\* The watcher was readable: getchanges() drains every pending event and
\* each is applied to the catalog, modified by add, deleted by remove.
DrainChanges ==
    /\ pc = "changes" /\ ready.changes
    /\ cat' = ApplyChanges(disk, Pinned, cat, changes)
    /\ changes' = <<>>
    /\ pc' = "fifo"
    /\ UNCHANGED <<disk, fsOps, fifo, requests, mapping, hist, ready, shown,
                   chosen, usageLog, noExec, waitOn, caseInsensitive>>

SkipChanges ==
    /\ pc = "changes" /\ ~ready.changes
    /\ pc' = "fifo"
    /\ UNCHANGED <<env, cat, mapping, hist, ready, shown, chosen, usageLog, noExec, waitOn, caseInsensitive>>

\* The FIFO was readable and the byte is "q": do_wait_on returns 0.
ReadQuit ==
    /\ pc = "fifo" /\ ready.fifo
    /\ Head(fifo) = "q"
    /\ fifo' = Tail(fifo)
    /\ pc' = "quit"
    /\ UNCHANGED <<disk, fsOps, changes, requests, daemon>>

\* The FIFO was readable with another byte: dmenu.run() and do_dmenu write
\* the mapping, history first, to the menu program, which then blocks.
ReadRequest ==
    /\ pc = "fifo" /\ ready.fifo
    /\ Head(fifo) # "q"
    /\ fifo' = Tail(fifo)
    /\ shown' = MenuLines(mapping, hist, usageLog, caseInsensitive)
    /\ pc' = "menu"
    /\ UNCHANGED <<disk, fsOps, changes, requests, cat, mapping, hist,
                   ready, chosen, usageLog, noExec, waitOn, caseInsensitive>>

SkipFifo ==
    /\ pc = "fifo" /\ ~ready.fifo
    /\ pc' = "poll"
    /\ UNCHANGED <<env, daemon>>

\* One-shot mode: main() runs do_dmenu once, with the menu program it
\* started before loading the catalog.
OneShotMenu ==
    /\ pc = "start"
    /\ shown' = MenuLines(mapping, hist, usageLog, caseInsensitive)
    /\ pc' = "menu"
    /\ UNCHANGED <<env, cat, mapping, hist, ready, chosen, usageLog, noExec, waitOn, caseInsensitive>>

\* After the session the daemon polls again; main() in one-shot mode exits.
AfterSession == IF waitOn THEN "poll" ELSE "quit"

\* The user closes the menu: do_dmenu returns no choice (continue, or
\* exit(0) in one-shot mode).
Cancel ==
    /\ pc = "menu"
    /\ chosen' = NoChoice
    /\ pc' = AfterSession
    /\ UNCHANGED <<env, cat, mapping, hist, ready, shown, usageLog, noExec, waitOn, caseInsensitive>>

\* The user answers with a line; lookup_name resolves it against the
\* mapping and application_command reads the Application it points to.
Answer(q) ==
    LET res == lookup_name(q, mapping, caseInsensitive)
    IN  chosen' = [query |-> q, found |-> res.found, app |-> res.app, args |-> res.args]

\* A line of the menu (in lower case too when the menu matches without
\* case, as the default "dmenu -i" does), with or without arguments, or a
\* custom command.
Typed == LET N == UNION {IF caseInsensitive THEN Spellings(shown[j]) ELSE {shown[j]} :
                         j \in DOMAIN shown}
         IN  N \cup {n \o Args : n \in N} \cup {Custom}

\* --no-exec: the command is printed and the loop continues (one-shot:
\* exit(0)).
SelectNoExec(q) ==
    /\ pc = "menu" /\ noExec
    /\ Answer(q)
    /\ pc' = AfterSession
    /\ UNCHANGED <<env, cat, mapping, hist, ready, shown, usageLog, noExec, waitOn, caseInsensitive>>

\* Otherwise the history is incremented for a desktop application (not a
\* custom command), then the daemon forks; main() in one-shot mode calls
\* execute_app itself, which does not return.
SelectLaunch(q) ==
    /\ pc = "menu" /\ ~noExec
    /\ Answer(q)
    /\ hist' = IF usageLog /\ chosen'.found THEN increment(hist, q) ELSE hist
    /\ pc' = IF waitOn THEN "fork" ELSE "launched"
    /\ UNCHANGED <<env, cat, mapping, ready, shown, usageLog, noExec, waitOn, caseInsensitive>>

\* fork() succeeds: the child runs execute_app, the parent polls again.
ForkChild ==
    /\ pc = "fork"
    /\ pc' = "poll"
    /\ UNCHANGED <<env, daemon>>

\* fork() fails: do_wait_on returns 1.
ForkFails ==
    /\ pc = "fork"
    /\ pc' = "failed"
    /\ UNCHANGED <<env, daemon>>

-----------------------------------------------------------------------------
Environment ==
    \/ \E r \in Ranks, i \in Ids, c \in FileContent : FsWrite(r, i, c)
    \/ \E r \in Ranks, i \in Ids : FsDelete(r, i)
    \/ \E b \in {"q", "x"} : ClientWrite(b)

Loop == StartWatcher \/ OneShotMenu \/ Poll \/ DrainChanges \/ SkipChanges \/ ReadQuit \/ ReadRequest
        \/ SkipFifo \/ ForkChild \/ ForkFails

User == Cancel \/ \E q \in Typed : SelectNoExec(q) \/ SelectLaunch(q)

Next == Environment \/ Loop \/ User

\* The daemon's own steps are weakly fair; so is the user's answer, which
\* the daemon blocks on (an assumption about the user, not the code).
\* The file system and the clients need not act.
Spec == Init /\ [][Next]_vars /\ WF_vars(Loop) /\ WF_vars(User)

-----------------------------------------------------------------------------
(* Properties.                                                             *)

\* The abstract catalog service, with the catalog seen up to object identity.
Service == INSTANCE CatalogService WITH view <- Contents(cat)

\* do_wait_on implements CatalogService: the catalog never changes while a
\* file event is queued or a menu session runs, and each drain of the
\* watcher's queue, add and remove applied one event at a time against
\* the files as they are when drained, leaves exactly a fresh ingest.
CatalogRefinement == Service!Spec

\* do_dmenu's menu (specification 5): every key of the mapping is written
\* exactly once, keys being equal under the mapping's comparator; the
\* lines taken from the history come first, in history order, and the
\* rest follow in comparator order.
MenuLinesOrdered ==
    pc = "menu" =>
        LET ci         == caseInsensitive
            histPos(n) == SelectInSeq(hist, LAMBDA e : e.name = n)
            inHist(j)  == shown[j] \in HistNames(hist)
        IN  /\ IsInjective([j \in DOMAIN shown |-> Folded(shown[j], ci)])
            /\ {Folded(n, ci) : n \in Range(shown)} = {Folded(k, ci) : k \in DOMAIN mapping}
            /\ \A j, k \in DOMAIN shown : j < k =>
                  /\ inHist(k) => inHist(j) /\ histPos(shown[j]) < histPos(shown[k])
                  /\ ~inHist(j) => KeyLess(shown[j], shown[k], ci)

\* A line the menu showed, picked as it is, launches the application the
\* mapping holds under that key, although a line from the history block is
\* the history's spelling of the key, not necessarily the mapping's.
ShownLineLaunchesItsApp ==
    [][pc = "menu" /\ pc' # "menu" /\ chosen'.query \in Range(shown) =>
         /\ chosen'.found
         /\ \E k \in DOMAIN mapping : SameKey(k, chosen'.query, caseInsensitive)
                                     /\ chosen'.app = mapping[k]]_vars

\* Every change the watcher reports is eventually applied to the catalog,
\* even while clients keep the FIFO readable at every poll (each session
\* blocking the loop until the user answers), unless the daemon has stopped.
ChangesEventuallyApplied ==
    changes # <<>> ~> (changes = <<>> \/ pc \in {"quit", "failed"})

\* Specification 8.5 over time: once the files stop changing, the catalog
\* comes to equal a fresh ingest of the disk and stays so, unless the
\* daemon has stopped; whatever happened to the files while main() was
\* still setting up.
CatalogConverges ==
    <>[](Contents(cat) = Contents(Ingest(disk)) \/ pc \in {"quit", "failed"})

\* Specification 5, the other direction: every byte written to the FIFO
\* is eventually read and served, even while the file system keeps the
\* watcher readable at every poll, unless the daemon has stopped.
FifoEventuallyServed ==
    fifo # <<>> ~> (fifo = <<>> \/ pc \in {"quit", "failed"})

\* The Application that lookup_name returns for the user's answer is still
\* owned by the catalog when application_command reads it.
LookupUsesLiveApp ==
    [][pc = "menu" /\ pc' # "menu" /\ chosen'.found => chosen'.app \in Live(cat)]_vars

\* The history records display names (specification 3): every entry it
\* holds is a name the menu offers.
HistoryHoldsNames ==
    \A j \in DOMAIN hist : hist[j].name \in DOMAIN mapping

\* lookup_name (specification 4.9): a line "<name> <args>" typed for a name
\* of the mapping launches that name's application.
LookupFindsTypedName ==
    \A n \in DOMAIN mapping :
        chosen.query = n \o Args => chosen.app = mapping[n]
=============================================================================

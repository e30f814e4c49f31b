--------------------------- MODULE DesktopCatalog ---------------------------
(***************************************************************************)
(* The application catalog (AppManager) and the files it is built from.    *)
(*                                                                         *)
(* The search roots are identified by their rank (lower rank wins), the    *)
(* desktop files by their relative identity.  A file on disk is absent,    *)
(* or parses and has a display name, or does not parse (missing Name or    *)
(* Exec, Type other than Application, invalid Exec).  AppManager is not    *)
(* part of src/: its constructor, add and remove are modelled from section *)
(* 4.6 of the specification.  Per identity the catalog keeps every parsed  *)
(* source; the one of least rank is the winner.  Each parse allocates a    *)
(* new Application object; "alloc" is its address, so that an object freed *)
(* by add or remove can be told apart from its replacement.  An address is *)
(* reused once no object in use holds it, as an allocator reuses memory.   *)
(***************************************************************************)
EXTENDS Naturals, FiniteSets, SequencesExt

CONSTANTS Ranks,    \* ranks of the search roots, e.g. 0..1
          Ids,      \* relative identities of desktop files
          Names     \* display names

NoFile == [present |-> FALSE]   \* no file at that path
\* A file the parser rejects; nothing reads its name, so it has none here.
Broken == [present |-> TRUE, ok |-> FALSE]
FileContent == [name : Names, ok : {TRUE}] \cup {Broken}
Disk == [Ranks -> [Ids -> FileContent \cup {NoFile}]]

App == [id : Ids, rank : Ranks, name : Names, alloc : Nat]

Parses(disk, r, i) == disk[r][i] \notin {NoFile, Broken}

\* The Application the parser makes of file i under root r.
MakeApp(disk, r, i, a) ==
    [id |-> i, rank |-> r, name |-> disk[r][i].name, alloc |-> a]

WithoutRank(srcs, r) == {a \in srcs : a.rank # r}

\* AppManager's constructor: every file of every root that parses.
Ingest(disk) ==
    [i \in Ids |-> {MakeApp(disk, r, i, 0) : r \in {q \in Ranks : Parses(disk, q, i)}}]

\* Fault variant: a failed re-parse leaves the root's old source in place.
add_keepOnFail(cat, disk, i, r, a) ==
    IF Parses(disk, r, i)
    THEN [cat EXCEPT ![i] = WithoutRank(@, r) \cup {MakeApp(disk, r, i, a)}]
    ELSE cat

\* AppManager::add(id, root, rank): re-parse the file; its Application
\* replaces the one that root contributed, a failed parse drops it.
add(cat, disk, i, r, a) ==
    [cat EXCEPT ![i] = WithoutRank(@, r) \cup
                       (IF Parses(disk, r, i) THEN {MakeApp(disk, r, i, a)} ELSE {})]

\* AppManager::remove(id, root): forget what that root contributed; the
\* source of next lowest rank, if any, becomes the winner.
remove(cat, i, r) == [cat EXCEPT ![i] = WithoutRank(@, r)]

Winner(srcs) == CHOOSE a \in srcs : \A b \in srcs : a.rank <= b.rank

Winners(cat) == {Winner(cat[i]) : i \in {j \in Ids : cat[j] # {}}}

\* The live Application objects.
Live(cat) == UNION {cat[i] : i \in Ids}

\* The catalog up to object addresses.
Contents(cat) == [i \in Ids |-> {[id |-> a.id, rank |-> a.rank, name |-> a.name] : a \in cat[i]}]

(***************************************************************************)
(* AppManager::view_name_app_mapping followed by format_name_app_mapping   *)
(* with the default formatter: each winner is try_emplace'd under its name *)
(* into a map whose comparator holds two names equal when "fold" maps them *)
(* to the same value.  Of winners whose names are the same key the first   *)
(* inserted stays, with its own spelling of the key; which one is first is *)
(* not fixed by the code we have, so any is possible.                      *)
(***************************************************************************)
NameMappings(cat, fold) ==
    LET W == Winners(cat)
        Keyed(K) == /\ \A a \in W : \E k \in K : fold[k] = fold[a.name]
                    /\ \A k, l \in K : fold[k] = fold[l] => k = l
    IN  UNION {{m \in [K -> W] : \A k \in K : m[k].name = k} :
               K \in {K \in SUBSET {a.name : a \in W} : Keyed(K)}}

(***************************************************************************)
(* The change watcher reports a file as modified or deleted, with the      *)
(* rank of its root.  do_wait_on applies each change in order: modified    *)
(* calls add, deleted calls remove.  "pinned" are the addresses of objects *)
(* that others still point to (the name mapping's), freed or not.          *)
(***************************************************************************)
Change == [id : Ids, rank : Ranks, kind : {"modified", "deleted"}]

\* The address of a new Application: one no object in use holds.  There are
\* at most |Live(cat)| + |pinned| such, so one of 0..that is free.
NewAlloc(cat, pinned) ==
    LET used == {a.alloc : a \in Live(cat)} \cup pinned
    IN  CHOOSE t \in 0..Cardinality(used) : t \notin used

ApplyChange(disk, pinned, cat, ch) ==
    IF ch.kind = "modified"
    THEN add(cat, disk, ch.id, ch.rank, NewAlloc(cat, pinned))
    ELSE remove(cat, ch.id, ch.rank)

ApplyChanges(disk, pinned, cat, changes) ==
    FoldLeft(LAMBDA c, ch : ApplyChange(disk, pinned, c, ch), cat, changes)
=============================================================================

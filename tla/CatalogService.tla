---------------------------- MODULE CatalogService ----------------------------
(***************************************************************************)
(* What the daemon promises about its catalog, without the watcher's       *)
(* events being applied one by one: the files on disk change and each      *)
(* change is queued; the catalog stays as it is until the queue is         *)
(* emptied, and then becomes, in one step, exactly what a fresh ingest of  *)
(* the files on disk yields (specification 8.5, incremental = batch).      *)
(* Daemon.tla is shown to implement this specification.                    *)
(***************************************************************************)
EXTENDS DesktopCatalog

VARIABLES disk,     \* the desktop files under every search root
          changes,  \* changes reported and not yet applied
          view      \* the catalog, up to object identity

vars == <<disk, changes, view>>

Fresh(d) == Contents(Ingest(d))

Init ==
    /\ disk \in Disk
    /\ changes = <<>>
    /\ view = Fresh(disk)

\* A file is written or deleted; the change is queued, the catalog stays.
Touch(r, i, c, kind) ==
    /\ disk' = [disk EXCEPT ![r][i] = c]
    /\ changes' = Append(changes, [id |-> i, rank |-> r, kind |-> kind])
    /\ UNCHANGED view

\* The queue is emptied and the catalog refreshed from the disk as it is now.
Refresh ==
    /\ changes # <<>>
    /\ view' = Fresh(disk)
    /\ changes' = <<>>
    /\ UNCHANGED disk

Next ==
    \/ \E r \in Ranks, i \in Ids, c \in FileContent : Touch(r, i, c, "modified")
    \/ \E r \in Ranks, i \in Ids : disk[r][i] # NoFile /\ Touch(r, i, NoFile, "deleted")
    \/ Refresh

Spec == Init /\ [][Next]_vars
=============================================================================

---------------------------- MODULE FileCommands ----------------------------
(***************************************************************************)
(* The handlers of the catalog writer for one file                         *)
(* (tagsyd/src/catalog: files.rs, content.rs, mod.rs), as functions from   *)
(* what the catalog holds to what it holds afterwards and what the handler *)
(* emits.  The writer is the only writer of the catalog and handles one    *)
(* command at a time, so a handler is one step.                            *)
(***************************************************************************)
EXTENDS CatalogFile

\* The changes that travel between peers, without the file id.
Added(path, pathAt, hash, at) ==
    [kind |-> "FileMetadataAdded", path |-> path, pathAt |-> pathAt,
     hash |-> hash, at |-> at]
Changed(hash, at)  == [kind |-> "FileMetadataChanged", hash |-> hash, at |-> at]
Moved(path, at)    == [kind |-> "FileMoved", path |-> path, at |-> at]
Deleted(at)        == [kind |-> "FileDeleted", at |-> at]
Restored(hash, at) == [kind |-> "FileRestored", hash |-> hash, at |-> at]
Purged             == [kind |-> "FilePurged"]

(***************************************************************************)
(* What a handler leaves behind: file, the new catalog facts; announce,    *)
(* the changes it forwards to every connected peer but the origin (at most *)
(* one); pull, the placement of the bytes it asks for ("Create", "Change") *)
(* or "none"; place, the command it sends to the sync directories.         *)
(***************************************************************************)
Outcome(f, announce, pull, place) ==
    [file |-> f, announce |-> announce, pull |-> pull, place |-> place]

Dropped(f) == Outcome(f, {}, "none", "none")

Relayed(f, c) == Outcome(f, {c}, "none", "none")

\* Seeded mistake: a version is appended whatever its stamp.
SupersedesLatestAlways(f, at) == TRUE

\* A version that is not newer than the latest one must not be appended.
SupersedesLatest(f, at) == f.log = <<>> \/ at > LatestAt(f)

\* The same bytes again move nothing, unless they revive a deleted file.
VersionNeedsTransfer(f, hash) == ~HasLatest(f, hash) \/ (f.known /\ f.deleted)

\* The placement a pull is asked for with: the bytes must be needed, and a
\* "Change" finds no directory to go to unless the file is live.
PullIfWanted(needed, f, placement) ==
    IF needed /\ (placement = "Create" \/ Live(f)) THEN placement ELSE "none"

\* Recording a version also revives the file when the version is newer than
\* the delete.
AppendVersion(f, hash, at) == RestoreFile(RecordVersion(f, hash, at))

-----------------------------------------------------------------------------
(***************************************************************************)
(* Changes, from a peer or made through the API on this device.            *)
(***************************************************************************)
ApplyAdded(f, c) ==
    IF f.known /\ ~SupersedesLatest(f, c.at)
    THEN Relayed(f, c)
    ELSE LET row == IF f.known THEN f ELSE AddFile(f, c.path, c.pathAt)
             new == AppendVersion(row, c.hash, c.at)
         IN  Outcome(new, {c},
                     PullIfWanted(VersionNeedsTransfer(row, c.hash), new, "Create"),
                     "none")

\* Recorded whether or not the file has a row.
ApplyChanged(f, c) ==
    IF ~SupersedesLatest(f, c.at)
    THEN Relayed(f, c)
    ELSE LET new == AppendVersion(f, c.hash, c.at)
         IN  Outcome(new, {c},
                     PullIfWanted(VersionNeedsTransfer(f, c.hash), new, "Change"),
                     "none")

ApplyMoved(f, c) ==
    IF MoveWins(f, c.at)
    THEN Outcome(UpdatePath(f, c.path, c.at), {c}, "none", "Move")
    ELSE Dropped(f)

\* A delete of an unknown file cannot be stored; one of a deleted file and
\* one that lost are not passed on.
ApplyDeleted(f, c) ==
    IF ~f.deleted /\ DeleteWins(f, c.at)
    THEN Outcome(RemoveFile(f, c.at), {c}, "none", "Remove")
    ELSE Dropped(f)

\* Passed on even when it lost or changed nothing.
ApplyRestored(f, c) ==
    IF HasLatest(f, c.hash) /\ Live(f)
    THEN Relayed(f, c)
    ELSE LET new == ApplyRestore(f, c.at)
         IN  Outcome(new, {c},
                     PullIfWanted(RestoreWins(f, c.at), new, "Change"), "none")

\* The strip is repeated while a row lingers, otherwise a second purge is
\* dropped.
ApplyPurged(f, c) ==
    IF f.purged /\ ~f.known
    THEN Dropped(f)
    ELSE Outcome(StripPurged(RecordPurge(f)), {c}, "none", "Remove")

\* A purged id takes no other change.
ApplyChange(f, c) ==
    IF f.purged /\ c.kind # "FilePurged"
    THEN Dropped(f)
    ELSE CASE c.kind = "FileMetadataAdded"   -> ApplyAdded(f, c)
           [] c.kind = "FileMetadataChanged" -> ApplyChanged(f, c)
           [] c.kind = "FileMoved"           -> ApplyMoved(f, c)
           [] c.kind = "FileDeleted"         -> ApplyDeleted(f, c)
           [] c.kind = "FileRestored"        -> ApplyRestored(f, c)
           [] c.kind = "FilePurged"          -> ApplyPurged(f, c)

-----------------------------------------------------------------------------
(***************************************************************************)
(* Commands of a peer session's reconciliation (see Reconcile).            *)
(***************************************************************************)
CatalogVersion(path, pathAt, hash, at, pull) ==
    [kind |-> "CatalogFile", path |-> path, pathAt |-> pathAt,
     hash |-> hash, at |-> at, pull |-> pull]
CatalogTombstone(path, pathAt, hash, at, deletedAt, restoredAt) ==
    [kind |-> "CatalogTombstone", path |-> path, pathAt |-> pathAt,
     hash |-> hash, at |-> at, deletedAt |-> deletedAt,
     restoredAt |-> restoredAt]

\* Re-checked here, since the plan was made from a snapshot; a loser is not
\* passed on.  The bytes are asked for whenever the plan wanted them.
HandleCatalogFile(f, c) ==
    IF f.purged \/ (f.known /\ ~SupersedesLatest(f, c.at))
    THEN Dropped(f)
    ELSE LET row == IF f.known THEN f ELSE AddFile(f, c.path, c.pathAt)
             new == AppendVersion(row, c.hash, c.at)
             onward == IF f.known THEN Changed(c.hash, c.at)
                       ELSE Added(c.path, c.pathAt, c.hash, c.at)
         IN  Outcome(new, {onward},
                     PullIfWanted(c.pull # "none", new, c.pull), "none")

\* Seeded mistake: the tombstone of a purged file is created again.
HandleCatalogTombstoneUnguarded(f, c) ==
    IF f.known
    THEN Dropped(f)
    ELSE Outcome(AddTombstonedFile(f, c.path, c.pathAt, c.hash, c.at,
                                   c.deletedAt, c.restoredAt),
                 {Deleted(c.deletedAt)}, "none", "none")

HandleCatalogTombstone(f, c) ==
    IF f.purged \/ f.known
    THEN Dropped(f)
    ELSE Outcome(AddTombstonedFile(f, c.path, c.pathAt, c.hash, c.at,
                                   c.deletedAt, c.restoredAt),
                 {Deleted(c.deletedAt)}, "none", "none")

-----------------------------------------------------------------------------
(***************************************************************************)
(* Changes made on this device.                                            *)
(***************************************************************************)

\* A new file, uploaded by a client or found in a sync directory: its id is
\* minted for it, so the catalog has nothing about it.
LocalAdd(f, path, pathAt, hash, at) ==
    LET new == RecordVersion(AddFile(f, path, pathAt), hash, at)
    IN  Outcome(new, {Added(path, pathAt, hash, at)}, "Create", "none")

\* New content of an existing id, from a client or a sync directory: neither
\* the purge set nor the latest version is consulted.
LocalEdit(f, hash, at) ==
    LET new == AppendVersion(f, hash, at)
    IN  Outcome(new, {Changed(hash, at)}, PullIfWanted(TRUE, new, "Change"),
                "none")

\* The second half of a user's restore, after the probe for its bytes.
ApplyProbedRestore(f, hash, at) ==
    IF RestoreWins(f, at)
    THEN Outcome(ApplyRestore(f, at), {Restored(hash, at)}, "Change", "none")
    ELSE Dropped(ApplyRestore(f, at))
=============================================================================

---------------------------- MODULE CatalogFile ----------------------------
(***************************************************************************)
(* What one device's catalog store holds about ONE file, and the           *)
(* operations of the store on it (tagsyd/src/store: files.rs, versions.rs, *)
(* purged.rs).  Files are independent of each other in these tables, so a  *)
(* single file is enough.                                                  *)
(*                                                                         *)
(* A file carries three last-writer-wins clocks: the stamp of its latest   *)
(* version, the stamp of its last delete and the stamp of its last         *)
(* explicit restore; and a fourth one, independent, for its path.  Stamps  *)
(* are wall-clock milliseconds of the device that made the change: natural *)
(* numbers here, 0 meaning "never".                                        *)
(***************************************************************************)
EXTENDS Integers, Sequences

CONSTANTS
    Path,      \* logical paths
    NoPath,    \* the path of a file without a row
    Content    \* contents, by their hash

ASSUME PathAssumption == NoPath \notin Path

Version == [hash : Content, at : Nat]

(***************************************************************************)
(* known, path, pathAt, deleted, deletedAt, restoredAt: the files_v2 row;  *)
(* log: the file_versions_v1 rows in the order of version_number, which is *)
(* the order of arrival; purged: the id is in purged_files_v1.  A version  *)
(* log without a row ("orphaned versions") is possible.                    *)
(***************************************************************************)
File == [known : BOOLEAN, path : Path \cup {NoPath}, pathAt : Nat,
         deleted : BOOLEAN, deletedAt : Nat, restoredAt : Nat,
         log : Seq(Version), purged : BOOLEAN]

Unknown == [known |-> FALSE, path |-> NoPath, pathAt |-> 0,
            deleted |-> FALSE, deletedAt |-> 0, restoredAt |-> 0,
            log |-> <<>>, purged |-> FALSE]

Latest(f) == f.log[Len(f.log)]

LatestAt(f) == IF f.log = <<>> THEN 0 ELSE Latest(f).at

HasLatest(f, hash) == f.log # <<>> /\ Latest(f).hash = hash

Later(s, t) == IF s > t THEN s ELSE t

\* The newest of the two clocks that keep a file alive.
AliveAt(f) == Later(LatestAt(f), f.restoredAt)

-----------------------------------------------------------------------------
\* versions.rs: the version log is append-only.
RecordVersion(f, hash, at) ==
    [f EXCEPT !.log = Append(@, [hash |-> hash, at |-> at])]

\* A new row is live and never deleted or restored; versions that were
\* recorded before the row existed stay in the log.
AddFile(f, path, pathAt) ==
    [f EXCEPT !.known = TRUE, !.path = path, !.pathAt = pathAt,
              !.deleted = FALSE, !.deletedAt = 0, !.restoredAt = 0]

\* A tombstone for a file this device never saw; a known file is untouched.
AddTombstonedFile(f, path, pathAt, hash, at, deletedAt, restoredAt) ==
    IF f.known
    THEN f
    ELSE [RecordVersion(f, hash, at) EXCEPT
              !.known = TRUE, !.path = path, !.pathAt = pathAt,
              !.deleted = TRUE, !.deletedAt = deletedAt,
              !.restoredAt = restoredAt]

\* Seeded mistake: a version as old as the delete revives the file.
RestoreFileOnTie(f) ==
    IF f.known /\ f.deleted /\ LatestAt(f) >= f.deletedAt
    THEN [f EXCEPT !.deleted = FALSE]
    ELSE f

\* Revival by a newer version: the edit half of the three-way comparison.
RestoreFile(f) ==
    IF f.known /\ f.deleted /\ LatestAt(f) > f.deletedAt
    THEN [f EXCEPT !.deleted = FALSE]
    ELSE f

\* Whether a restore stamped at leaves the file alive.
RestoreWins(f, at) ==
    f.known /\ Later(Later(f.restoredAt, at), LatestAt(f)) > f.deletedAt

ApplyRestore(f, at) ==
    IF f.known
    THEN [f EXCEPT !.restoredAt = Later(@, at),
                   !.deleted = @ /\ ~RestoreWins(f, at)]
    ELSE f

DeleteWins(f, at) == f.known /\ at > AliveAt(f)

RemoveFile(f, at) ==
    IF DeleteWins(f, at)
    THEN [f EXCEPT !.deleted = TRUE, !.deletedAt = at]
    ELSE f

\* Seeded mistake: of two moves with one stamp the one that comes last wins.
MoveWinsOnTie(f, at) == f.known /\ f.pathAt <= at

MoveWins(f, at) == f.known /\ f.pathAt < at

\* Seeded mistake: the path moves and its stamp stays.
UpdatePathUnstamped(f, path, at) ==
    IF MoveWins(f, at) THEN [f EXCEPT !.path = path] ELSE f

UpdatePath(f, path, at) ==
    IF MoveWins(f, at)
    THEN [f EXCEPT !.path = path, !.pathAt = at]
    ELSE f

\* purged.rs: the id enters the permanent set; the strip is a separate
\* transaction that removes the row and the whole version log.
RecordPurge(f) == [f EXCEPT !.purged = TRUE]

StripPurged(f) == [Unknown EXCEPT !.purged = f.purged]

\* The self-heal of every startup.
ReconcilePurged(f) == IF f.purged THEN StripPurged(f) ELSE f

-----------------------------------------------------------------------------
(***************************************************************************)
(* What the catalog promises about a row.                                  *)
(***************************************************************************)

\* What readers see of the file (WHERE deleted = 0).
Live(f) == f.known /\ ~f.deleted

\* `deleted` caches the three-way comparison of the clocks (types.rs).
FlagAgrees(f) == f.known => (f.deleted <=> AliveAt(f) <= f.deletedAt)

\* A row has a version, and versions have a row.
RowHasVersions(f) == f.known <=> f.log # <<>>
=============================================================================

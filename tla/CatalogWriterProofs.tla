------------------------ MODULE CatalogWriterProofs ------------------------
(***************************************************************************)
(* What holds of the catalog writer for any contents, paths, stamps and    *)
(* length of the version log.                                              *)
(***************************************************************************)
EXTENDS CatalogWriter, TLAPS

\* A stamp is never 0 ("never").
Stamped(f) == f.log # <<>> => LatestAt(f) > 0

\* What every step keeps of a row, whatever is wrong with its clocks.
Healthy(f) == /\ f \in File
              /\ f.purged => ~f.known
              /\ Stamped(f)

DecidedAt(f) == Later(AliveAt(f), f.deletedAt)

(***************************************************************************)
(* What a step does to a row with sound clocks: nothing known of it before *)
(* and after; it appears; a newer stamp confirms it or moves it; or a      *)
(* newer stamp turns a live row into a deleted one or back.                *)
(***************************************************************************)
StaysUnknown(f, g) == ~f.known /\ ~g.known /\ g.path = f.path /\ g.pathAt = f.pathAt

Appears(f, g) == ~f.known /\ g.known /\ DecidedAt(g) > 0

Confirmed(f, g) == /\ f.known /\ g.known
                   /\ g.deleted = f.deleted
                   /\ DecidedAt(g) >= DecidedAt(f)
                   /\ g.pathAt = f.pathAt => g.path = f.path
                   /\ g.pathAt >= f.pathAt

Overturned(f, g) == /\ f.known /\ g.known
                    /\ g.deleted # f.deleted
                    /\ DecidedAt(g) > DecidedAt(f)
                    /\ g.path = f.path /\ g.pathAt = f.pathAt

Evolves(f, g) ==
    /\ Healthy(g)
    /\ f.purged => g.purged
    /\ f.known /\ g.known => LatestAt(g) >= LatestAt(f)
    /\ FlagAgrees(f) =>
           /\ FlagAgrees(g)
           /\ \/ g.purged
              \/ StaysUnknown(f, g)
              \/ Appears(f, g)
              \/ Confirmed(f, g)
              \/ Overturned(f, g)

-----------------------------------------------------------------------------
(***************************************************************************)
(* The operations of the store.                                            *)
(***************************************************************************)

\* The clocks of a row are natural numbers.
LEMMA Clocks ==
    ASSUME NEW f \in File
    PROVE  /\ LatestAt(f) \in Nat /\ AliveAt(f) \in Nat /\ DecidedAt(f) \in Nat
           /\ AliveAt(f) >= LatestAt(f) /\ AliveAt(f) >= f.restoredAt
           /\ AliveAt(f) \in {LatestAt(f), f.restoredAt}
           /\ f.deletedAt \in Nat /\ f.restoredAt \in Nat /\ f.pathAt \in Nat
<1>1. f.log \in Seq(Version)
  BY DEF File
<1>2. f.log # <<>> => Len(f.log) \in 1..Len(f.log)
  BY <1>1
<1>3. f.log # <<>> => Latest(f) \in Version
  BY <1>1, <1>2 DEF Latest
<1>4. LatestAt(f) \in Nat
  BY <1>3 DEF LatestAt, Version
<1>. QED
  BY <1>4 DEF AliveAt, DecidedAt, Later, File

\* A recorded version is the latest one; nothing else changes.
LEMMA RecordedVersion ==
    ASSUME NEW f \in File, NEW hash \in Content, NEW at \in Nat
    PROVE  LET g == RecordVersion(f, hash, at)
           IN  /\ g \in File
               /\ g.log # <<>> /\ LatestAt(g) = at
               /\ g.known = f.known /\ g.path = f.path /\ g.pathAt = f.pathAt
               /\ g.deleted = f.deleted /\ g.deletedAt = f.deletedAt
               /\ g.restoredAt = f.restoredAt /\ g.purged = f.purged
<1>. DEFINE v == [hash |-> hash, at |-> at]
            g == RecordVersion(f, hash, at)
<1>1. v \in Version
  BY DEF Version
<1>2. /\ Append(f.log, v) \in Seq(Version)
      /\ Len(Append(f.log, v)) = Len(f.log) + 1
      /\ Append(f.log, v)[Len(f.log) + 1] = v
      /\ Append(f.log, v) # <<>>
  BY <1>1 DEF File
<1>3. g = [f EXCEPT !.log = Append(f.log, v)]
  BY DEF RecordVersion
<1>4. /\ g \in File /\ g.log = Append(f.log, v)
      /\ g.known = f.known /\ g.path = f.path /\ g.pathAt = f.pathAt
      /\ g.deleted = f.deleted /\ g.deletedAt = f.deletedAt
      /\ g.restoredAt = f.restoredAt /\ g.purged = f.purged
  BY <1>2, <1>3 DEF File
<1>5. LatestAt(g) = at
  BY <1>2, <1>4 DEF LatestAt, Latest
<1>. QED
  BY <1>2, <1>4, <1>5

\* A version recorded over an older or equal one, as a local edit that does
\* not lag or a peer's that supersedes the latest; or an orphan.
LEMMA AppendedVersion ==
    ASSUME NEW f, Healthy(f), NEW hash \in Content, NEW at \in Nat, at > 0,
           NEW g, g = AppendVersion(f, hash, at)
    PROVE  /\ Healthy(g)
           /\ g.known = f.known /\ g.purged = f.purged
           /\ LatestAt(g) = at
           /\ (f.known => at >= LatestAt(f)) => Evolves(f, g)
<1>1. PICK r : r = RecordVersion(f, hash, at)
  OBVIOUS
<1>2. /\ r \in File /\ r.log # <<>> /\ LatestAt(r) = at
      /\ r.known = f.known /\ r.path = f.path /\ r.pathAt = f.pathAt
      /\ r.deleted = f.deleted /\ r.deletedAt = f.deletedAt
      /\ r.restoredAt = f.restoredAt /\ r.purged = f.purged
  BY <1>1, RecordedVersion DEF Healthy
<1>3. /\ g \in File /\ g.log = r.log
      /\ g.known = f.known /\ g.path = f.path /\ g.pathAt = f.pathAt
      /\ g.deletedAt = f.deletedAt
      /\ g.restoredAt = f.restoredAt /\ g.purged = f.purged
      /\ g.deleted <=> f.deleted /\ ~(f.known /\ at > f.deletedAt)
  BY <1>1, <1>2 DEF AppendVersion, RestoreFile, File
<1>4. LatestAt(g) = at
  BY <1>2, <1>3 DEF LatestAt, Latest
<1>5. Healthy(g)
  BY <1>2, <1>3, <1>4 DEF Healthy, Stamped
<1>6. f \in File
  BY DEF Healthy
<1>7. ASSUME f.known, at >= LatestAt(f), FlagAgrees(f)
      PROVE  FlagAgrees(g) /\ (Confirmed(f, g) \/ Overturned(f, g))
  <2>1. /\ AliveAt(f) = Later(LatestAt(f), f.restoredAt)
        /\ AliveAt(g) = Later(at, f.restoredAt)
        /\ DecidedAt(f) = Later(AliveAt(f), f.deletedAt)
        /\ DecidedAt(g) = Later(AliveAt(g), f.deletedAt)
    BY <1>3, <1>4 DEF AliveAt, DecidedAt
  <2>2. f.deleted <=> AliveAt(f) <= f.deletedAt
    BY <1>7 DEF FlagAgrees
  <2>3. /\ LatestAt(f) \in Nat /\ f.restoredAt \in Nat
        /\ f.deletedAt \in Nat /\ f.pathAt \in Nat
    BY <1>6, Clocks
  <2>4. g.deleted <=> AliveAt(g) <= f.deletedAt
    BY <1>3, <1>7, <2>1, <2>2, <2>3 DEF Later
  <2>5. \/ (g.deleted <=> f.deleted) /\ DecidedAt(g) >= DecidedAt(f)
        \/ ~(g.deleted <=> f.deleted) /\ DecidedAt(g) > DecidedAt(f)
    BY <1>3, <1>7, <2>1, <2>2, <2>3 DEF Later
  <2>6. g.deleted \in BOOLEAN /\ f.deleted \in BOOLEAN
    BY <1>3, <1>6 DEF File
  <2>. QED
    BY <1>3, <1>7, <2>3, <2>4, <2>5, <2>6 DEF FlagAgrees, Confirmed, Overturned
<1>8. ASSUME ~f.known
      PROVE  Evolves(f, g)
  BY <1>3, <1>5, <1>8 DEF Evolves, StaysUnknown, FlagAgrees
<1>. QED
  BY <1>3, <1>4, <1>5, <1>7, <1>8 DEF Evolves

\* A new row with its first version, by whatever way a file arrives.
LEMMA FirstVersion ==
    ASSUME NEW f, Healthy(f), ~f.known, ~f.purged,
           NEW path \in Path, NEW pathAt \in Nat,
           NEW hash \in Content, NEW at \in Nat, at > 0,
           NEW row, row = AddFile(f, path, pathAt)
    PROVE  /\ Evolves(f, AppendVersion(row, hash, at))
           /\ Evolves(f, RecordVersion(row, hash, at))
           /\ Healthy(row) /\ ~row.purged
<1>1. /\ row \in File /\ row.log = f.log /\ row.purged = f.purged /\ row.known
      /\ row.deleted = FALSE /\ row.deletedAt = 0 /\ row.restoredAt = 0
  BY DEF Healthy, AddFile, File
<1>2. PICK r : r = RecordVersion(row, hash, at)
  OBVIOUS
<1>3. /\ r \in File /\ r.log # <<>> /\ LatestAt(r) = at
      /\ r.known /\ ~r.deleted /\ r.deletedAt = 0 /\ r.restoredAt = 0
      /\ ~r.purged
  BY <1>1, <1>2, RecordedVersion
<1>4. AppendVersion(row, hash, at) = r
  BY <1>2, <1>3 DEF AppendVersion, RestoreFile
<1>5. Evolves(f, r)
  BY <1>3, Clocks DEF Evolves, Healthy, Stamped, FlagAgrees, Appears,
                      DecidedAt, AliveAt, Later
<1>6. Healthy(row)
  BY <1>1 DEF Healthy, Stamped, LatestAt, Latest
<1>. QED
  BY <1>1, <1>2, <1>4, <1>5, <1>6

\* Nothing happens.
LEMMA Unchanged ==
    ASSUME NEW f, Healthy(f)
    PROVE  Evolves(f, f)
<1>1. /\ LatestAt(f) \in Nat /\ DecidedAt(f) \in Nat /\ f.pathAt \in Nat
  BY Clocks DEF Healthy
<1>. QED
  BY <1>1 DEF Evolves, StaysUnknown, Confirmed

\* A restore, the user's or a peer's.
LEMMA AppliedRestore ==
    ASSUME NEW f, Healthy(f), NEW at \in Nat, NEW g, g = ApplyRestore(f, at)
    PROVE  Evolves(f, g)
<1>1. CASE ~f.known
  BY <1>1, Unchanged DEF ApplyRestore
<1>2. CASE f.known
  <2>1. /\ f \in File /\ LatestAt(f) \in Nat /\ f.restoredAt \in Nat
        /\ f.deletedAt \in Nat /\ f.pathAt \in Nat /\ f.deleted \in BOOLEAN
    BY Clocks DEF Healthy, File
  <2>2. /\ g \in File /\ g.log = f.log /\ g.known
        /\ g.path = f.path /\ g.pathAt = f.pathAt /\ g.purged = f.purged
        /\ g.deletedAt = f.deletedAt
        /\ g.restoredAt = Later(f.restoredAt, at)
        /\ g.deleted \in BOOLEAN
        /\ g.deleted <=> f.deleted /\ ~RestoreWins(f, at)
    BY <1>2, <2>1 DEF ApplyRestore, File, Later
  <2>3. LatestAt(g) = LatestAt(f)
    BY <2>2 DEF LatestAt, Latest
  <2>4. Healthy(g)
    BY <1>2, <2>2, <2>3 DEF Healthy, Stamped
  <2>5. ASSUME FlagAgrees(f)
        PROVE  FlagAgrees(g) /\ (Confirmed(f, g) \/ Overturned(f, g))
    <3>1. /\ AliveAt(f) = Later(LatestAt(f), f.restoredAt)
          /\ AliveAt(g) = Later(LatestAt(f), Later(f.restoredAt, at))
          /\ DecidedAt(f) = Later(AliveAt(f), f.deletedAt)
          /\ DecidedAt(g) = Later(AliveAt(g), f.deletedAt)
      BY <2>2, <2>3 DEF AliveAt, DecidedAt
    <3>2. f.deleted <=> AliveAt(f) <= f.deletedAt
      BY <1>2, <2>5 DEF FlagAgrees
    <3>3. RestoreWins(f, at) <=> AliveAt(g) > f.deletedAt
      BY <1>2, <2>1, <3>1 DEF RestoreWins, Later
    <3>4. /\ g.deleted <=> AliveAt(g) <= f.deletedAt
          /\ \/ (g.deleted <=> f.deleted) /\ DecidedAt(g) >= DecidedAt(f)
             \/ ~(g.deleted <=> f.deleted) /\ DecidedAt(g) > DecidedAt(f)
      BY <2>1, <2>2, <3>1, <3>2, <3>3 DEF Later
    <3>. QED
      BY <1>2, <2>1, <2>2, <3>4 DEF FlagAgrees, Confirmed, Overturned
  <2>. QED
    BY <1>2, <2>1, <2>2, <2>3, <2>4, <2>5 DEF Evolves
<1>. QED
  BY <1>1, <1>2

\* A delete of a live file that beats both clocks that keep it alive.
LEMMA RemovedFile ==
    ASSUME NEW f, Healthy(f), NEW at \in Nat, ~f.deleted, DeleteWins(f, at),
           NEW g, g = RemoveFile(f, at)
    PROVE  Evolves(f, g)
<1>1. /\ f \in File /\ f.known /\ at > AliveAt(f)
      /\ AliveAt(f) \in Nat /\ LatestAt(f) \in Nat /\ f.deletedAt \in Nat
      /\ f.deleted = FALSE
  BY Clocks DEF Healthy, DeleteWins, File
<1>2. /\ g \in File /\ g.log = f.log /\ g.known /\ g.deleted = TRUE
      /\ g.path = f.path /\ g.pathAt = f.pathAt /\ g.purged = f.purged
      /\ g.deletedAt = at /\ g.restoredAt = f.restoredAt
  BY <1>1 DEF RemoveFile, File
<1>3. LatestAt(g) = LatestAt(f) /\ AliveAt(g) = AliveAt(f)
  BY <1>2 DEF LatestAt, Latest, AliveAt
<1>4. Healthy(g)
  BY <1>1, <1>2, <1>3 DEF Healthy, Stamped
<1>5. FlagAgrees(g)
  BY <1>1, <1>2, <1>3 DEF FlagAgrees
<1>6. FlagAgrees(f) => Overturned(f, g)
  BY <1>1, <1>2, <1>3 DEF FlagAgrees, Overturned, DecidedAt, Later
<1>. QED
  BY <1>1, <1>2, <1>3, <1>4, <1>5, <1>6 DEF Evolves

\* A move by a newer stamp.
LEMMA UpdatedPath ==
    ASSUME NEW f, Healthy(f), NEW path \in Path, NEW at \in Nat,
           MoveWins(f, at), NEW g, g = UpdatePath(f, path, at)
    PROVE  Evolves(f, g)
<1>1. /\ f \in File /\ f.known /\ at > f.pathAt /\ f.pathAt \in Nat
      /\ LatestAt(f) \in Nat /\ DecidedAt(f) \in Nat
  BY Clocks DEF Healthy, MoveWins
<1>2. /\ g \in File /\ g.log = f.log /\ g.known /\ g.deleted = f.deleted
      /\ g.purged = f.purged /\ g.pathAt = at
      /\ g.deletedAt = f.deletedAt /\ g.restoredAt = f.restoredAt
  BY <1>1 DEF UpdatePath, MoveWins, File
<1>3. /\ LatestAt(g) = LatestAt(f) /\ AliveAt(g) = AliveAt(f)
      /\ DecidedAt(g) = DecidedAt(f)
  BY <1>2 DEF LatestAt, Latest, AliveAt, DecidedAt
<1>4. Healthy(g)
  BY <1>1, <1>2, <1>3 DEF Healthy, Stamped
<1>. QED
  BY <1>1, <1>2, <1>3, <1>4 DEF Evolves, FlagAgrees, Confirmed

\* The end of a file.
LEMMA StrippedFile ==
    ASSUME NEW f, f \in File
    PROVE  /\ f.purged => Evolves(f, StripPurged(f))
           /\ Evolves(f, StripPurged(RecordPurge(f)))
<1>1. <<>> \in Seq(Version)
  OBVIOUS
<1>2. /\ StripPurged(RecordPurge(f)) \in File
      /\ StripPurged(RecordPurge(f)).purged
      /\ ~StripPurged(RecordPurge(f)).known
      /\ StripPurged(RecordPurge(f)).log = <<>>
  BY <1>1 DEF StripPurged, RecordPurge, Unknown, File
<1>3. f.purged => /\ StripPurged(f) \in File
                  /\ StripPurged(f).purged
                  /\ ~StripPurged(f).known
                  /\ StripPurged(f).log = <<>>
  BY <1>1 DEF StripPurged, Unknown, File
<1>. QED
  BY <1>2, <1>3 DEF Evolves, Healthy, Stamped, FlagAgrees

\* A tombstone for a file never seen here.
LEMMA AddedTombstone ==
    ASSUME NEW f, Healthy(f), ~f.known, ~f.purged,
           NEW path \in Path, NEW pathAt \in Nat, NEW hash \in Content,
           NEW at \in Nat, NEW deletedAt \in Nat, NEW restoredAt \in Nat,
           at > 0, deletedAt >= Later(at, restoredAt), NEW g,
           g = AddTombstonedFile(f, path, pathAt, hash, at, deletedAt, restoredAt)
    PROVE  Evolves(f, g)
<1>1. PICK r : r = RecordVersion(f, hash, at)
  OBVIOUS
<1>2. /\ r \in File /\ r.log # <<>> /\ LatestAt(r) = at /\ ~r.purged
  BY <1>1, RecordedVersion DEF Healthy
<1>3. /\ g \in File /\ g.log = r.log /\ g.known /\ g.deleted /\ ~g.purged
      /\ g.deletedAt = deletedAt /\ g.restoredAt = restoredAt
  BY <1>1, <1>2 DEF AddTombstonedFile, File
<1>4. LatestAt(g) = at
  BY <1>2, <1>3 DEF LatestAt, Latest
<1>5. Healthy(g)
  BY <1>2, <1>3, <1>4 DEF Healthy, Stamped
<1>6. FlagAgrees(g) /\ DecidedAt(g) > 0
  BY <1>3, <1>4 DEF FlagAgrees, DecidedAt, AliveAt, Later
<1>. QED
  BY <1>3, <1>5, <1>6 DEF Evolves, Appears

-----------------------------------------------------------------------------
(***************************************************************************)
(* The handlers.                                                           *)
(***************************************************************************)

LEMMA Supersedes ==
    ASSUME NEW f, Healthy(f), NEW at \in Nat, at > 0, SupersedesLatest(f, at)
    PROVE  at >= LatestAt(f)
<1>1. LatestAt(f) \in Nat
  BY Clocks DEF Healthy
<1>. QED
  BY <1>1 DEF SupersedesLatest, LatestAt

\* Any change, from a peer or made through the API.
LEMMA TakenChange ==
    ASSUME NEW f, Healthy(f), NEW c \in Changes
    PROVE  Evolves(f, ApplyChange(f, c).file)
<1>. DEFINE g == ApplyChange(f, c).file
<1>0. Evolves(f, f) /\ f \in File
  BY Unchanged DEF Healthy
<1>1. CASE f.purged /\ c.kind # "FilePurged"
  BY <1>0, <1>1 DEF ApplyChange, Dropped, Outcome
<1>2. ASSUME ~f.purged, NEW path \in Path, NEW pathAt \in Stamp,
             NEW hash \in Content, NEW at \in Stamp,
             c = Added(path, pathAt, hash, at)
      PROVE  Evolves(f, g)
  <2>1. g = ApplyAdded(f, c).file
    BY <1>2 DEF ApplyChange, Added
  <2>2. at \in Nat /\ at > 0 /\ pathAt \in Nat
    BY DEF Stamp
  <2>3. CASE f.known /\ ~SupersedesLatest(f, at)
    BY <1>0, <1>2, <2>1, <2>3 DEF ApplyAdded, Relayed, Outcome, Added
  <2>4. CASE f.known /\ SupersedesLatest(f, at)
    <3>1. g = AppendVersion(f, hash, at)
      BY <1>2, <2>1, <2>4 DEF ApplyAdded, Outcome, Added
    <3>. QED
      BY <2>2, <2>4, <3>1, Supersedes, AppendedVersion
  <2>5. CASE ~f.known
    <3>1. g = AppendVersion(AddFile(f, path, pathAt), hash, at)
      BY <1>2, <2>1, <2>5 DEF ApplyAdded, Outcome, Added
    <3>. QED
      BY <1>2, <2>2, <2>5, <3>1, FirstVersion
  <2>. QED
    BY <2>3, <2>4, <2>5
<1>3. ASSUME ~f.purged, NEW hash \in Content, NEW at \in Stamp,
             c = Changed(hash, at)
      PROVE  Evolves(f, g)
  <2>1. g = ApplyChanged(f, c).file
    BY <1>3 DEF ApplyChange, Changed
  <2>2. at \in Nat /\ at > 0
    BY DEF Stamp
  <2>3. CASE ~SupersedesLatest(f, at)
    BY <1>0, <1>3, <2>1, <2>3 DEF ApplyChanged, Relayed, Outcome, Changed
  <2>4. CASE SupersedesLatest(f, at)
    <3>1. g = AppendVersion(f, hash, at)
      BY <1>3, <2>1, <2>4 DEF ApplyChanged, Outcome, Changed
    <3>. QED
      BY <2>2, <2>4, <3>1, Supersedes, AppendedVersion
  <2>. QED
    BY <2>3, <2>4
<1>4. ASSUME ~f.purged, NEW path \in Path, NEW at \in Stamp,
             c = Moved(path, at)
      PROVE  Evolves(f, g)
  <2>1. g = IF MoveWins(f, at) THEN UpdatePath(f, path, at) ELSE f
    BY <1>4 DEF ApplyChange, ApplyMoved, Moved, Dropped, Outcome
  <2>. QED
    BY <1>0, <2>1, UpdatedPath DEF Stamp
<1>5. ASSUME ~f.purged, NEW at \in Stamp, c = Deleted(at)
      PROVE  Evolves(f, g)
  <2>1. g = IF ~f.deleted /\ DeleteWins(f, at) THEN RemoveFile(f, at) ELSE f
    BY <1>5 DEF ApplyChange, ApplyDeleted, Deleted, Dropped, Outcome
  <2>. QED
    BY <1>0, <2>1, RemovedFile DEF Stamp
<1>6. ASSUME ~f.purged, NEW hash \in Content, NEW at \in Stamp,
             c = Restored(hash, at)
      PROVE  Evolves(f, g)
  <2>1. g \in {f, ApplyRestore(f, at)}
    BY <1>6 DEF ApplyChange, ApplyRestored, Restored, Relayed, Outcome
  <2>. QED
    BY <1>0, <2>1, AppliedRestore DEF Stamp
<1>7. ASSUME c = Purged
      PROVE  Evolves(f, g)
  <2>1. g \in {f, StripPurged(RecordPurge(f))}
    BY <1>7 DEF ApplyChange, ApplyPurged, Purged, Dropped, Outcome
  <2>. QED
    BY <1>0, <2>1, StrippedFile
<1>8. c.kind = "FilePurged" => c = Purged
  BY DEF Changes, Added, Changed, Moved, Deleted, Restored, Purged
<1>. QED
  BY <1>1, <1>2, <1>3, <1>4, <1>5, <1>6, <1>7, <1>8 DEF Changes

\* Any command, a reconciliation's too.
LEMMA TakenCommand ==
    ASSUME NEW f, Healthy(f), NEW c \in Commands
    PROVE  Evolves(f, Handle(f, c).file)
<1>. DEFINE g == Handle(f, c).file
<1>0. Evolves(f, f) /\ f \in File
  BY Unchanged DEF Healthy
<1>1. ASSUME c \in Changes
      PROVE  Evolves(f, g)
  <2>1. c.kind \notin {"CatalogFile", "CatalogTombstone"}
    BY <1>1 DEF Changes, Added, Changed, Moved, Deleted, Restored, Purged
  <2>2. g = ApplyChange(f, c).file
    BY <2>1 DEF Handle
  <2>. QED
    BY <1>1, <2>2, TakenChange
<1>2. ASSUME NEW path \in Path, NEW pathAt \in Stamp,
             NEW hash \in Content, NEW at \in Stamp,
             c = CatalogVersion(path, pathAt, hash, at, "none")
      PROVE  Evolves(f, g)
  <2>1. g = HandleCatalogFile(f, c).file
    BY <1>2 DEF Handle, CatalogVersion
  <2>2. at \in Nat /\ at > 0 /\ pathAt \in Nat
    BY DEF Stamp
  <2>3. CASE f.purged \/ (f.known /\ ~SupersedesLatest(f, at))
    BY <1>0, <1>2, <2>1, <2>3
       DEF HandleCatalogFile, Dropped, Outcome, CatalogVersion
  <2>4. CASE ~f.purged /\ f.known /\ SupersedesLatest(f, at)
    <3>1. g = AppendVersion(f, hash, at)
      BY <1>2, <2>1, <2>4 DEF HandleCatalogFile, Outcome, CatalogVersion
    <3>. QED
      BY <2>2, <2>4, <3>1, Supersedes, AppendedVersion
  <2>5. CASE ~f.purged /\ ~f.known
    <3>1. g = AppendVersion(AddFile(f, path, pathAt), hash, at)
      BY <1>2, <2>1, <2>5 DEF HandleCatalogFile, Outcome, CatalogVersion
    <3>. QED
      BY <2>2, <2>5, <3>1, FirstVersion
  <2>. QED
    BY <2>3, <2>4, <2>5
<1>3. ASSUME NEW path \in Path, NEW pathAt \in Stamp, NEW hash \in Content,
             NEW at \in Stamp, NEW d \in Stamp, NEW r \in 0..MaxAt,
             c = CatalogTombstone(path, pathAt, hash, at, d, r),
             c.deletedAt >= Later(c.at, c.restoredAt)
      PROVE  Evolves(f, g)
  <2>1. g = HandleCatalogTombstone(f, c).file
    BY <1>3 DEF Handle, CatalogTombstone
  <2>3. CASE f.purged \/ f.known
    BY <1>0, <2>1, <2>3 DEF HandleCatalogTombstone, Dropped, Outcome
  <2>4. CASE ~f.purged /\ ~f.known
    <3>1. g = AddTombstonedFile(f, path, pathAt, hash, at, d, r)
      BY <1>3, <2>1, <2>4 DEF HandleCatalogTombstone, Outcome, CatalogTombstone
    <3>2. d >= Later(at, r)
      BY <1>3 DEF CatalogTombstone
    <3>3. /\ pathAt \in Nat /\ at \in Nat /\ d \in Nat /\ r \in Nat /\ at > 0
      BY BoundsAssumption DEF Stamp
    <3>. QED
      BY <2>4, <3>1, <3>2, <3>3, AddedTombstone
  <2>. QED
    BY <2>3, <2>4
<1>. QED
  BY <1>1, <1>2, <1>3 DEF Commands, Reconciliations

-----------------------------------------------------------------------------
(***************************************************************************)
(* The inductive invariant: the row is healthy, its clocks are sound until *)
(* one of the two exemptions, and a purge clears the exemptions with it.   *)
(***************************************************************************)
IInv == /\ TypeOK
        /\ Healthy(file)
        /\ FlagCachesClocks
        /\ exempt # {} => ~file.purged

\* What a step keeps, and what it does to a row with sound clocks.
Kept == /\ IInv'
        /\ file.purged => file'.purged
        /\ exempt' = {} /\ ~file'.purged =>
               exempt = {} /\ Evolves(file, file')

\* A step that leaves a healthy row, and sound clocks unless it is exempt.
LEMMA Becoming ==
    ASSUME IInv, probes' \in SUBSET Probe,
           NEW g, NEW why \in SUBSET {"lag", "crash"}, Become(g, why),
           Healthy(g), file.purged => g.purged,
           why = {} => Evolves(file, g)
    PROVE  Kept
<1>1. /\ file' = g
      /\ exempt' = IF g.purged THEN {} ELSE exempt \cup why
      /\ exempt \in SUBSET {"lag", "crash"}
  BY DEF Become, IInv, TypeOK
<1>2. TypeOK'
  BY <1>1 DEF TypeOK, Healthy
<1>3. Healthy(file')
  BY <1>1
<1>4. exempt' = {} /\ ~g.purged => exempt = {} /\ why = {}
  BY <1>1
<1>5. FlagAgrees(g) \/ exempt' # {}
  BY <1>4 DEF IInv, FlagCachesClocks, Evolves, Healthy, FlagAgrees
<1>6. IInv'
  BY <1>1, <1>2, <1>3, <1>5
     DEF IInv, FlagCachesClocks, Healthy, Stamped, FlagAgrees,
         LatestAt, Latest, AliveAt
<1>. QED
  BY <1>1, <1>4, <1>6 DEF Kept

\* What was left behind by a handler cut short is healthy once the purge set
\* has been enforced.
LEMMA Healed ==
    ASSUME NEW f \in File, Stamped(f)
    PROVE  /\ Healthy(ReconcilePurged(f))
           /\ ReconcilePurged(f).purged = f.purged
<1>1. f.purged => Evolves(f, StripPurged(f))
  BY StrippedFile
<1>2. StripPurged(f).purged = f.purged
  BY DEF StripPurged, Unknown
<1>. QED
  BY <1>1, <1>2 DEF ReconcilePurged, Healthy, Evolves

LEMMA HalfDoneVersion ==
    ASSUME NEW f, Healthy(f), NEW hash \in Content, NEW at \in Nat, at > 0,
           NEW g, g = RecordVersion(f, hash, at)
    PROVE  g \in File /\ Stamped(g) /\ g.purged = f.purged
BY RecordedVersion DEF Healthy, Stamped

LEMMA HalfDoneRestore ==
    ASSUME NEW f, Healthy(f), NEW at \in Nat, NEW g, g = HalfRestore(f, at)
    PROVE  g \in File /\ Stamped(g) /\ g.purged = f.purged
BY DEF HalfRestore, Healthy, File, Stamped, LatestAt, Latest, Later

LEMMA Recovering ==
    ASSUME IInv, NEW half \in File, Stamped(half),
           file.purged => half.purged,
           NEW whole, NEW why \in SUBSET {"lag", "crash"},
           why = {} => Evolves(file, whole),
           Recover(half, whole, why)
    PROVE  Kept
<1>1. PICK torn \in SUBSET {"lag", "crash"} :
          /\ torn = IF ReconcilePurged(half) = whole THEN {} ELSE {"crash"}
          /\ Become(ReconcilePurged(half), why \cup torn)
          /\ probes' = {}
  BY DEF Recover
<1>2. Healthy(ReconcilePurged(half)) /\ ReconcilePurged(half).purged = half.purged
  BY Healed
<1>3. why \cup torn = {} => Evolves(file, ReconcilePurged(half))
  BY <1>1
<1>. QED
  BY <1>1, <1>2, <1>3, Becoming

-----------------------------------------------------------------------------
(***************************************************************************)
(* Every step of the writer.                                               *)
(***************************************************************************)
LEMMA InitIInv == Init => IInv
BY DEF Init, IInv, TypeOK, File, Unknown, Healthy, Stamped,
       FlagCachesClocks, FlagAgrees

LEMMA StepTake ==
    ASSUME IInv, NEW c \in Commands, Take(c)
    PROVE  Kept
<1>1. Evolves(file, Handle(file, c).file)
  BY TakenCommand DEF IInv
<1>. QED
  BY <1>1, Becoming DEF Take, Evolves, IInv, TypeOK

LEMMA StepCreate ==
    ASSUME IInv, NEW p \in Path, NEW pathAt \in Stamp, NEW h \in Content,
           NEW at \in Stamp,
           Create(p, pathAt, h, at) \/ CrashCreating(p, pathAt, h, at)
    PROVE  Kept
<1>. DEFINE row == AddFile(file, p, pathAt)
            new == LocalAdd(file, p, pathAt, h, at).file
<1>1. Healthy(file) /\ file = Unknown /\ at \in Nat /\ at > 0 /\ pathAt \in Nat
  BY DEF IInv, Create, CrashCreating, Stamp
<1>2. ~file.known /\ ~file.purged
  BY <1>1 DEF Unknown
<1>3. new = RecordVersion(row, h, at)
  BY DEF LocalAdd, Outcome
<1>4. Evolves(file, new) /\ Healthy(row)
  BY <1>1, <1>2, <1>3, FirstVersion
<1>5. CASE Create(p, pathAt, h, at)
  BY <1>4, <1>5, Becoming DEF Create, Evolves, IInv, TypeOK
<1>6. CASE CrashCreating(p, pathAt, h, at)
  <2>1. row \in File /\ Stamped(row)
    BY <1>4 DEF Healthy
  <2>. QED
    BY <1>2, <1>4, <1>6, <2>1, Recovering DEF CrashCreating
<1>. QED
  BY <1>5, <1>6

LEMMA StepEdit ==
    ASSUME IInv, NEW h \in Content, NEW at \in Stamp,
           Edit(h, at) \/ CrashEditing(h, at)
    PROVE  Kept
<1>. DEFINE new == LocalEdit(file, h, at).file
            half == RecordVersion(file, h, at)
<1>1. Healthy(file) /\ at \in Nat /\ at > 0 /\ LatestAt(file) \in Nat
  BY Clocks DEF IInv, Healthy, Stamp
<1>2. new = AppendVersion(file, h, at)
  BY DEF LocalEdit, Outcome
<1>3. Lag(at) \in SUBSET {"lag", "crash"}
  BY DEF Lag
<1>4. Lag(at) = {} => (file.known => at >= LatestAt(file))
  BY <1>1 DEF Lag
<1>5. /\ Healthy(new) /\ new.purged = file.purged
      /\ Lag(at) = {} => Evolves(file, new)
  BY <1>1, <1>2, <1>4, AppendedVersion
<1>6. CASE Edit(h, at)
  BY <1>3, <1>5, <1>6, Becoming DEF Edit, IInv, TypeOK
<1>7. CASE CrashEditing(h, at)
  <2>1. half \in File /\ Stamped(half) /\ half.purged = file.purged
    BY <1>1, HalfDoneVersion
  <2>. QED
    BY <1>3, <1>5, <1>7, <2>1, Recovering DEF CrashEditing
<1>. QED
  BY <1>6, <1>7

LEMMA StepProbes ==
    ASSUME IInv,
           \/ \E at \in Stamp : StartRestore(at)
           \/ \E p \in probes : FailRestore(p)
    PROVE  Kept
<1>1. file' = file /\ exempt' = exempt /\ Healthy(file)
  BY DEF StartRestore, FailRestore, IInv
<1>2. ASSUME NEW at \in Stamp, StartRestore(at)
      PROVE  probes' \in SUBSET Probe
  <2>1. file.log \in Seq(Version) /\ file.log # <<>>
    BY <1>2 DEF StartRestore, IInv, TypeOK, File
  <2>2. Len(file.log) \in 1..Len(file.log)
    BY <2>1
  <2>3. Latest(file) \in Version
    BY <2>1, <2>2 DEF Latest
  <2>. QED
    BY <1>2, <2>3 DEF StartRestore, Probe, Version, Stamp
<1>3. probes' \in SUBSET Probe
  BY <1>2 DEF FailRestore, IInv, TypeOK
<1>4. IInv'
  BY <1>1, <1>3 DEF IInv, TypeOK, FlagCachesClocks
<1>5. Evolves(file, file')
  BY <1>1, Unchanged
<1>. QED
  BY <1>1, <1>4, <1>5 DEF Kept

LEMMA StepFinishRestore ==
    ASSUME IInv, NEW p \in probes, FinishRestore(p) \/ CrashRestoring(p)
    PROVE  Kept
<1>. DEFINE whole == ApplyProbedRestore(file, p.hash, p.at).file
            half == HalfRestore(file, p.at)
<1>1. Healthy(file) /\ p.at \in Nat
  BY DEF IInv, TypeOK, Probe
<1>2. whole = ApplyRestore(file, p.at)
  BY DEF ApplyProbedRestore, Dropped, Outcome
<1>3. Evolves(file, whole)
  BY <1>1, <1>2, AppliedRestore
<1>4. CASE FinishRestore(p)
  BY <1>3, <1>4, Becoming DEF FinishRestore, Evolves, IInv, TypeOK
<1>5. CASE CrashRestoring(p)
  <2>1. half \in File /\ Stamped(half) /\ half.purged = file.purged
    BY <1>1, HalfDoneRestore
  <2>. QED
    BY <1>3, <1>5, <2>1, Recovering DEF CrashRestoring
<1>. QED
  BY <1>4, <1>5

\* A purged id takes nothing but a purge.
LEMMA PurgedTakesNothing ==
    ASSUME NEW f, f.purged, NEW c \in Commands, c.kind # "FilePurged"
    PROVE  Handle(f, c).file = f
BY DEF Handle, HandleCatalogFile, HandleCatalogTombstone, ApplyChange,
       Dropped, Outcome

LEMMA StepCrashTaking ==
    ASSUME IInv, NEW c \in Commands, CrashTaking(c)
    PROVE  Kept
<1>. DEFINE whole == Handle(file, c).file
            half == HalfDone(file, c)
<1>1. /\ Healthy(file) /\ Evolves(file, whole) /\ whole # file
      /\ c.kind \in TwoWrites /\ Recover(half, whole, {})
  BY TakenCommand DEF IInv, CrashTaking
<1>2. CASE c.kind = "FilePurged"
  <2>1. half = [file EXCEPT !.purged = TRUE]
    BY <1>2 DEF HalfDone, RecordPurge
  <2>2. half \in File /\ Stamped(half) /\ half.purged
    BY <1>1, <2>1 DEF Healthy, Stamped, File, LatestAt, Latest
  <2>. QED
    BY <1>1, <2>2, Recovering
<1>3. CASE c.kind # "FilePurged"
  <2>1. ~file.purged
    BY <1>1, <1>3, PurgedTakesNothing
  <2>2. half \in File /\ Stamped(half)
    <3>1. CASE c.kind \in {"FileMetadataAdded", "CatalogFile"}
      <4>1. /\ c.path \in Path /\ c.pathAt \in Nat
            /\ c.hash \in Content /\ c.at \in Nat /\ c.at > 0
        BY <3>1 DEF Commands, Changes, Reconciliations, Stamp, Added, Changed,
                    Moved, Deleted, Restored, Purged, CatalogVersion,
                    CatalogTombstone
      <4>2. half = HalfVersion(file, c.path, c.pathAt, c.hash, c.at)
        BY <3>1 DEF HalfDone
      <4>. QED
        BY <1>1, <2>1, <4>1, <4>2, HalfDoneVersion, FirstVersion
           DEF HalfVersion, Healthy
    <3>2. CASE c.kind = "FileMetadataChanged"
      <4>1. c.hash \in Content /\ c.at \in Nat /\ c.at > 0
        BY <3>2 DEF Commands, Changes, Reconciliations, Stamp, Added, Changed,
                    Moved, Deleted, Restored, Purged, CatalogVersion,
                    CatalogTombstone
      <4>2. half = RecordVersion(file, c.hash, c.at)
        BY <3>2 DEF HalfDone
      <4>. QED
        BY <1>1, <4>1, <4>2, HalfDoneVersion
    <3>3. CASE c.kind = "FileRestored"
      <4>1. c.at \in Nat
        BY <3>3 DEF Commands, Changes, Reconciliations, Stamp, Added, Changed,
                    Moved, Deleted, Restored, Purged, CatalogVersion,
                    CatalogTombstone
      <4>2. half = HalfRestore(file, c.at)
        BY <3>3 DEF HalfDone
      <4>. QED
        BY <1>1, <4>1, <4>2, HalfDoneRestore
    <3>. QED
      BY <1>1, <1>3, <3>1, <3>2, <3>3 DEF TwoWrites
  <2>. QED
    BY <1>1, <2>1, <2>2, Recovering
<1>. QED
  BY <1>2, <1>3

LEMMA StepRestart ==
    ASSUME IInv, Restart
    PROVE  Kept
<1>1. Healthy(file) /\ file \in File /\ Stamped(file)
  BY DEF IInv, Healthy
<1>2. Evolves(file, ReconcilePurged(file))
  BY <1>1, Unchanged, StrippedFile DEF ReconcilePurged
<1>3. Healthy(ReconcilePurged(file)) /\ ReconcilePurged(file).purged = file.purged
  BY <1>1, Healed
<1>. QED
  BY <1>2, <1>3, Becoming DEF Restart

LEMMA StepNext == IInv /\ [Next]_vars => Kept
<1>. SUFFICES ASSUME IInv, [Next]_vars
              PROVE  Kept
  OBVIOUS
<1>1. CASE Next
  BY <1>1, StepTake, StepCreate, StepEdit, StepProbes, StepFinishRestore,
     StepCrashTaking, StepRestart DEF Next
<1>2. CASE UNCHANGED vars
  <2>1. file' = file /\ probes' = probes /\ exempt' = exempt
    BY <1>2 DEF vars
  <2>2. IInv'
    BY <2>1 DEF IInv, TypeOK, FlagCachesClocks
  <2>3. Evolves(file, file')
    BY <2>1, Unchanged DEF IInv
  <2>. QED
    BY <2>1, <2>2, <2>3 DEF Kept
<1>. QED
  BY <1>1, <1>2

THEOREM Invariance == Spec => []IInv
<1>1. IInv /\ [Next]_vars => IInv'
  BY StepNext DEF Kept
<1>. QED
  BY InitIInv, <1>1, PTL DEF Spec

-----------------------------------------------------------------------------
(***************************************************************************)
(* The theorems.                                                           *)
(***************************************************************************)

\* Whatever the writer is handed, its state is of the declared shape.
THEOREM TypeCorrect == Spec => []TypeOK
<1>1. IInv => TypeOK
  BY DEF IInv
<1>. QED
  BY Invariance, <1>1, PTL

\* Without a lagging local edit and a crash inside a handler, the cached
\* flag of a row is the comparison of its three clocks (store/types.rs).
THEOREM FlagSound == Spec => []FlagCachesClocks
<1>1. IInv => FlagCachesClocks
  BY DEF IInv
<1>. QED
  BY Invariance, <1>1, PTL

\* No order of changes, plans made before the purge and crashes brings the
\* row of a purged id back (catalog/files.rs, store/purged.rs).
THEOREM PurgedStaysOut == Spec => []PurgedHasNoRow
<1>1. IInv => PurgedHasNoRow
  BY DEF IInv, Healthy, PurgedHasNoRow
<1>. QED
  BY Invariance, <1>1, PTL

\* The purge set only grows (store/purged.rs).
THEOREM PurgeTerminal == Spec => PurgeIsForever
<1>1. IInv /\ [Next]_vars => [file.purged => file'.purged]_vars
  BY StepNext DEF Kept
<1>. QED
  BY Invariance, <1>1, PTL DEF Spec, PurgeIsForever

\* No reordering of peers' versions, restores and plans makes an older
\* version the latest (catalog/files.rs, supersedes_latest).
THEOREM LatestMonotone == Spec => LatestNeverGoesBack
<1>1. IInv /\ [Next]_vars =>
          [exempt' = {} /\ file.known /\ file'.known
               => LatestAt(file') >= LatestAt(file)]_vars
  BY StepNext DEF Kept, Evolves, IInv, Healthy
<1>. QED
  BY Invariance, <1>1, PTL DEF Spec, LatestNeverGoesBack

\* The catalog of one file is the pair of last-writer-wins registers of
\* LWWFile, until one of the exemptions.
THEOREM Refinement == Spec => ImplementsRegister
<1>1. Init => Register!Init
  BY DEF Init, Register!Init, Unknown
<1>2. IInv /\ [Next]_vars => [Register!Next]_(Register!vars)
  <2>. SUFFICES ASSUME IInv, [Next]_vars
                PROVE  [Register!Next]_(Register!vars)
    OBVIOUS
  <2>1. Kept
    BY StepNext
  <2>2. CASE file'.purged
    BY <2>2 DEF Register!Next, Register!Purge
  <2>3. CASE ~file'.purged /\ exempt' # {}
    BY <2>1, <2>3 DEF Kept, Register!Next, Register!Lapse
  <2>4. CASE ~file'.purged /\ exempt' = {}
    <3>1. /\ exempt = {} /\ ~file.purged
          /\ file \in File /\ file' \in File
          /\ \/ StaysUnknown(file, file')
             \/ Appears(file, file')
             \/ Confirmed(file, file')
             \/ Overturned(file, file')
      BY <2>1, <2>4 DEF Kept, Evolves, IInv, FlagCachesClocks, FlagAgrees,
                        Healthy, StaysUnknown, Appears
    <3>2. CASE StaysUnknown(file, file')
      BY <2>4, <3>1, <3>2 DEF StaysUnknown, File, Register!Next, Register!Confirm
    <3>3. CASE Appears(file, file')
      BY <2>4, <3>1, <3>3 DEF Appears, DecidedAt, Register!Next, Register!Appear
    <3>4. CASE Confirmed(file, file')
      BY <2>4, <3>1, <3>4 DEF Confirmed, DecidedAt, Register!Next, Register!Confirm
    <3>5. CASE Overturned(file, file')
      BY <2>4, <3>1, <3>5
         DEF Overturned, DecidedAt, File, Register!Next, Register!Overturn
    <3>. QED
      BY <3>1, <3>2, <3>3, <3>4, <3>5
  <2>. QED
    BY <2>2, <2>3, <2>4
<1>. QED
  BY Invariance, <1>1, <1>2, PTL DEF Spec, ImplementsRegister, Register!Spec
=============================================================================

--------------------------- MODULE TreeSyncProofs ---------------------------
(***************************************************************************)
(* Two devices whose manifests change nothing on each other agree: for any *)
(* rows that are sound and can be compared stamp by stamp.  And where      *)
(* every device has the file to begin with, the rows of any two can be     *)
(* compared in every reachable state: for any tree, any clocks and any     *)
(* breakdowns.                                                             *)
(***************************************************************************)
EXTENDS TreeSync, SequenceTheorems, TLAPS

(***************************************************************************)
(* An exchange of manifests that changes nothing on either side.           *)
(***************************************************************************)
\* A row with versions has a latest one, and the stamps are numbers.
LEMMA StampTypes ==
    ASSUME NEW f \in File
    PROVE  /\ LatestAt(f) \in Nat
           /\ AliveAt(f) \in Nat
           /\ f.log # <<>> => Latest(f) \in Version
           /\ f.restoredAt \in Nat /\ f.deletedAt \in Nat /\ f.pathAt \in Nat
           /\ f.known \in BOOLEAN /\ f.deleted \in BOOLEAN /\ f.purged \in BOOLEAN
           /\ f.log \in Seq(Version)
<1>1. f.log \in Seq(Version)
  BY DEF File
<1>2. f.log # <<>> => Latest(f) \in Version
  BY <1>1 DEF Latest
<1>3. LatestAt(f) \in Nat
  BY <1>2 DEF LatestAt, Version
<1> QED
  BY <1>1, <1>2, <1>3 DEF File, AliveAt, Later

LEMMA LatestOfSound ==
    ASSUME NEW f \in File, SoundRow(f), f.known
    PROVE  /\ f.log # <<>>
           /\ LatestAt(f) > 0
           /\ ~f.purged
<1>1. f.log # <<>> /\ ~f.purged
  BY StampTypes DEF SoundRow, RowHasVersions
<1>2. Len(f.log) \in 1..Len(f.log)
  BY <1>1, StampTypes
<1> QED
  BY <1>1, <1>2 DEF SoundRow, LatestAt, Latest

-----------------------------------------------------------------------------
(***************************************************************************)
(* What each command does to a file it is meant for: something.            *)
(***************************************************************************)

LEMMA PurgeTakes ==
    ASSUME NEW f \in File, ~f.purged \/ f.known
    PROVE  Handle(f, Purged).file # f
<1>1. Handle(f, Purged) = ApplyPurged(f, Purged)
  BY DEF Handle, ApplyChange, Purged
<1>2. ApplyPurged(f, Purged).file = StripPurged(RecordPurge(f))
  BY StampTypes DEF ApplyPurged, Outcome
<1>3. /\ StripPurged(RecordPurge(f)).purged
      /\ ~StripPurged(RecordPurge(f)).known
  BY DEF StripPurged, RecordPurge, Unknown, File
<1> QED
  BY <1>1, <1>2, <1>3, StampTypes

LEMMA VersionTakes ==
    ASSUME NEW f \in File, NEW path, NEW pathAt, NEW hash, NEW at, NEW pull,
           ~f.purged, f.known => SupersedesLatest(f, at)
    PROVE  Handle(f, CatalogVersion(path, pathAt, hash, at, pull)).file # f
<1> DEFINE c == CatalogVersion(path, pathAt, hash, at, pull)
           row == IF f.known THEN f ELSE AddFile(f, path, pathAt)
<1>1. Handle(f, c).file = AppendVersion(row, hash, at)
  BY StampTypes
  DEF Handle, HandleCatalogFile, CatalogVersion, Outcome
<1>2. row.log = f.log
  BY DEF AddFile, File
<1>3. AppendVersion(row, hash, at).log = Append(f.log, [hash |-> hash, at |-> at])
  BY <1>2 DEF AppendVersion, RestoreFile, RecordVersion, AddFile, File
<1>4. Append(f.log, [hash |-> hash, at |-> at]) # f.log
  BY StampTypes
<1> QED
  BY <1>1, <1>3, <1>4

LEMMA TombstoneTakes ==
    ASSUME NEW f \in File, NEW path, NEW pathAt, NEW hash, NEW at,
           NEW deletedAt, NEW restoredAt, ~f.purged, ~f.known
    PROVE  Handle(f, CatalogTombstone(path, pathAt, hash, at, deletedAt,
                                      restoredAt)).file # f
<1> DEFINE c == CatalogTombstone(path, pathAt, hash, at, deletedAt, restoredAt)
<1>1. Handle(f, c).file
        = AddTombstonedFile(f, path, pathAt, hash, at, deletedAt, restoredAt)
  BY StampTypes
  DEF Handle, HandleCatalogTombstone, CatalogTombstone, Outcome
<1>2. AddTombstonedFile(f, path, pathAt, hash, at, deletedAt, restoredAt).known
  BY StampTypes DEF AddTombstonedFile, RecordVersion, File
<1> QED
  BY <1>1, <1>2

LEMMA DeletionTakes ==
    ASSUME NEW f \in File, NEW at \in Nat,
           f.known, ~f.purged, ~f.deleted, at > AliveAt(f)
    PROVE  Handle(f, Deleted(at)).file # f
<1>1. Handle(f, Deleted(at)) = ApplyDeleted(f, Deleted(at))
  BY StampTypes DEF Handle, ApplyChange, Deleted
<1>2. ApplyDeleted(f, Deleted(at)).file = [f EXCEPT !.deleted = TRUE,
                                                    !.deletedAt = at]
  BY StampTypes DEF ApplyDeleted, RemoveFile, DeleteWins, Deleted, Outcome
<1>3. [f EXCEPT !.deleted = TRUE, !.deletedAt = at].deleted # f.deleted
  BY DEF File
<1>4. Handle(f, Deleted(at)).file.deleted # f.deleted
  BY <1>1, <1>2, <1>3
<1> QED
  BY <1>4

LEMMA RestoreTakes ==
    ASSUME NEW f \in File, NEW hash, NEW at \in Nat,
           f.known, ~f.purged, f.deleted, at > f.deletedAt
    PROVE  Handle(f, Restored(hash, at)).file # f
<1>1. Handle(f, Restored(hash, at)) = ApplyRestored(f, Restored(hash, at))
  BY StampTypes DEF Handle, ApplyChange, Restored
<1>2. ApplyRestored(f, Restored(hash, at)).file = ApplyRestore(f, at)
  BY StampTypes DEF ApplyRestored, Live, Restored, Outcome
<1>3. RestoreWins(f, at)
  BY StampTypes DEF RestoreWins, Later
<1>4. ~ApplyRestore(f, at).deleted
  BY <1>3, StampTypes DEF ApplyRestore, File
<1> QED
  BY <1>1, <1>2, <1>4

LEMMA MoveTakes ==
    ASSUME NEW f \in File, NEW path, NEW at \in Nat,
           f.known, ~f.purged, at > f.pathAt
    PROVE  Handle(f, Moved(path, at)).file # f
<1>1. Handle(f, Moved(path, at)) = ApplyMoved(f, Moved(path, at))
  BY StampTypes DEF Handle, ApplyChange, Moved
<1>2. ApplyMoved(f, Moved(path, at)).file = [f EXCEPT !.path = path,
                                                      !.pathAt = at]
  BY StampTypes DEF ApplyMoved, UpdatePath, MoveWins, Moved, Outcome
<1>3. [f EXCEPT !.path = path, !.pathAt = at].pathAt = at
  BY DEF File
<1>4. at # f.pathAt
  BY StampTypes
<1> QED
  BY <1>1, <1>2, <1>3, <1>4

-----------------------------------------------------------------------------
(***************************************************************************)
(* A plan is a sequence of such commands.                                  *)
(***************************************************************************)

\* Every command that could be planned from entry e.
Planable(f, e) ==
    {Purged, Deleted(e.deletedAt), Restored(e.hash, e.restoredAt),
     Moved(e.path, e.pathAt),
     CatalogTombstone(e.path, e.pathAt, e.hash, e.at, e.deletedAt, e.restoredAt),
     CatalogVersion(f.path, e.pathAt, e.hash, e.at, "Change"),
     CatalogVersion(e.path, e.pathAt, e.hash, e.at, "Create"),
     CatalogVersion(f.path, 0, e.hash, e.at, "none")}

LEMMA PlanParts ==
    ASSUME NEW f \in File, NEW e
    PROVE  /\ PlanPurge(f) \in Seq(Planable(f, e))
           /\ PlanDeletion(f, e) \in Seq(Planable(f, e))
           /\ PlanMove(f, e) \in Seq(Planable(f, e))
           /\ PlanContent(f, e) \in Seq(Planable(f, e))
           /\ PlanFile(f, e) \in Seq(Planable(f, e))
<1> DEFINE C == Planable(f, e)
<1>1. /\ Purged \in C
      /\ Deleted(e.deletedAt) \in C
      /\ Restored(e.hash, e.restoredAt) \in C
      /\ Moved(e.path, e.pathAt) \in C
      /\ CatalogTombstone(e.path, e.pathAt, e.hash, e.at, e.deletedAt,
                          e.restoredAt) \in C
      /\ CatalogVersion(f.path, e.pathAt, e.hash, e.at, "Change") \in C
      /\ CatalogVersion(e.path, e.pathAt, e.hash, e.at, "Create") \in C
      /\ CatalogVersion(f.path, 0, e.hash, e.at, "none") \in C
  BY DEF Planable
<1> HIDE DEF C
<1>2. /\ \A c \in C : <<c>> \in Seq(C)
      /\ <<>> \in Seq(C)
  OBVIOUS
<1>3. PlanPurge(f) \in Seq(C)
  BY <1>1, <1>2 DEF PlanPurge
<1>4. PlanDeletion(f, e) \in Seq(C)
  BY <1>1, <1>2 DEF PlanDeletion
<1>5. PlanMove(f, e) \in Seq(C)
  BY <1>1, <1>2 DEF PlanMove
<1>6. PlanContent(f, e) \in Seq(C)
  <2>1. CASE f.known
    BY <1>1, <1>2, <2>1 DEF PlanContent
  <2>2. CASE ~f.known
    BY <1>1, <1>2, <2>2 DEF PlanContent, Records
  <2> QED
    BY <2>1, <2>2
<1>7. PlanMove(f, e) \o PlanContent(f, e) \in Seq(C)
  BY <1>5, <1>6, ConcatProperties
<1>8. PlanFile(f, e) \in Seq(C)
  BY <1>1, <1>2, <1>4, <1>7 DEF PlanFile
<1> QED
  BY <1>3, <1>4, <1>5, <1>6, <1>8 DEF C

\* What holds of every command of a concatenation holds of its parts.
LEMMA PartsOfWhole ==
    ASSUME NEW C, NEW s \in Seq(C), NEW t \in Seq(C), NEW f,
           \A i \in 1..Len(s \o t) : Handle(f, (s \o t)[i]).file = f
    PROVE  /\ \A i \in 1..Len(s) : Handle(f, s[i]).file = f
           /\ \A i \in 1..Len(t) : Handle(f, t[i]).file = f
<1>1. /\ Len(s \o t) = Len(s) + Len(t)
      /\ Len(s) \in Nat /\ Len(t) \in Nat
      /\ \A i \in 1..Len(s) : (s \o t)[i] = s[i]
      /\ \A i \in 1..Len(t) : (s \o t)[Len(s) + i] = t[i]
  BY ConcatProperties
<1>2. ASSUME NEW i \in 1..Len(s)
      PROVE  Handle(f, s[i]).file = f
  <2>1. i \in 1..Len(s \o t)
    BY <1>1
  <2> QED
    BY <1>1, <2>1
<1>3. ASSUME NEW i \in 1..Len(t)
      PROVE  Handle(f, t[i]).file = f
  <2>1. Len(s) + i \in 1..Len(s \o t)
    BY <1>1
  <2>2. Handle(f, (s \o t)[Len(s) + i]).file = f
    BY <2>1
  <2> QED
    BY <1>1, <2>2
<1> QED
  BY <1>2, <1>3

LEMMA OneCommand ==
    ASSUME NEW f, NEW c, NEW s, s = <<c>>,
           \A i \in 1..Len(s) : Handle(f, s[i]).file = f
    PROVE  Handle(f, c).file = f
<1>1. 1 \in 1..Len(s) /\ s[1] = c
  OBVIOUS
<1> QED
  BY <1>1

LEMMA AbsorbedParts ==
    ASSUME NEW f \in File, NEW g \in File, Absorbs(f, g)
    PROVE  /\ g.purged =>
                  \A i \in 1..Len(PlanPurge(f)) :
                      Handle(f, PlanPurge(f)[i]).file = f
           /\ Manifest(g) # {} =>
                  \A i \in 1..Len(PlanFile(f, Entry(g))) :
                      Handle(f, PlanFile(f, Entry(g))[i]).file = f
<1> DEFINE e == Entry(g)
           C == Planable(f, e)
<1>1. /\ (IF g.purged THEN PlanPurge(f) ELSE <<>>) \in Seq(C)
      /\ (IF Manifest(g) = {} THEN <<>> ELSE PlanFile(f, e)) \in Seq(C)
  BY PlanParts
<1>2. PICK s \in Seq(C), t \in Seq(C) :
          /\ s = IF g.purged THEN PlanPurge(f) ELSE <<>>
          /\ t = IF Manifest(g) = {} THEN <<>> ELSE PlanFile(f, e)
  BY <1>1
<1>3. Plan(f, g) = s \o t
  BY <1>2 DEF Plan
<1>4. \A i \in 1..Len(s \o t) : Handle(f, (s \o t)[i]).file = f
  BY <1>3 DEF Absorbs
<1> HIDE DEF C
<1>5. s \in Seq(C) /\ t \in Seq(C)
  BY <1>2
<1>6. /\ \A i \in 1..Len(s) : Handle(f, s[i]).file = f
      /\ \A i \in 1..Len(t) : Handle(f, t[i]).file = f
  BY ONLY <1>4, <1>5, PartsOfWhole
<1> QED
  BY <1>2, <1>6

\* The parts of the plan for a live entry that is not a restore.
LEMMA AbsorbedLiveParts ==
    ASSUME NEW f \in File, NEW g \in File, Absorbs(f, g), Manifest(g) # {},
           ~g.deleted, ~RestoreApplies(f, Entry(g))
    PROVE  /\ \A i \in 1..Len(PlanMove(f, Entry(g))) :
                  Handle(f, PlanMove(f, Entry(g))[i]).file = f
           /\ \A i \in 1..Len(PlanContent(f, Entry(g))) :
                  Handle(f, PlanContent(f, Entry(g))[i]).file = f
<1> DEFINE e == Entry(g)
           C == Planable(f, e)
           s == PlanMove(f, e)
           t == PlanContent(f, e)
<1>1. s \in Seq(C) /\ t \in Seq(C)
  BY PlanParts
<1>2. PlanFile(f, e) = s \o t
  BY DEF PlanFile, Entry
<1>3. \A i \in 1..Len(PlanFile(f, e)) : Handle(f, PlanFile(f, e)[i]).file = f
  BY AbsorbedParts
<1> HIDE DEF C, s, t
<1>4. \A i \in 1..Len(s \o t) : Handle(f, (s \o t)[i]).file = f
  BY <1>2, <1>3
<1>5. /\ \A i \in 1..Len(s) : Handle(f, s[i]).file = f
      /\ \A i \in 1..Len(t) : Handle(f, t[i]).file = f
  BY <1>1, <1>4, PartsOfWhole
<1> QED
  BY <1>5 DEF s, t

-----------------------------------------------------------------------------
(***************************************************************************)
(* What follows, one aspect at a time, when f absorbs all that g announces.*)
(***************************************************************************)

LEMMA PurgeAbsorbed ==
    ASSUME NEW f \in File, NEW g \in File, Absorbs(f, g), g.purged
    PROVE  f.purged /\ ~f.known
<1> SUFFICES ASSUME ~f.purged \/ f.known PROVE FALSE
  BY StampTypes
<1>1. PlanPurge(f) = <<Purged>>
  BY DEF PlanPurge
<1>2. \A i \in 1..Len(PlanPurge(f)) : Handle(f, PlanPurge(f)[i]).file = f
  BY AbsorbedParts
<1>3. Handle(f, Purged).file = f
  BY <1>1, <1>2, OneCommand
<1> QED
  BY <1>3, PurgeTakes

LEMMA Announced ==
    ASSUME NEW g \in File, SoundRow(g), g.known
    PROVE  Manifest(g) # {}
BY LatestOfSound DEF Manifest

LEMMA RowAbsorbed ==
    ASSUME NEW f \in File, NEW g \in File, SoundRow(f), SoundRow(g),
           Absorbs(f, g), g.known, ~f.purged
    PROVE  f.known
<1> SUFFICES ASSUME ~f.known PROVE FALSE
  OBVIOUS
<1> DEFINE e == Entry(g)
<1>1. f.log = <<>>
  BY DEF SoundRow, RowHasVersions
<1>2. CASE g.deleted
  <2> DEFINE c == CatalogTombstone(e.path, e.pathAt, e.hash, e.at, e.deletedAt,
                                   e.restoredAt)
  <2>1. PlanFile(f, e) = <<c>>
    BY <1>2 DEF PlanFile, PlanDeletion, Entry
  <2>2. Handle(f, c).file = f
    <3> HIDE DEF c, e
    <3> QED
      BY <2>1, AbsorbedParts, Announced, OneCommand DEF e
  <2> QED
    BY <2>2, TombstoneTakes
<1>3. CASE ~g.deleted
  <2> DEFINE c == CatalogVersion(e.path, e.pathAt, e.hash, e.at, "Create")
  <2>1. PlanContent(f, e) = <<c>>
    BY <1>1 DEF PlanContent, Requests
  <2>2. ~RestoreApplies(f, e)
    BY DEF RestoreApplies
  <2>3. Handle(f, c).file = f
    <3> HIDE DEF c, e
    <3> QED
      BY <1>3, <2>1, <2>2, AbsorbedLiveParts, Announced, OneCommand DEF e
  <2> QED
    BY <2>3, VersionTakes
<1> QED
  BY <1>2, <1>3, StampTypes

\* A newer version is never absorbed by a row that is not to be restored.
LEMMA VersionAbsorbed ==
    ASSUME NEW f \in File, NEW g \in File, SoundRow(f), SoundRow(g),
           Absorbs(f, g), f.known, g.known, ~g.deleted,
           ~RestoreApplies(f, Entry(g))
    PROVE  LatestAt(g) <= LatestAt(f)
<1> SUFFICES ASSUME LatestAt(g) > LatestAt(f) PROVE FALSE
  BY StampTypes
<1> DEFINE e == Entry(g)
           c1 == CatalogVersion(f.path, e.pathAt, e.hash, e.at, "Change")
           c2 == CatalogVersion(f.path, 0, e.hash, e.at, "none")
<1>1. f.log # <<>> /\ ~f.purged
  BY LatestOfSound
<1>2. NewerThanOurs(f, e)
  BY DEF NewerThanOurs, Entry
<1>3. PlanContent(f, e) \in {<<c1>>, <<c2>>}
  <2>1. Requests(f, e) \/ Records(f, e)
    BY <1>1, <1>2, StampTypes DEF Requests, Records
  <2> QED
    BY <2>1 DEF PlanContent
<1>4. SupersedesLatest(f, e.at)
  BY DEF SupersedesLatest, Entry
<1>5. Handle(f, c1).file # f /\ Handle(f, c2).file # f
  BY <1>1, <1>4, VersionTakes
<1>6. \A i \in 1..Len(PlanContent(f, e)) :
          Handle(f, PlanContent(f, e)[i]).file = f
  BY AbsorbedLiveParts, Announced
<1> HIDE DEF c1, c2, e
<1> QED
  BY <1>3, <1>5, <1>6, OneCommand

\* A delete is absorbed by a deleted row, or by one that is alive by a later
\* stamp.
LEMMA DeletionAbsorbed ==
    ASSUME NEW f \in File, NEW g \in File, SoundRow(f), SoundRow(g),
           Absorbs(f, g), f.known, g.known, g.deleted, ~f.deleted
    PROVE  g.deletedAt <= AliveAt(f)
<1> SUFFICES ASSUME g.deletedAt > AliveAt(f) PROVE FALSE
  BY StampTypes
<1> DEFINE e == Entry(g)
<1>1. PlanFile(f, e) = <<Deleted(g.deletedAt)>>
  BY DEF PlanFile, PlanDeletion, Entry
<1>2. Handle(f, Deleted(g.deletedAt)).file = f
  <2> HIDE DEF e
  <2> QED
    BY <1>1, AbsorbedParts, Announced, OneCommand DEF e
<1> QED
  BY <1>2, DeletionTakes, LatestOfSound, StampTypes

LEMMA RestoreAbsorbed ==
    ASSUME NEW f \in File, NEW g \in File, SoundRow(f), SoundRow(g),
           Absorbs(f, g), f.known, g.known, ~g.deleted
    PROVE  ~RestoreApplies(f, Entry(g))
<1> SUFFICES ASSUME RestoreApplies(f, Entry(g)) PROVE FALSE
  OBVIOUS
<1> DEFINE e == Entry(g)
           c == Restored(e.hash, e.restoredAt)
<1>1. PlanFile(f, e) = <<c>>
  BY DEF PlanFile, Entry
<1>2. Handle(f, c).file = f
  <2> HIDE DEF c, e
  <2> QED
    BY <1>1, AbsorbedParts, Announced, OneCommand DEF e
<1>3. e.restoredAt \in Nat /\ e.restoredAt > f.deletedAt /\ f.deleted
  BY StampTypes DEF RestoreApplies, Entry
<1> QED
  BY <1>2, <1>3, RestoreTakes, LatestOfSound

LEMMA MoveAbsorbed ==
    ASSUME NEW f \in File, NEW g \in File, SoundRow(f), SoundRow(g),
           Absorbs(f, g), f.known, g.known, ~g.deleted
    PROVE  g.pathAt <= f.pathAt
<1> SUFFICES ASSUME g.pathAt > f.pathAt PROVE FALSE
  BY StampTypes
<1> DEFINE e == Entry(g)
           c == Moved(e.path, e.pathAt)
<1>1. PlanMove(f, e) = <<c>>
  BY DEF PlanMove, Entry
<1>2. Handle(f, c).file = f
  <2> HIDE DEF c, e
  <2> QED
    BY <1>1, AbsorbedLiveParts, RestoreAbsorbed, Announced, OneCommand DEF e
<1>3. e.pathAt \in Nat /\ e.pathAt > f.pathAt
  BY StampTypes DEF Entry
<1> QED
  BY <1>2, <1>3, MoveTakes, LatestOfSound

\* The two rows cannot be one deleted, one alive.
LEMMA SamePresence ==
    ASSUME NEW f \in File, NEW g \in File, SoundRow(f), SoundRow(g),
           Coherent(g, f), Absorbs(f, g), Absorbs(g, f),
           f.known, g.known, g.deleted, ~f.deleted
    PROVE  FALSE
<1>1. /\ LatestAt(g) > 0
      /\ AliveAt(g) <= g.deletedAt
      /\ g.deletedAt > 0
  <2>1. LatestAt(g) > 0 /\ AliveAt(g) <= g.deletedAt
    BY LatestOfSound DEF SoundRow, FlagAgrees
  <2> QED
    BY <2>1, StampTypes DEF AliveAt, Later
<1>2. g.deletedAt < AliveAt(f)
  <2>1. g.deletedAt <= AliveAt(f)
    BY DeletionAbsorbed
  <2>2. g.deletedAt # LatestAt(f) /\ g.deletedAt # f.restoredAt
    BY <1>1 DEF Coherent
  <2> QED
    BY <2>1, <2>2, StampTypes DEF AliveAt, Later
<1>3. ~RestoreApplies(g, Entry(f))
  BY RestoreAbsorbed
<1>4. f.restoredAt <= g.deletedAt
  BY <1>1, <1>3, StampTypes DEF RestoreApplies, Entry
<1>5. LatestAt(f) > g.deletedAt
  BY <1>2, <1>4, StampTypes DEF AliveAt, Later
<1>6. LatestAt(f) <= LatestAt(g)
  BY <1>3, VersionAbsorbed
<1> QED
  BY <1>1, <1>5, <1>6, StampTypes DEF AliveAt, Later

-----------------------------------------------------------------------------
\* Two rows that absorb each other's manifest show the same file: what
\* peer/plan.rs plans and catalog/files.rs applies leaves no disagreement
\* that another exchange could not resolve.
THEOREM MutualAbsorption ==
    ASSUME NEW f \in File, NEW g \in File,
           SoundRow(f), SoundRow(g), Coherent(f, g), Coherent(g, f),
           Absorbs(f, g), Absorbs(g, f)
    PROVE  Agree(f, g)
<1>1. f.purged = g.purged
  BY PurgeAbsorbed, StampTypes
<1>2. CASE f.purged
  BY <1>1, <1>2, PurgeAbsorbed DEF Agree, Live
<1>3. CASE ~f.purged
  <2>1. f.known = g.known
    BY <1>1, <1>3, RowAbsorbed, StampTypes
  <2>2. CASE ~f.known
    BY <1>1, <2>1, <2>2 DEF Agree, Live
  <2>3. CASE f.known
    <3>1. f.deleted = g.deleted
      BY <2>1, <2>3, SamePresence, StampTypes
    <3>2. CASE f.deleted
      BY <1>1, <3>1, <3>2 DEF Agree, Live
    <3>3. CASE ~f.deleted
      <4>1. ~RestoreApplies(f, Entry(g)) /\ ~RestoreApplies(g, Entry(f))
        BY <2>1, <2>3, <3>1, <3>3, RestoreAbsorbed
      <4>2. LatestAt(f) <= LatestAt(g) /\ LatestAt(g) <= LatestAt(f)
        BY <2>1, <2>3, <3>1, <3>3, <4>1, VersionAbsorbed
      <4>3. LatestAt(f) = LatestAt(g)
        BY <4>2, StampTypes
      <4>4. Latest(f).hash = Latest(g).hash
        BY <2>1, <2>3, <4>3, LatestOfSound DEF Coherent
      <4>5. f.pathAt <= g.pathAt /\ g.pathAt <= f.pathAt
        BY <2>1, <2>3, <3>1, <3>3, MoveAbsorbed
      <4>6. f.pathAt = g.pathAt
        BY <4>5, StampTypes
      <4>7. f.path = g.path
        BY <2>1, <2>3, <4>6 DEF Coherent
      <4> QED
        BY <1>1, <2>1, <3>1, <4>4, <4>7 DEF Agree, Live
    <3> QED
      BY <3>2, <3>3, StampTypes
  <2> QED
    BY <2>2, <2>3, StampTypes
<1> QED
  BY <1>2, <1>3, StampTypes

\* In any state of TreeSync whose rows can be compared, for any number of
\* devices and any tree.
THEOREM ComparableRowsAgree ==
    ASSUME file \in [Device -> File], RowsCompare
    PROVE  FixpointAgrees
<1> SUFFICES ASSUME NEW l \in Ends,
                    Absorbs(file[l[1]], file[l[2]]),
                    Absorbs(file[l[2]], file[l[1]])
             PROVE  Agree(file[l[1]], file[l[2]])
  BY DEF FixpointAgrees
<1>1. /\ file[l[1]] \in File
      /\ file[l[2]] \in File
  BY DEF Ends
<1>2. <<l[2], l[1]>> \in Ends
  BY DEF Ends
<1>3. /\ SoundRow(file[l[1]]) /\ Coherent(file[l[1]], file[l[2]])
      /\ SoundRow(file[l[2]]) /\ Coherent(file[l[2]], file[l[1]])
  BY <1>2 DEF RowsCompare
<1> QED
  BY <1>1, <1>3, MutualAbsorption

-----------------------------------------------------------------------------
(***************************************************************************)
(* A ledger says of each stamp taken so far what was done under it.  All   *)
(* that a device holds, has queued or has on its way is in one ledger, and *)
(* a change made on a device adds one line to it.                          *)
(***************************************************************************)
\* Stamp 1 made the file that everybody has: it wrote a content and a path.
Ledger == [used : SUBSET (Nat \ {0}), hash : [Nat -> Content],
           path : [Nat -> Path], deletes : SUBSET Nat]

Written(k) == k.used \ k.deletes

Gone == [Unknown EXCEPT !.purged = TRUE]

\* A row that holds what the ledger says.
Row(k) == {f \in File : /\ f.known /\ ~f.purged /\ f.log # <<>>
                        /\ FlagAgrees(f)
                        /\ \A i \in 1..Len(f.log) : f.log[i].at > 0
                        /\ LatestAt(f) \in Written(k)
                        /\ Latest(f).hash = k.hash[LatestAt(f)]
                        /\ f.pathAt \in k.used /\ f.path = k.path[f.pathAt]
                        /\ f.deletedAt \in {0} \cup (k.used \cap k.deletes)
                        /\ f.restoredAt \in {0} \cup Written(k)}

Place == Path \cup {NoPath}

Edits(k) == {Changed(k.hash[s], s) : s \in Written(k)}

Moves(k) == {Moved(k.path[s], s) : s \in k.used}

Deletions(k) == {Deleted(s) : s \in k.used \cap k.deletes}

Restorations(k) == {Restored(h, s) : h \in Content, s \in Written(k)}

Versions(k) == {CatalogVersion(p, t, k.hash[s], s, pull) :
                    p \in Place, t \in Nat, s \in Written(k),
                    pull \in {"Create", "Change", "none"}}

Tombstones == {CatalogTombstone(p, t, h, s, x, y) :
                   p \in Place, t \in Nat, h \in Content, s \in Nat, x \in Nat, y \in Nat}

Command(k) == Edits(k) \cup Moves(k) \cup Deletions(k) \cup Restorations(k)
              \cup {Purged} \cup Versions(k) \cup Tombstones

Advertised(k) == {Entry(f) : f \in Row(k)}

Frame(k) == [frame : {"Change"}, change : Command(k)]
            \cup [frame : {"PurgeManifest"}, purged : BOOLEAN]
            \cup {[frame |-> "Manifest", entries |-> {}]}
            \cup {[frame |-> "Manifest", entries |-> {e}] : e \in Advertised(k)}

Queued(k) == [command : Command(k), from : Device]

\* Everything there is, is in the ledger.
InLedger(k) == /\ k.used = stamps \cup {1}
               /\ file \in [Device -> Row(k) \cup {Gone}]
               /\ queue \in [Device -> Seq(Queued(k))]
               /\ wire \in [Ends -> Seq(Frame(k))]

IInv == setting \in Setting /\ \E k \in Ledger : InLedger(k)

-----------------------------------------------------------------------------
(***************************************************************************)
(* A ledger that grows keeps what it said.                                 *)
(***************************************************************************)
Grows(k, m) == \A s \in k.used : /\ s \in m.used
                                 /\ m.hash[s] = k.hash[s] /\ m.path[s] = k.path[s]
                                 /\ s \in m.deletes <=> s \in k.deletes

LEMMA RowGrows ==
    ASSUME NEW k \in Ledger, NEW m \in Ledger, Grows(k, m)
    PROVE  Row(k) \subseteq Row(m)
  BY DEF Row, Grows, Ledger, Written

LEMMA CommandGrows ==
    ASSUME NEW k \in Ledger, NEW m \in Ledger, Grows(k, m)
    PROVE  Command(k) \subseteq Command(m)
  <1>1. \A s \in Written(k) : s \in Written(m) /\ m.hash[s] = k.hash[s]
    BY DEF Grows, Written
  <1>2. \A s \in k.used : s \in m.used /\ m.path[s] = k.path[s]
    BY DEF Grows
  <1>3. \A s \in k.used \cap k.deletes : s \in m.used \cap m.deletes
    BY DEF Grows
  <1>4. Edits(k) \subseteq Edits(m)
    BY <1>1 DEF Edits
  <1>5. Moves(k) \subseteq Moves(m)
    BY <1>2 DEF Moves
  <1>6. Deletions(k) \subseteq Deletions(m)
    BY <1>3 DEF Deletions
  <1>7. Restorations(k) \subseteq Restorations(m)
    BY <1>1 DEF Restorations
  <1>8. Versions(k) \subseteq Versions(m)
    BY <1>1 DEF Versions
  <1> QED  BY <1>4, <1>5, <1>6, <1>7, <1>8 DEF Command

LEMMA FrameGrows ==
    ASSUME NEW k \in Ledger, NEW m \in Ledger, Grows(k, m)
    PROVE  Frame(k) \subseteq Frame(m)
  <1>1. Command(k) \subseteq Command(m) /\ Advertised(k) \subseteq Advertised(m)
    BY CommandGrows, RowGrows DEF Advertised
  <1> QED  BY <1>1 DEF Frame

\* The catalogs, the queues and the wires may be read in the larger ledger.
LEMMA InLedgerGrows ==
    ASSUME NEW k \in Ledger, NEW m \in Ledger, Grows(k, m), InLedger(k)
    PROVE  /\ file \in [Device -> Row(m) \cup {Gone}]
           /\ queue \in [Device -> Seq(Queued(m))]
           /\ wire \in [Ends -> Seq(Frame(m))]
  <1>1. file \in [Device -> Row(m) \cup {Gone}]
    BY RowGrows DEF InLedger
  <1>2. Queued(k) \subseteq Queued(m)
    BY CommandGrows DEF Queued
  <1>3. \A s \in Seq(Queued(k)) : s \in Seq(Queued(m))
    BY <1>2, SeqMonotonic
  <1>4. \A s \in Seq(Frame(k)) : s \in Seq(Frame(m))
    BY FrameGrows, SeqMonotonic
  <1> QED  BY <1>1, <1>3, <1>4 DEF InLedger

-----------------------------------------------------------------------------
(***************************************************************************)
(* What the operations of the store do to a row of the ledger.             *)
(***************************************************************************)
LEMMA RowTypes ==
    ASSUME NEW k \in Ledger, NEW f \in Row(k)
    PROVE  /\ f \in File /\ f.known = TRUE /\ f.purged = FALSE /\ f.deleted \in BOOLEAN
           /\ f.log \in Seq(Version) /\ f.log # <<>>
           /\ LatestAt(f) \in Nat /\ LatestAt(f) > 0
           /\ f.restoredAt \in Nat /\ f.deletedAt \in Nat /\ f.pathAt \in Nat
           /\ Latest(f).hash \in Content /\ f.path \in Path
           /\ f.deleted => LatestAt(f) <= f.deletedAt /\ f.restoredAt <= f.deletedAt
           /\ ~f.deleted => LatestAt(f) > f.deletedAt \/ f.restoredAt > f.deletedAt
  <1>1. f \in File /\ f.known /\ ~f.purged /\ f.log # <<>> /\ FlagAgrees(f)
        /\ LatestAt(f) \in k.used
        /\ Latest(f).hash = k.hash[LatestAt(f)] /\ f.path = k.path[f.pathAt]
    BY DEF Row, Written
  <1>2. /\ f.deleted => LatestAt(f) <= f.deletedAt /\ f.restoredAt <= f.deletedAt
        /\ ~f.deleted => LatestAt(f) > f.deletedAt \/ f.restoredAt > f.deletedAt
    BY <1>1, StampTypes DEF FlagAgrees, AliveAt, Later
  <1> QED  BY <1>1, <1>2, StampTypes DEF Ledger

LEMMA LaterOfTwo ==
    ASSUME NEW s \in Nat, NEW t \in Nat
    PROVE  /\ Later(s, t) \in Nat /\ Later(s, t) \in {s, t}
           /\ s <= Later(s, t) /\ t <= Later(s, t)
  BY DEF Later

LEMMA FlagFollows ==
    ASSUME NEW f, f.deleted \in BOOLEAN,
           LatestAt(f) \in Nat, f.restoredAt \in Nat, f.deletedAt \in Nat,
           f.deleted => LatestAt(f) <= f.deletedAt /\ f.restoredAt <= f.deletedAt,
           ~f.deleted => LatestAt(f) > f.deletedAt \/ f.restoredAt > f.deletedAt
    PROVE  FlagAgrees(f)
  BY DEF FlagAgrees, AliveAt, Later

\* A newer version is recorded, and revives the row if it is newer than the
\* delete.
LEMMA AppendKeeps ==
    ASSUME NEW k \in Ledger, NEW f \in Row(k), NEW s \in Written(k), s > LatestAt(f)
    PROVE  AppendVersion(f, k.hash[s], s) \in Row(k)
  <1> DEFINE v == [hash |-> k.hash[s], at |-> s]
             log == Append(f.log, v)
             g == RecordVersion(f, k.hash[s], s)
             new == AppendVersion(f, k.hash[s], s)
  <1>1. s \in Nat /\ s > 0 /\ v \in Version /\ v.at = s /\ v.hash = k.hash[s]
    BY DEF Ledger, Written, Version
  <1>2. /\ log \in Seq(Version) /\ log # <<>> /\ log[Len(log)] = v
        /\ \A i \in 1..Len(log) : log[i].at > 0
    <2>1. f.log \in Seq(Version) /\ \A i \in 1..Len(f.log) : f.log[i].at > 0
      BY RowTypes DEF Row
    <2> HIDE DEF v
    <2> QED  BY <1>1, <2>1
  <1> HIDE DEF v, log
  <1>3. g = [f EXCEPT !.log = log]
    BY DEF RecordVersion, v, log
  <1>4. /\ g \in File /\ g.log = log /\ g.known /\ ~g.purged
        /\ g.path = f.path /\ g.pathAt = f.pathAt /\ g.deleted = f.deleted
        /\ g.deletedAt = f.deletedAt /\ g.restoredAt = f.restoredAt
    BY <1>2, <1>3, RowTypes DEF File
  <1> HIDE DEF g
  <1>5. LatestAt(g) = s /\ Latest(g) = v
    BY <1>1, <1>2, <1>4 DEF LatestAt, Latest
  <1>6. new = IF g.deleted /\ s > g.deletedAt THEN [g EXCEPT !.deleted = FALSE] ELSE g
    BY <1>4, <1>5 DEF AppendVersion, RestoreFile, g
  <1> HIDE DEF new
  <1>7. /\ new \in File /\ new.log = log /\ new.known /\ ~new.purged
        /\ new.path = f.path /\ new.pathAt = f.pathAt
        /\ new.deleted \in BOOLEAN /\ (new.deleted <=> f.deleted /\ ~(s > f.deletedAt))
        /\ new.deletedAt = f.deletedAt /\ new.restoredAt = f.restoredAt
    BY <1>4, <1>6, RowTypes DEF File
  <1>8. LatestAt(new) = s /\ Latest(new) = v
    BY <1>1, <1>2, <1>7 DEF LatestAt, Latest
  <1>9. FlagAgrees(new)
    <2>1. /\ new.deleted \in BOOLEAN /\ LatestAt(new) \in Nat
          /\ new.restoredAt \in Nat /\ new.deletedAt \in Nat
      BY <1>1, <1>7, <1>8, RowTypes
    <2>0. /\ f.deleted \in BOOLEAN /\ f.deletedAt \in Nat /\ f.restoredAt \in Nat
          /\ LatestAt(f) \in Nat /\ s \in Nat /\ s > LatestAt(f)
          /\ f.deleted => LatestAt(f) <= f.deletedAt /\ f.restoredAt <= f.deletedAt
          /\ ~f.deleted => LatestAt(f) > f.deletedAt \/ f.restoredAt > f.deletedAt
      BY <1>1, RowTypes
    <2>2. new.deleted => LatestAt(new) <= new.deletedAt /\ new.restoredAt <= new.deletedAt
      BY ONLY <1>7, <1>8, <2>0
    <2>3. ~new.deleted => LatestAt(new) > new.deletedAt \/ new.restoredAt > new.deletedAt
      BY ONLY <1>7, <1>8, <2>0
    <2> QED  BY <2>1, <2>2, <2>3, FlagFollows
  <1> QED  BY <1>1, <1>2, <1>7, <1>8, <1>9 DEF Row, new

\* The latest version of a row depends on its log alone.
LEMMA SameLog ==
    ASSUME NEW f, NEW g, g.log = f.log
    PROVE  LatestAt(g) = LatestAt(f) /\ Latest(g) = Latest(f)
  BY DEF LatestAt, Latest

LEMMA MoveKeeps ==
    ASSUME NEW k \in Ledger, NEW f \in Row(k), NEW s \in k.used
    PROVE  UpdatePath(f, k.path[s], s) \in Row(k)
  <1> DEFINE new == [f EXCEPT !.path = k.path[s], !.pathAt = s]
  <1>1. s \in Nat /\ k.path[s] \in Path
    BY DEF Ledger
  <1>2. /\ new \in File /\ new.log = f.log /\ new.known /\ ~new.purged
        /\ new.path = k.path[s] /\ new.pathAt = s /\ new.deleted = f.deleted
        /\ new.deletedAt = f.deletedAt /\ new.restoredAt = f.restoredAt
    BY <1>1, RowTypes DEF File
  <1> HIDE DEF new
  <1>3. LatestAt(new) = LatestAt(f) /\ Latest(new) = Latest(f)
    BY <1>2, SameLog
  <1>4. new \in Row(k)
    BY <1>2, <1>3 DEF Row, FlagAgrees, AliveAt
  <1> QED  BY <1>4 DEF UpdatePath, new

LEMMA RemoveKeeps ==
    ASSUME NEW k \in Ledger, NEW f \in Row(k), NEW s \in k.used \cap k.deletes
    PROVE  RemoveFile(f, s) \in Row(k)
  <1> DEFINE new == [f EXCEPT !.deleted = TRUE, !.deletedAt = s]
  <1>1. s \in Nat
    BY DEF Ledger
  <1>2. /\ new \in File /\ new.log = f.log /\ new.known /\ ~new.purged
        /\ new.path = f.path /\ new.pathAt = f.pathAt /\ new.deleted = TRUE
        /\ new.deletedAt = s /\ new.restoredAt = f.restoredAt
    BY <1>1, RowTypes DEF File
  <1> HIDE DEF new
  <1>3. LatestAt(new) = LatestAt(f) /\ Latest(new) = Latest(f)
    BY <1>2, SameLog
  <1>4. ASSUME s > AliveAt(f) PROVE new \in Row(k)
    <2>1. FlagAgrees(new)
      <3>1. /\ new.deleted \in BOOLEAN /\ LatestAt(new) \in Nat
            /\ new.restoredAt \in Nat /\ new.deletedAt \in Nat
        BY <1>1, <1>2, <1>3, RowTypes
      <3>0. LatestAt(f) <= s /\ f.restoredAt <= s
        <4>1. /\ LatestAt(f) \in Nat /\ f.restoredAt \in Nat
          BY RowTypes
        <4>2. Later(LatestAt(f), f.restoredAt) < s
          BY <1>4 DEF AliveAt
        <4>3. /\ Later(LatestAt(f), f.restoredAt) \in Nat
              /\ LatestAt(f) <= Later(LatestAt(f), f.restoredAt)
              /\ f.restoredAt <= Later(LatestAt(f), f.restoredAt)
          BY ONLY <4>1, LaterOfTwo
        <4> QED  BY ONLY <1>1, <4>1, <4>2, <4>3
      <3>2. new.deleted => LatestAt(new) <= new.deletedAt /\ new.restoredAt <= new.deletedAt
        BY ONLY <1>2, <1>3, <3>0
      <3>3. ~new.deleted => LatestAt(new) > new.deletedAt \/ new.restoredAt > new.deletedAt
        BY ONLY <1>2, <1>3, <3>0
      <3> QED  BY <3>1, <3>2, <3>3, FlagFollows
    <2> QED  BY <1>2, <1>3, <2>1 DEF Row
  <1> QED  BY <1>4 DEF RemoveFile, DeleteWins, new

LEMMA RestoreKeeps ==
    ASSUME NEW k \in Ledger, NEW f \in Row(k), NEW s \in Written(k)
    PROVE  ApplyRestore(f, s) \in Row(k)
  <1> DEFINE new == ApplyRestore(f, s)
  <1>1. s \in Nat
    BY DEF Ledger, Written
  <1>2. new = [f EXCEPT !.restoredAt = Later(f.restoredAt, s),
                        !.deleted = f.deleted /\ ~RestoreWins(f, s)]
    BY RowTypes DEF ApplyRestore
  <1> HIDE DEF new
  <1>3. Later(f.restoredAt, s) \in Nat /\ Later(f.restoredAt, s) \in {f.restoredAt, s}
    BY <1>1, RowTypes DEF Later
  <1>4. (f.deleted /\ ~RestoreWins(f, s)) \in BOOLEAN
    OBVIOUS
  <1>5. /\ new \in File /\ new.log = f.log /\ new.known /\ ~new.purged
        /\ new.path = f.path /\ new.pathAt = f.pathAt
        /\ new.deleted \in BOOLEAN /\ (new.deleted <=> f.deleted /\ ~RestoreWins(f, s))
        /\ new.deletedAt = f.deletedAt /\ new.restoredAt = Later(f.restoredAt, s)
    BY <1>2, <1>3, <1>4, RowTypes DEF File
  <1>6. LatestAt(new) = LatestAt(f) /\ Latest(new) = Latest(f)
    BY <1>5, SameLog
  <1>7. FlagAgrees(new)
    <2>1. /\ new.deleted \in BOOLEAN /\ LatestAt(new) \in Nat
          /\ new.restoredAt \in Nat /\ new.deletedAt \in Nat
      BY <1>3, <1>5, <1>6, RowTypes
    <2>0. /\ f.deleted \in BOOLEAN /\ f.deletedAt \in Nat /\ f.restoredAt \in Nat
          /\ LatestAt(f) \in Nat /\ s \in Nat
          /\ f.deleted => LatestAt(f) <= f.deletedAt /\ f.restoredAt <= f.deletedAt
          /\ ~f.deleted => LatestAt(f) > f.deletedAt \/ f.restoredAt > f.deletedAt
      BY <1>1, RowTypes
    <2>4. RestoreWins(f, s) <=> LatestAt(f) > f.deletedAt \/ Later(f.restoredAt, s) > f.deletedAt
      <3>1. Later(Later(f.restoredAt, s), LatestAt(f)) > f.deletedAt
                <=> LatestAt(f) > f.deletedAt \/ Later(f.restoredAt, s) > f.deletedAt
        <4> DEFINE x == Later(f.restoredAt, s)
        <4>1. x \in Nat
          BY <1>3
        <4> HIDE DEF x
        <4>2. Later(x, LatestAt(f)) > f.deletedAt <=> LatestAt(f) > f.deletedAt \/ x > f.deletedAt
          <5>1. /\ Later(x, LatestAt(f)) \in Nat /\ Later(x, LatestAt(f)) \in {x, LatestAt(f)}
                /\ x <= Later(x, LatestAt(f)) /\ LatestAt(f) <= Later(x, LatestAt(f))
            BY ONLY <2>0, <4>1, LaterOfTwo
          <5> QED  BY ONLY <2>0, <4>1, <5>1
        <4> QED  BY <4>2 DEF x
      <3> QED  BY <3>1, RowTypes DEF RestoreWins
    <2>5. f.restoredAt <= Later(f.restoredAt, s)
      BY ONLY <2>0, LaterOfTwo
    <2>2. new.deleted => LatestAt(new) <= new.deletedAt /\ new.restoredAt <= new.deletedAt
      BY ONLY <1>3, <1>5, <1>6, <2>0, <2>4, <2>5
    <2>3. ~new.deleted => LatestAt(new) > new.deletedAt \/ new.restoredAt > new.deletedAt
      BY ONLY <1>3, <1>5, <1>6, <2>0, <2>4, <2>5
    <2> QED  BY <2>1, <2>2, <2>3, FlagFollows
  <1> QED  BY <1>3, <1>5, <1>6, <1>7 DEF Row, new

LEMMA UnknownIsAFile == Unknown \in File
  <1>1. <<>> \in Seq(Version)
    OBVIOUS
  <1> QED  BY <1>1 DEF Unknown, File

LEMMA GoneIsGone ==
    /\ Gone \in File /\ Gone.purged = TRUE /\ Gone.known = FALSE /\ Gone.log = <<>>
    /\ Gone.deletedAt = 0 /\ LatestAt(Gone) = 0
  <1>1. Gone \in File
    BY UnknownIsAFile DEF Gone, File
  <1>2. /\ Gone.purged = TRUE /\ Gone.known = FALSE /\ Gone.log = <<>>
        /\ Gone.deletedAt = 0
    BY DEF Gone, Unknown
  <1> QED  BY <1>1, <1>2 DEF LatestAt

\* Whatever is purged ends up the same.
LEMMA PurgeKeeps ==
    ASSUME NEW f \in File
    PROVE  StripPurged(RecordPurge(f)) = Gone
  BY DEF StripPurged, RecordPurge, Gone, Unknown, File

-----------------------------------------------------------------------------
(***************************************************************************)
(* What the writer makes of a command of the ledger.                       *)
(***************************************************************************)
Fine(k, outcome) == /\ outcome.file \in Row(k) \cup {Gone}
                    /\ outcome.announce \subseteq Command(k)

LEMMA CommandCases ==
    ASSUME NEW k \in Ledger, NEW c \in Command(k)
    PROVE  \/ \E s \in Written(k) : c = Changed(k.hash[s], s)
           \/ \E s \in k.used : c = Moved(k.path[s], s)
           \/ \E s \in k.used \cap k.deletes : c = Deleted(s)
           \/ \E h \in Content, s \in Written(k) : c = Restored(h, s)
           \/ c = Purged
           \/ \E p \in Place, t \in Nat, s \in Written(k), pull \in {"Create", "Change", "none"} :
                  c = CatalogVersion(p, t, k.hash[s], s, pull)
           \/ \E p \in Place, t \in Nat, h \in Content, s \in Nat, x \in Nat, y \in Nat :
                  c = CatalogTombstone(p, t, h, s, x, y)
  <1>1. CASE c \in Edits(k)
    BY <1>1 DEF Edits
  <1>2. CASE c \in Moves(k)
    BY <1>2 DEF Moves
  <1>3. CASE c \in Deletions(k)
    BY <1>3 DEF Deletions
  <1>4. CASE c \in Restorations(k)
    BY <1>4 DEF Restorations
  <1>5. CASE c \in Versions(k)
    BY <1>5 DEF Versions
  <1>6. CASE c \in Tombstones
    BY <1>6 DEF Tombstones
  <1> QED  BY <1>1, <1>2, <1>3, <1>4, <1>5, <1>6 DEF Command

LEMMA OutcomeParts ==
    ASSUME NEW f, NEW a, NEW pull, NEW place
    PROVE  Outcome(f, a, pull, place).file = f /\ Outcome(f, a, pull, place).announce = a
  BY DEF Outcome

\* A purged id takes nothing.
LEMMA GoneStays ==
    ASSUME NEW k \in Ledger, NEW c \in Command(k)
    PROVE  Fine(k, Handle(Gone, c))
  <1>1. Dropped(Gone).file = Gone /\ Dropped(Gone).announce = {}
    BY OutcomeParts DEF Dropped
  <1>2. Gone.purged /\ ~Gone.known
    BY GoneIsGone
  <1>3. ASSUME NEW s, c = Changed(k.hash[s], s) PROVE Handle(Gone, c) = Dropped(Gone)
    BY <1>2, <1>3 DEF Handle, ApplyChange, Changed
  <1>4. ASSUME NEW s, c = Moved(k.path[s], s) PROVE Handle(Gone, c) = Dropped(Gone)
    BY <1>2, <1>4 DEF Handle, ApplyChange, Moved
  <1>5. ASSUME NEW s, c = Deleted(s) PROVE Handle(Gone, c) = Dropped(Gone)
    BY <1>2, <1>5 DEF Handle, ApplyChange, Deleted
  <1>6. ASSUME NEW h, NEW s, c = Restored(h, s) PROVE Handle(Gone, c) = Dropped(Gone)
    BY <1>2, <1>6 DEF Handle, ApplyChange, Restored
  <1>7. ASSUME c = Purged PROVE Handle(Gone, c) = Dropped(Gone)
    BY <1>2, <1>7 DEF Handle, ApplyChange, ApplyPurged, Purged
  <1>8. ASSUME NEW p, NEW t, NEW s, NEW pull, c = CatalogVersion(p, t, k.hash[s], s, pull)
        PROVE  Handle(Gone, c) = Dropped(Gone)
    BY <1>2, <1>8 DEF Handle, HandleCatalogFile, CatalogVersion
  <1>9. ASSUME NEW p, NEW t, NEW h, NEW s, NEW x, NEW y,
               c = CatalogTombstone(p, t, h, s, x, y)
        PROVE  Handle(Gone, c) = Dropped(Gone)
    BY <1>2, <1>9 DEF Handle, HandleCatalogTombstone, CatalogTombstone
  <1>10. Handle(Gone, c) = Dropped(Gone)
    BY <1>3, <1>4, <1>5, <1>6, <1>7, <1>8, <1>9, CommandCases
  <1> QED  BY <1>1, <1>10 DEF Fine

LEMMA ChangedFine ==
    ASSUME NEW k \in Ledger, NEW f \in Row(k), NEW s \in Written(k)
    PROVE  Fine(k, ApplyChanged(f, Changed(k.hash[s], s)))
  <1> DEFINE c == Changed(k.hash[s], s)
  <1>1. c \in Command(k) /\ c.at = s /\ c.hash = k.hash[s]
    BY DEF Command, Edits, Changed
  <1> HIDE DEF c
  <1>2. CASE ~SupersedesLatest(f, s)
    BY <1>1, <1>2, OutcomeParts DEF Fine, ApplyChanged, Relayed, c
  <1>3. CASE SupersedesLatest(f, s)
    <2>1. s > LatestAt(f)
      BY <1>3, RowTypes DEF SupersedesLatest
    <2>2. AppendVersion(f, c.hash, c.at) \in Row(k)
      BY <1>1, <2>1, AppendKeeps
    <2> QED  BY <1>1, <1>3, <2>2, OutcomeParts DEF Fine, ApplyChanged, c
  <1> QED  BY <1>2, <1>3

LEMMA MovedFine ==
    ASSUME NEW k \in Ledger, NEW f \in Row(k), NEW s \in k.used
    PROVE  Fine(k, ApplyMoved(f, Moved(k.path[s], s)))
  <1> DEFINE c == Moved(k.path[s], s)
  <1>1. c \in Command(k) /\ c.at = s /\ c.path = k.path[s]
    BY DEF Command, Moves, Moved
  <1> HIDE DEF c
  <1>2. UpdatePath(f, c.path, c.at) \in Row(k)
    BY <1>1, MoveKeeps
  <1> QED  BY <1>1, <1>2, OutcomeParts DEF Fine, ApplyMoved, Dropped, c

LEMMA DeletedFine ==
    ASSUME NEW k \in Ledger, NEW f \in Row(k), NEW s \in k.used \cap k.deletes
    PROVE  Fine(k, ApplyDeleted(f, Deleted(s)))
  <1> DEFINE c == Deleted(s)
  <1>1. c \in Command(k) /\ c.at = s
    BY DEF Command, Deletions, Deleted
  <1> HIDE DEF c
  <1>2. RemoveFile(f, c.at) \in Row(k)
    BY <1>1, RemoveKeeps
  <1> QED  BY <1>1, <1>2, OutcomeParts DEF Fine, ApplyDeleted, Dropped, c

LEMMA RestoredFine ==
    ASSUME NEW k \in Ledger, NEW f \in Row(k), NEW h \in Content, NEW s \in Written(k)
    PROVE  Fine(k, ApplyRestored(f, Restored(h, s)))
  <1> DEFINE c == Restored(h, s)
  <1>1. c \in Command(k) /\ c.at = s
    BY DEF Command, Restorations, Restored
  <1> HIDE DEF c
  <1>2. ApplyRestore(f, c.at) \in Row(k)
    BY <1>1, RestoreKeeps
  <1> QED  BY <1>1, <1>2, OutcomeParts DEF Fine, ApplyRestored, Relayed, c

LEMMA VersionFine ==
    ASSUME NEW k \in Ledger, NEW f \in Row(k), NEW s \in Written(k), NEW p, NEW t, NEW pull
    PROVE  Fine(k, HandleCatalogFile(f, CatalogVersion(p, t, k.hash[s], s, pull)))
  <1> DEFINE c == CatalogVersion(p, t, k.hash[s], s, pull)
  <1>1. c.at = s /\ c.hash = k.hash[s] /\ Changed(k.hash[s], s) \in Command(k)
    BY DEF Command, Edits, CatalogVersion
  <1> HIDE DEF c
  <1>2. f.known /\ ~f.purged
    BY RowTypes
  <1>3. CASE ~SupersedesLatest(f, s)
    BY <1>1, <1>2, <1>3, OutcomeParts DEF Fine, HandleCatalogFile, Dropped, c
  <1>4. CASE SupersedesLatest(f, s)
    <2>1. s > LatestAt(f)
      BY <1>4, RowTypes DEF SupersedesLatest
    <2>2. AppendVersion(f, c.hash, c.at) \in Row(k)
      BY <1>1, <2>1, AppendKeeps
    <2> QED  BY <1>1, <1>2, <1>4, <2>2, OutcomeParts DEF Fine, HandleCatalogFile, c
  <1> QED  BY <1>3, <1>4

LEMMA Handled ==
    ASSUME NEW k \in Ledger, NEW f \in Row(k) \cup {Gone}, NEW c \in Command(k)
    PROVE  Fine(k, Handle(f, c))
  <1> SUFFICES ASSUME f \in Row(k) PROVE Fine(k, Handle(f, c))
    BY GoneStays
  <1>1. f.known /\ ~f.purged /\ f \in File
    BY RowTypes
  <1>2. ASSUME NEW s \in Written(k), c = Changed(k.hash[s], s) PROVE Fine(k, Handle(f, c))
    <2>1. c.kind = "FileMetadataChanged"
      BY <1>2 DEF Changed
    <2>2. Handle(f, c) = ApplyChanged(f, c)
      BY <1>1, <2>1 DEF Handle, ApplyChange
    <2> QED  BY <1>2, <2>2, ChangedFine
  <1>3. ASSUME NEW s \in k.used, c = Moved(k.path[s], s) PROVE Fine(k, Handle(f, c))
    <2>1. c.kind = "FileMoved"
      BY <1>3 DEF Moved
    <2>2. Handle(f, c) = ApplyMoved(f, c)
      BY <1>1, <2>1 DEF Handle, ApplyChange
    <2> QED  BY <1>3, <2>2, MovedFine
  <1>4. ASSUME NEW s \in k.used \cap k.deletes, c = Deleted(s) PROVE Fine(k, Handle(f, c))
    <2>1. c.kind = "FileDeleted"
      BY <1>4 DEF Deleted
    <2>2. Handle(f, c) = ApplyDeleted(f, c)
      BY <1>1, <2>1 DEF Handle, ApplyChange
    <2> QED  BY <1>4, <2>2, DeletedFine
  <1>5. ASSUME NEW h \in Content, NEW s \in Written(k), c = Restored(h, s)
        PROVE  Fine(k, Handle(f, c))
    <2>1. c.kind = "FileRestored"
      BY <1>5 DEF Restored
    <2>2. Handle(f, c) = ApplyRestored(f, c)
      BY <1>1, <2>1 DEF Handle, ApplyChange
    <2> QED  BY <1>5, <2>2, RestoredFine
  <1>6. ASSUME c = Purged PROVE Fine(k, Handle(f, c))
    <2>1. c.kind = "FilePurged"
      BY <1>6 DEF Purged
    <2>2. Handle(f, c) = ApplyPurged(f, c)
      BY <1>1, <2>1 DEF Handle, ApplyChange
    <2>3. ApplyPurged(f, c) = Outcome(Gone, {c}, "none", "Remove")
      BY <1>1, PurgeKeeps DEF ApplyPurged
    <2> QED  BY <1>6, <2>2, <2>3, OutcomeParts DEF Fine
  <1>7. ASSUME NEW p, NEW t, NEW s \in Written(k), NEW pull,
               c = CatalogVersion(p, t, k.hash[s], s, pull)
        PROVE  Fine(k, Handle(f, c))
    <2>1. c.kind = "CatalogFile"
      BY <1>7 DEF CatalogVersion
    <2>2. Handle(f, c) = HandleCatalogFile(f, c)
      BY <2>1 DEF Handle
    <2> QED  BY <1>7, <2>2, VersionFine
  <1>8. ASSUME NEW p, NEW t, NEW h, NEW s, NEW x, NEW y,
               c = CatalogTombstone(p, t, h, s, x, y)
        PROVE  Fine(k, Handle(f, c))
    <2>1. c.kind = "CatalogTombstone"
      BY <1>8 DEF CatalogTombstone
    <2>2. Handle(f, c) = Dropped(f)
      BY <1>1, <2>1 DEF Handle, HandleCatalogTombstone
    <2> QED  BY <2>2, OutcomeParts DEF Fine, Dropped
  <1>9. (\E p \in Place, t \in Nat, s \in Written(k), pull \in {"Create", "Change", "none"} :
             c = CatalogVersion(p, t, k.hash[s], s, pull))
        => Fine(k, Handle(f, c))
    BY <1>7
  <1>10. (\E p \in Place, t \in Nat, h \in Content, s \in Nat, x \in Nat, y \in Nat :
              c = CatalogTombstone(p, t, h, s, x, y))
         => Fine(k, Handle(f, c))
    BY <1>8
  <1> QED  BY <1>2, <1>3, <1>4, <1>5, <1>6, <1>9, <1>10, CommandCases

-----------------------------------------------------------------------------
(***************************************************************************)
(* What a session plans from a manifest of the ledger.                     *)
(***************************************************************************)
LEMMA EntryParts ==
    ASSUME NEW k \in Ledger, NEW e \in Advertised(k)
    PROVE  /\ e.at \in Written(k) /\ e.hash = k.hash[e.at] /\ e.hash \in Content
           /\ e.pathAt \in k.used /\ e.path = k.path[e.pathAt] /\ e.path \in Place
           /\ e.deletedAt \in {0} \cup (k.used \cap k.deletes)
           /\ e.restoredAt \in {0} \cup Written(k)
           /\ e.at \in Nat /\ e.pathAt \in Nat /\ e.deletedAt \in Nat /\ e.restoredAt \in Nat
  <1>1. PICK f \in Row(k) : e = Entry(f)
    BY DEF Advertised
  <1>2. /\ e.at = LatestAt(f) /\ e.hash = Latest(f).hash /\ e.path = f.path
        /\ e.pathAt = f.pathAt /\ e.deletedAt = f.deletedAt /\ e.restoredAt = f.restoredAt
    BY <1>1 DEF Entry
  <1> QED  BY <1>2, RowTypes DEF Row, Place

LEMMA PlanContentOK ==
    ASSUME NEW k \in Ledger, NEW f \in Row(k) \cup {Gone}, NEW e \in Advertised(k)
    PROVE  PlanContent(f, e) \in Seq(Command(k))
  <1>1. f.path \in Place
    BY RowTypes DEF Gone, Unknown, Place
  <1>2. \A p \in Place, t \in Nat, pull \in {"Create", "Change", "none"} :
            CatalogVersion(p, t, e.hash, e.at, pull) \in Command(k)
    BY EntryParts DEF Command, Versions
  <1>3. CatalogVersion(IF f.known THEN f.path ELSE e.path, e.pathAt, e.hash, e.at,
                       IF f.known THEN "Change" ELSE "Create") \in Command(k)
    BY <1>1, <1>2, EntryParts
  <1>4. CatalogVersion(f.path, 0, e.hash, e.at, "none") \in Command(k)
    BY <1>1, <1>2
  <1> QED  BY <1>3, <1>4 DEF PlanContent

LEMMA PlanFileOK ==
    ASSUME NEW k \in Ledger, NEW f \in Row(k) \cup {Gone}, NEW e \in Advertised(k)
    PROVE  PlanFile(f, e) \in Seq(Command(k))
  <1>1. PlanDeletion(f, e) \in Seq(Command(k))
    <2>1. CatalogTombstone(e.path, e.pathAt, e.hash, e.at, e.deletedAt, e.restoredAt)
            \in Command(k)
      BY EntryParts DEF Command, Tombstones
    <2>2. ASSUME e.deletedAt > AliveAt(f) PROVE Deleted(e.deletedAt) \in Command(k)
      <3>1. AliveAt(f) \in Nat
        BY GoneIsGone, RowTypes, StampTypes
      <3>2. e.deletedAt # 0
        BY <2>2, <3>1
      <3> QED  BY <3>2, EntryParts DEF Command, Deletions
    <2> QED  BY <2>1, <2>2 DEF PlanDeletion
  <1>2. ASSUME RestoreApplies(f, e) PROVE <<Restored(e.hash, e.restoredAt)>> \in Seq(Command(k))
    <2>1. e.restoredAt # 0
      BY <1>2 DEF RestoreApplies
    <2>2. Restored(e.hash, e.restoredAt) \in Command(k)
      BY <2>1, EntryParts DEF Command, Restorations
    <2> QED  BY <2>2
  <1>3. PlanMove(f, e) \in Seq(Command(k))
    <2>1. Moved(e.path, e.pathAt) \in Command(k)
      BY EntryParts DEF Command, Moves
    <2> QED  BY <2>1 DEF PlanMove
  <1>4. PlanMove(f, e) \o PlanContent(f, e) \in Seq(Command(k))
    BY <1>3, PlanContentOK, ConcatProperties
  <1> QED  BY <1>1, <1>2, <1>4 DEF PlanFile

LEMMA PlannedOK ==
    ASSUME NEW k \in Ledger, NEW f \in Row(k) \cup {Gone}, NEW x \in Frame(k)
    PROVE  Planned(f, x) \in Seq(Command(k))
  <1>1. CASE x \in [frame : {"Change"}, change : Command(k)]
    BY <1>1 DEF Planned
  <1>2. CASE x \in [frame : {"PurgeManifest"}, purged : BOOLEAN]
    <2>1. PlanPurge(f) \in Seq(Command(k))
      <3>1. Purged \in Command(k)
        BY DEF Command
      <3>2. <<Purged>> \in Seq(Command(k))
        BY <3>1
      <3> QED  BY <3>2 DEF PlanPurge
    <2> QED  BY <1>2, <2>1 DEF Planned
  <1>3. CASE x = [frame |-> "Manifest", entries |-> {}]
    BY <1>3 DEF Planned
  <1>4. ASSUME NEW e \in Advertised(k), x = [frame |-> "Manifest", entries |-> {e}]
        PROVE  Planned(f, x) \in Seq(Command(k))
    <2>1. (CHOOSE y \in {e} : TRUE) = e /\ {e} # {}
      OBVIOUS
    <2>2. Planned(f, x) = PlanFile(f, e)
      BY <1>4, <2>1 DEF Planned
    <2> QED  BY <2>2, PlanFileOK
  <1> QED  BY <1>1, <1>2, <1>3, <1>4 DEF Frame

-----------------------------------------------------------------------------
(***************************************************************************)
(* The steps.                                                              *)
(***************************************************************************)
LEMMA InitHolds ==
    ASSUME Everywhere
    PROVE  Init => IInv
  <1> SUFFICES ASSUME Init PROVE IInv
    OBVIOUS
  <1> DEFINE q == CHOOSE p \in Path : TRUE
             k == [used |-> {1}, hash |-> [s \in Nat |-> First], path |-> [s \in Nat |-> q],
                   deletes |-> {}]
             log == <<[hash |-> First, at |-> 1]>>
  <1>1. First \in Content /\ q \in Path
    BY TreeAssumption DEF First
  <1>2. k \in Ledger
    <2>1. {1} \in SUBSET (Nat \ {0}) /\ {} \in SUBSET Nat
      OBVIOUS
    <2>2. [s \in Nat |-> First] \in [Nat -> Content] /\ [s \in Nat |-> q] \in [Nat -> Path]
      BY <1>1
    <2> QED  BY <2>1, <2>2 DEF Ledger
  <1>3. SharedFile \in Row(k)
    <2>1. log \in Seq(Version) /\ log # <<>> /\ Len(log) = 1
          /\ log[1].at = 1 /\ log[1].hash = First
      BY <1>1 DEF Version
    <2>2. SharedFile = [Unknown EXCEPT !.known = TRUE, !.path = q, !.pathAt = 1, !.log = log]
      BY DEF SharedFile
    <2> HIDE DEF log, q
    <2>3. SharedFile \in File /\ SharedFile.log = log /\ SharedFile.deletedAt = 0
          /\ SharedFile.restoredAt = 0 /\ SharedFile.deleted = FALSE
          /\ SharedFile.known /\ ~SharedFile.purged /\ SharedFile.path = q
          /\ SharedFile.pathAt = 1
      BY <1>1, <2>1, <2>2, UnknownIsAFile DEF File, Unknown
    <2>4. LatestAt(SharedFile) = 1 /\ Latest(SharedFile).hash = First
      BY <2>1, <2>3 DEF LatestAt, Latest
    <2>5. FlagAgrees(SharedFile)
      BY <2>3, <2>4 DEF FlagAgrees, AliveAt, Later
    <2>6. 1 \in Nat /\ k.hash[1] = First /\ k.path[1] = q /\ 1 \in Written(k) /\ 1 \in k.used
      BY DEF Written
    <2> HIDE DEF k
    <2> QED  BY <2>1, <2>3, <2>4, <2>5, <2>6 DEF Row
  <1> HIDE DEF k
  <1>4. k.used = {1}
    BY DEF k
  <1>5. \A S : <<>> \in Seq(S)
    OBVIOUS
  <1>6. InLedger(k)
    BY <1>3, <1>4, <1>5 DEF Init, InLedger
  <1> QED  BY <1>2, <1>6 DEF Init, IInv

\* What a handler leaves is stored and sent on.
LEMMA CommitOK ==
    ASSUME NEW k \in Ledger, NEW d \in Device, NEW outcome, NEW origin,
           file \in [Device -> Row(k) \cup {Gone}], wire \in [Ends -> Seq(Frame(k))],
           Fine(k, outcome), Commit(d, outcome, origin)
    PROVE  /\ file' \in [Device -> Row(k) \cup {Gone}]
           /\ wire' \in [Ends -> Seq(Frame(k))]
  <1>1. file' \in [Device -> Row(k) \cup {Gone}]
    BY DEF Commit, Fine
  <1>2. CASE outcome.announce = {}
    BY <1>1, <1>2 DEF Commit, Forwarded
  <1>3. CASE outcome.announce # {}
    <2> DEFINE c == CHOOSE c \in outcome.announce : TRUE
               to == {e \in Neighbours(d) \ {origin} : stage[<<d, e>>] # "down"}
               news == <<ChangeFrame(c)>>
    <2>1. c \in Command(k)
      BY <1>3 DEF Fine
    <2>2. ChangeFrame(c) \in Frame(k)
      BY <2>1 DEF ChangeFrame, Frame
    <2>3. news \in Seq(Frame(k))
      BY <2>2
    <2>4. wire' = Sending(wire, d, to, news)
      BY <1>3 DEF Commit, Forwarded
    <2> HIDE DEF news, to
    <2>5. wire' \in [Ends -> Seq(Frame(k))]
      BY <2>3, <2>4, ConcatProperties DEF Sending
    <2> QED  BY <1>1, <2>5
  <1> QED  BY <1>2, <1>3

\* The writer.
LEMMA WriteKeeps ==
    ASSUME IInv, NEW d \in Device, Write(d)
    PROVE  IInv'
  <1>1. PICK k \in Ledger : InLedger(k)
    BY DEF IInv
  <1>2. queue[d] \in Seq(Queued(k)) /\ queue[d] # <<>>
    BY <1>1 DEF InLedger, Write
  <1>3. Head(queue[d]) \in Queued(k) /\ Tail(queue[d]) \in Seq(Queued(k))
    BY <1>2, HeadTailProperties
  <1>4. Fine(k, Handle(file[d], Head(queue[d]).command))
    BY <1>1, <1>3, Handled DEF InLedger, Queued
  <1>5. /\ file' \in [Device -> Row(k) \cup {Gone}]
        /\ wire' \in [Ends -> Seq(Frame(k))]
    BY <1>1, <1>4, CommitOK DEF InLedger, Write
  <1>6. queue' \in [Device -> Seq(Queued(k))]
    BY <1>1, <1>3 DEF InLedger, Write
  <1>7. InLedger(k)'
    BY <1>1, <1>5, <1>6 DEF InLedger, Write
  <1> QED  BY <1>7 DEF IInv, Write

LEMMA PurgeStep ==
    ASSUME IInv, NEW d \in Device, Purge(d)
    PROVE  IInv'
  <1>1. PICK k \in Ledger : InLedger(k)
    BY DEF IInv
  <1>2. Purged \in Command(k) /\ Handle(file[d], Purged) = ApplyChange(file[d], Purged)
    BY DEF Command, Handle, Purged
  <1>3. Fine(k, ApplyChange(file[d], Purged))
    BY <1>1, <1>2, Handled DEF InLedger
  <1>4. /\ file' \in [Device -> Row(k) \cup {Gone}]
        /\ wire' \in [Ends -> Seq(Frame(k))]
    BY <1>1, <1>3, CommitOK DEF InLedger, Purge
  <1>5. InLedger(k)'
    BY <1>1, <1>4 DEF InLedger, Purge
  <1> QED  BY <1>5 DEF IInv, Purge

-----------------------------------------------------------------------------
\* A new line of the ledger; gone is {at} for a delete and {} otherwise.
NewLine(k, at, h, p, gone) ==
    [used |-> k.used \cup {at}, hash |-> [k.hash EXCEPT ![at] = h],
     path |-> [k.path EXCEPT ![at] = p],
     deletes |-> (k.deletes \ {at}) \cup gone]

LEMMA NewLineGrows ==
    ASSUME NEW k \in Ledger, NEW at \in Nat \ {0}, at \notin k.used,
           NEW h \in Content, NEW p \in Path, NEW gone \in SUBSET {at}
    PROVE  /\ NewLine(k, at, h, p, gone) \in Ledger
           /\ Grows(k, NewLine(k, at, h, p, gone))
           /\ NewLine(k, at, h, p, gone).used = k.used \cup {at}
           /\ NewLine(k, at, h, p, gone).hash[at] = h
           /\ NewLine(k, at, h, p, gone).path[at] = p
           /\ at \in gone => at \in NewLine(k, at, h, p, gone).used
                                     \cap NewLine(k, at, h, p, gone).deletes
           /\ at \notin gone => at \in Written(NewLine(k, at, h, p, gone))
  BY DEF Ledger, Grows, NewLine, Written

\* A change made on a device, whose stamp is not in the ledger yet.
LEMMA StampIsNew ==
    ASSUME IInv, NEW k \in Ledger, InLedger(k), NEW d, NEW at, Stamped(d, at)
    PROVE  /\ at \in Nat \ {0} /\ at \notin k.used
           /\ setting.paths \subseteq Path /\ setting.contents \subseteq Content
           /\ Path # {} /\ Content # {}
  BY TreeAssumption DEF IInv, InLedger, Stamped

LEMMA LocalKeeps ==
    ASSUME IInv, NEW k \in Ledger, InLedger(k), NEW d \in Device, NEW at, Stamped(d, at),
           NEW m \in Ledger, Grows(k, m), m.used = k.used \cup {at},
           NEW outcome, Fine(m, outcome), Commit(d, outcome, d)
    PROVE  IInv'
  <1>1. /\ file \in [Device -> Row(m) \cup {Gone}]
        /\ queue \in [Device -> Seq(Queued(m))]
        /\ wire \in [Ends -> Seq(Frame(m))]
    BY InLedgerGrows
  <1>2. /\ file' \in [Device -> Row(m) \cup {Gone}]
        /\ wire' \in [Ends -> Seq(Frame(m))]
    BY <1>1, CommitOK
  <1>3. m.used = stamps' \cup {1} /\ queue' = queue /\ setting' = setting
    BY DEF Stamped, InLedger
  <1>4. InLedger(m)'
    BY <1>1, <1>2, <1>3 DEF InLedger
  <1> QED  BY <1>3, <1>4 DEF IInv

\* A known file has a row of the ledger, before and after.
LEMMA KnownRow ==
    ASSUME NEW k \in Ledger, InLedger(k), NEW d \in Device, file[d].known,
           NEW m \in Ledger, Grows(k, m)
    PROVE  file[d] \in Row(m)
  BY GoneIsGone, RowGrows DEF InLedger

LEMMA EditStep ==
    ASSUME IInv, NEW d \in Device, NEW at, Edit(d, at)
    PROVE  IInv'
  <1>1. PICK k \in Ledger : InLedger(k)
    BY DEF IInv
  <1>2. PICK h \in setting.contents : Commit(d, LocalEdit(file[d], h, at), d)
    BY DEF Edit
  <1>3. Stamped(d, at) /\ file[d].known /\ at > LatestAt(file[d])
    BY DEF Edit
  <1>4. PICK p \in Path : TRUE
    BY <1>1, <1>3, StampIsNew
  <1> DEFINE m == NewLine(k, at, h, p, {})
  <1>5. /\ m \in Ledger /\ Grows(k, m) /\ m.used = k.used \cup {at}
        /\ m.hash[at] = h /\ at \in Written(m)
    <2>1. at \in Nat \ {0} /\ at \notin k.used /\ h \in Content /\ p \in Path
      BY <1>1, <1>3, StampIsNew
    <2>2. {} \in SUBSET {at} /\ at \notin {}
      OBVIOUS
    <2> QED  BY ONLY k \in Ledger, <2>1, <2>2, NewLineGrows
  <1> HIDE DEF m
  <1>6. file[d] \in Row(m)
    BY <1>1, <1>3, <1>5, KnownRow
  <1>7. AppendVersion(file[d], h, at) \in Row(m)
    BY <1>3, <1>5, <1>6, AppendKeeps
  <1>8. Changed(h, at) \in Command(m)
    BY <1>5 DEF Command, Edits
  <1>9. Fine(m, LocalEdit(file[d], h, at))
    <2> DEFINE new == AppendVersion(file[d], h, at)
    <2>1. LocalEdit(file[d], h, at).file = new
          /\ LocalEdit(file[d], h, at).announce = {Changed(h, at)}
      BY DEF LocalEdit, Outcome
    <2> HIDE DEF new
    <2>2. new \in Row(m)
      BY <1>7 DEF new
    <2> QED  BY <1>8, <2>1, <2>2 DEF Fine
  <1> QED  BY <1>1, <1>2, <1>3, <1>5, <1>9, LocalKeeps

LEMMA MoveStep ==
    ASSUME IInv, NEW d \in Device, NEW at, Move(d, at)
    PROVE  IInv'
  <1>1. PICK k \in Ledger : InLedger(k)
    BY DEF IInv
  <1>2. PICK p \in setting.paths : Commit(d, ApplyChange(file[d], Moved(p, at)), d)
    BY DEF Move
  <1>3. Stamped(d, at) /\ file[d].known
    BY DEF Move, Live
  <1>4. PICK h \in Content : TRUE
    BY <1>1, <1>3, StampIsNew
  <1> DEFINE m == NewLine(k, at, h, p, {})
  <1>5. /\ m \in Ledger /\ Grows(k, m) /\ m.used = k.used \cup {at}
        /\ m.path[at] = p
    <2>1. at \in Nat \ {0} /\ at \notin k.used /\ h \in Content /\ p \in Path
      BY <1>1, <1>3, StampIsNew
    <2>2. {} \in SUBSET {at} /\ at \notin {}
      OBVIOUS
    <2> QED  BY ONLY k \in Ledger, <2>1, <2>2, NewLineGrows
  <1> HIDE DEF m
  <1>6. file[d] \in Row(m)
    BY <1>1, <1>3, <1>5, KnownRow
  <1>7. Moved(p, at) \in Command(m)
    BY <1>5 DEF Command, Moves
  <1>8. Handle(file[d], Moved(p, at)) = ApplyChange(file[d], Moved(p, at))
    BY DEF Handle, Moved
  <1>9. Fine(m, ApplyChange(file[d], Moved(p, at)))
    BY <1>5, <1>6, <1>7, <1>8, Handled
  <1> QED  BY <1>1, <1>2, <1>3, <1>5, <1>9, LocalKeeps

LEMMA DeleteStep ==
    ASSUME IInv, NEW d \in Device, NEW at, Delete(d, at)
    PROVE  IInv'
  <1>1. PICK k \in Ledger : InLedger(k)
    BY DEF IInv
  <1>2. /\ Stamped(d, at) /\ file[d].known
        /\ Commit(d, ApplyChange(file[d], Deleted(at)), d)
    BY DEF Delete, Live
  <1>3. PICK h \in Content, p \in Path : TRUE
    BY <1>1, <1>2, StampIsNew
  <1> DEFINE m == NewLine(k, at, h, p, {at})
  <1>4. /\ m \in Ledger /\ Grows(k, m) /\ m.used = k.used \cup {at}
        /\ at \in m.used \cap m.deletes
    BY <1>1, <1>2, StampIsNew, NewLineGrows
  <1> HIDE DEF m
  <1>5. file[d] \in Row(m)
    BY <1>1, <1>2, <1>4, KnownRow
  <1>6. Deleted(at) \in Command(m)
    BY <1>4 DEF Command, Deletions
  <1>7. Handle(file[d], Deleted(at)) = ApplyChange(file[d], Deleted(at))
    BY DEF Handle, Deleted
  <1>8. Fine(m, ApplyChange(file[d], Deleted(at)))
    BY <1>4, <1>5, <1>6, <1>7, Handled
  <1> QED  BY <1>1, <1>2, <1>4, <1>8, LocalKeeps

LEMMA RestoreStep ==
    ASSUME IInv, NEW d \in Device, NEW at, Restore(d, at)
    PROVE  IInv'
  <1> DEFINE h == Latest(file[d]).hash
  <1>1. PICK k \in Ledger : InLedger(k)
    BY DEF IInv
  <1>2. /\ Stamped(d, at) /\ file[d].known
        /\ Commit(d, ApplyProbedRestore(file[d], h, at), d)
    BY DEF Restore
  <1>3. file[d] \in Row(k)
    BY <1>1, <1>2, GoneIsGone DEF InLedger
  <1>4. h \in Content
    BY <1>3, RowTypes
  <1>5. PICK p \in Path : TRUE
    BY <1>1, <1>2, StampIsNew
  <1> HIDE DEF h
  <1> DEFINE m == NewLine(k, at, h, p, {})
  <1>6. /\ m \in Ledger /\ Grows(k, m) /\ m.used = k.used \cup {at} /\ at \in Written(m)
    <2>1. at \in Nat \ {0} /\ at \notin k.used /\ p \in Path
      BY <1>1, <1>2, StampIsNew
    <2>2. {} \in SUBSET {at} /\ at \notin {}
      OBVIOUS
    <2> QED  BY ONLY k \in Ledger, <1>4, <2>1, <2>2, NewLineGrows
  <1> HIDE DEF m
  <1>7. file[d] \in Row(m)
    BY <1>1, <1>2, <1>6, KnownRow
  <1>8. ApplyRestore(file[d], at) \in Row(m) /\ Restored(h, at) \in Command(m)
    BY <1>4, <1>6, <1>7, RestoreKeeps DEF Command, Restorations
  <1>9. Fine(m, ApplyProbedRestore(file[d], h, at))
    BY <1>8, OutcomeParts DEF Fine, ApplyProbedRestore, Dropped
  <1> QED  BY <1>1, <1>2, <1>6, <1>9, LocalKeeps

-----------------------------------------------------------------------------
\* A session sends its manifests.
LEMMA SendingOK ==
    ASSUME NEW k \in Ledger, wire \in [Ends -> Seq(Frame(k))], NEW d, NEW e,
           NEW x \in Frame(k), wire' = Sending(wire, d, {e}, <<x>>)
    PROVE  wire' \in [Ends -> Seq(Frame(k))]
  <1> DEFINE news == <<x>>
  <1>1. news \in Seq(Frame(k))
    OBVIOUS
  <1>2. wire' = Sending(wire, d, {e}, news)
    OBVIOUS
  <1> HIDE DEF news
  <1> QED  BY <1>1, <1>2, ConcatProperties DEF Sending

LEMMA AnnounceStep ==
    ASSUME IInv, NEW d \in Device, NEW e \in Device,
           Register(d, e) \/ AnnouncePurges(d, e) \/ AnnounceFile(d, e)
    PROVE  IInv'
  <1>1. PICK k \in Ledger : InLedger(k)
    BY DEF IInv
  <1>2. file[d] \in Row(k) \cup {Gone} /\ file[d].purged \in BOOLEAN
    BY <1>1, GoneIsGone, RowTypes DEF InLedger
  <1>3. CASE Register(d, e)
    BY <1>1, <1>3 DEF IInv, InLedger, Register
  <1>4. CASE AnnouncePurges(d, e)
    <2>1. [frame |-> "PurgeManifest", purged |-> file[d].purged] \in Frame(k)
      BY <1>2 DEF Frame
    <2>2. wire' \in [Ends -> Seq(Frame(k))]
      BY <1>1, <1>4, <2>1, SendingOK DEF AnnouncePurges, InLedger
    <2> QED  BY <1>1, <1>4, <2>2 DEF IInv, InLedger, AnnouncePurges
  <1>5. CASE AnnounceFile(d, e)
    <2>1. [frame |-> "Manifest", entries |-> Manifest(file[d])] \in Frame(k)
      <3>1. CASE file[d] = Gone
        BY <3>1, GoneIsGone DEF Manifest, Frame
      <3>2. CASE file[d] \in Row(k)
        BY <3>2, RowTypes DEF Manifest, Advertised, Frame
      <3> QED  BY <1>2, <3>1, <3>2
    <2>2. wire' \in [Ends -> Seq(Frame(k))]
      BY <1>1, <1>5, <2>1, SendingOK DEF AnnounceFile, InLedger
    <2> QED  BY <1>1, <1>5, <2>2 DEF IInv, InLedger, AnnounceFile
  <1> QED  BY <1>3, <1>4, <1>5

LEMMA ReceiveStep ==
    ASSUME IInv, NEW d \in Device, NEW e \in Device, <<d, e>> \in Ends, Receive(d, e)
    PROVE  IInv'
  <1>1. PICK k \in Ledger : InLedger(k)
    BY DEF IInv
  <1>2. wire[<<d, e>>] \in Seq(Frame(k)) /\ wire[<<d, e>>] # <<>>
    BY <1>1 DEF InLedger, Receive
  <1>3. Head(wire[<<d, e>>]) \in Frame(k) /\ Tail(wire[<<d, e>>]) \in Seq(Frame(k))
    BY <1>2, HeadTailProperties
  <1> DEFINE commands == Planned(file[e], Head(wire[<<d, e>>]))
             new == [i \in 1..Len(commands) |-> [command |-> commands[i], from |-> d]]
  <1>4. commands \in Seq(Command(k))
    BY <1>1, <1>3, PlannedOK DEF InLedger
  <1>5. new \in Seq(Queued(k))
    <2> HIDE DEF commands
    <2>1. Len(commands) \in Nat /\ \A i \in 1..Len(commands) : commands[i] \in Command(k)
      BY <1>4
    <2> QED  BY <2>1 DEF Queued
  <1>6. queue[e] \o new \in Seq(Queued(k))
    <2>1. queue[e] \in Seq(Queued(k))
      BY <1>1 DEF InLedger
    <2> HIDE DEF new
    <2> QED  BY <1>5, <2>1, ConcatProperties
  <1>7. /\ queue' = [queue EXCEPT ![e] = @ \o new]
        /\ wire' = [wire EXCEPT ![<<d, e>>] = Tail(@)]
        /\ UNCHANGED <<file, stamps, setting>>
    BY DEF Receive
  <1> HIDE DEF new
  <1>8. /\ queue' \in [Device -> Seq(Queued(k))]
        /\ wire' \in [Ends -> Seq(Frame(k))]
    BY <1>1, <1>3, <1>6, <1>7 DEF InLedger
  <1>9. InLedger(k)'
    BY <1>1, <1>7, <1>8 DEF InLedger
  <1> QED  BY <1>7, <1>9 DEF IInv

\* What breaks is lost.
LEMMA DownKeeps ==
    ASSUME NEW k \in Ledger, wire \in [Ends -> Seq(Frame(k))], NEW broken, Down(broken)
    PROVE  wire' \in [Ends -> Seq(Frame(k))] /\ setting' = setting
  <1>1. <<>> \in Seq(Frame(k))
    OBVIOUS
  <1> QED  BY <1>1 DEF Down

LEMMA DisconnectStep ==
    ASSUME IInv, NEW d, NEW e, Disconnect(d, e)
    PROVE  IInv'
  <1>1. PICK k \in Ledger : InLedger(k)
    BY DEF IInv
  <1>2. wire' \in [Ends -> Seq(Frame(k))] /\ setting' = setting
    BY <1>1, DownKeeps DEF Disconnect, InLedger
  <1> QED  BY <1>1, <1>2 DEF IInv, InLedger, Disconnect

LEMMA CrashStep ==
    ASSUME IInv, NEW d \in Device, Crash(d)
    PROVE  IInv'
  <1>1. PICK k \in Ledger : InLedger(k)
    BY DEF IInv
  <1>2. wire' \in [Ends -> Seq(Frame(k))] /\ setting' = setting
    BY <1>1, DownKeeps DEF Crash, InLedger
  <1>3. <<>> \in Seq(Queued(k))
    OBVIOUS
  <1>4. ReconcilePurged(file[d]) \in Row(k) \cup {Gone}
    <2>1. CASE file[d] = Gone
      BY <2>1, GoneIsGone DEF ReconcilePurged, StripPurged, Gone
    <2>2. CASE file[d] \in Row(k)
      BY <2>2, RowTypes DEF ReconcilePurged
    <2> QED  BY <1>1, <2>1, <2>2 DEF InLedger
  <1>5. /\ queue' \in [Device -> Seq(Queued(k))]
        /\ file' \in [Device -> Row(k) \cup {Gone}]
    BY <1>1, <1>3, <1>4 DEF Crash, InLedger
  <1> QED  BY <1>1, <1>2, <1>5 DEF IInv, InLedger, Crash

-----------------------------------------------------------------------------
LEMMA NextHolds ==
    ASSUME Everywhere
    PROVE  IInv /\ [Next]_vars => IInv'
  <1> SUFFICES ASSUME IInv, [Next]_vars PROVE IInv'
    OBVIOUS
  <1>1. CASE UNCHANGED vars
    BY <1>1 DEF vars, IInv, InLedger
  <1>2. ASSUME NEW d \in Acting, Change(d) PROVE IInv'
    <2>1. d \in Device
      BY TreeAssumption
    <2>2. \A at : ~Create(d, at)
      BY DEF Create
    <2> QED  BY <1>2, <2>1, <2>2, EditStep, MoveStep, DeleteStep, RestoreStep, PurgeStep
             DEF Change
  <1>3. ASSUME NEW d \in Device, Write(d) \/ Crash(d) PROVE IInv'
    BY <1>3, WriteKeeps, CrashStep
  <1>4. ASSUME NEW l \in Ends, Session(l[1], l[2]) \/ Disconnect(l[1], l[2]) PROVE IInv'
    <2>1. l[1] \in Device /\ l[2] \in Device /\ <<l[1], l[2]>> \in Ends
      BY DEF Ends
    <2> QED  BY <1>4, <2>1, AnnounceStep, ReceiveStep, DisconnectStep DEF Session
  <1> QED  BY <1>1, <1>2, <1>3, <1>4 DEF Next

LEMMA IInvCompares == IInv => RowsCompare /\ file \in [Device -> File]
  <1> SUFFICES ASSUME IInv PROVE RowsCompare /\ file \in [Device -> File]
    OBVIOUS
  <1>1. PICK k \in Ledger : InLedger(k)
    BY DEF IInv
  <1>2. ASSUME NEW f \in Row(k) \cup {Gone} PROVE SoundRow(f) /\ f \in File
    <2>1. CASE f = Gone
      BY <2>1, GoneIsGone DEF SoundRow, FlagAgrees, RowHasVersions
    <2>2. CASE f \in Row(k)
      BY <2>2, RowTypes DEF SoundRow, RowHasVersions, Row
    <2> QED  BY <2>1, <2>2
  <1>3. ASSUME NEW f \in Row(k) \cup {Gone}, NEW g \in Row(k) \cup {Gone} PROVE Coherent(f, g)
    <2>1. CASE f = Gone
      BY <2>1, GoneIsGone DEF Coherent
    <2>2. CASE f \in Row(k) /\ g = Gone
      BY <2>2, GoneIsGone, RowTypes DEF Coherent, Gone, Unknown
    <2>3. CASE f \in Row(k) /\ g \in Row(k)
      <3>1. LatestAt(f) = LatestAt(g) => Latest(f).hash = Latest(g).hash
        BY <2>3 DEF Row
      <3>2. f.pathAt = g.pathAt => f.path = g.path
        BY <2>3 DEF Row
      <3>3. f.deletedAt > 0 => f.deletedAt \notin {LatestAt(g), g.restoredAt}
        BY <2>3, RowTypes DEF Row, Written
      <3> QED  BY <3>1, <3>2, <3>3 DEF Coherent
    <2> QED  BY <2>1, <2>2, <2>3
  <1>4. \A l \in Ends : l[1] \in Device /\ l[2] \in Device
    BY DEF Ends
  <1> QED  BY <1>1, <1>2, <1>3, <1>4 DEF InLedger, RowsCompare

\* Where every device has the file to begin with, the rows of neighbours can
\* be compared in every reachable state, whatever the clocks, the changes,
\* the breakdowns and the kills.
THEOREM RowsAlwaysCompare ==
    ASSUME Everywhere
    PROVE  Spec => []RowsCompare
  BY InitHolds, NextHolds, IInvCompares, PTL DEF Spec

\* With ComparableRowsAgree: in no reachable state does an exchange of
\* manifests that changes nothing leave neighbours in disagreement.
THEOREM FixpointsAgree ==
    ASSUME Everywhere
    PROVE  Spec => []FixpointAgrees
  <1>1. IInv => FixpointAgrees
    BY IInvCompares, ComparableRowsAgree
  <1> QED  BY <1>1, InitHolds, NextHolds, PTL DEF Spec

=============================================================================

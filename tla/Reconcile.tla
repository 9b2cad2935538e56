----------------------------- MODULE Reconcile -----------------------------
(***************************************************************************)
(* The pure planner of a peer session (tagsyd/src/peer: plan.rs and        *)
(* plan_purge.rs): from what this device holds about a file and what the   *)
(* peer's manifests say about it, the commands the session queues for the  *)
(* catalog writer, in order.                                               *)
(***************************************************************************)
EXTENDS FileCommands

Hashes(f) == {f.log[i].hash : i \in 1..Len(f.log)}

(***************************************************************************)
(* The manifest entry of a file: its history by hash, but only the stamp   *)
(* of its latest version.  A row without versions is skipped, and so are   *)
(* versions without a row; the purge set is announced apart.               *)
(***************************************************************************)
Entry(f) == [hashes |-> Hashes(f), hash |-> Latest(f).hash, at |-> LatestAt(f),
             path |-> f.path, pathAt |-> f.pathAt, deleted |-> f.deleted,
             deletedAt |-> f.deletedAt, restoredAt |-> f.restoredAt]

Manifest(f) == IF f.known /\ f.log # <<>> THEN {Entry(f)} ELSE {}

-----------------------------------------------------------------------------
\* A purge is a union: only a purge not yet held, or a lingering row, counts.
PlanPurge(ours) == IF ~ours.purged \/ ours.known THEN <<Purged>> ELSE <<>>

\* The peer announces a tombstone.
PlanDeletion(ours, e) ==
    IF ~ours.known
    THEN <<CatalogTombstone(e.path, e.pathAt, e.hash, e.at, e.deletedAt,
                            e.restoredAt)>>
    ELSE IF ~ours.deleted /\ e.deletedAt > AliveAt(ours)
         THEN <<Deleted(e.deletedAt)>>
         ELSE <<>>

\* Seeded mistake: a restore counts only together with a newer version.
RestoreAppliesToEdits(ours, e) ==
    /\ e.restoredAt > 0
    /\ ours.known /\ ours.deleted
    /\ e.at > ours.deletedAt

\* The peer announces a live file whose restore beats our tombstone.
RestoreApplies(ours, e) ==
    /\ e.restoredAt > 0
    /\ ours.known /\ ours.deleted
    /\ e.restoredAt > ours.deletedAt

PlanMove(ours, e) ==
    IF ours.known /\ e.pathAt > ours.pathAt
    THEN <<Moved(e.path, e.pathAt)>>
    ELSE <<>>

NewerThanOurs(ours, e) == e.at > LatestAt(ours)

\* Seeded mistake: histories that diverged are left alone.
RequestsUnlessDivergent(ours, e) ==
    \/ ours.log = <<>>
    \/ /\ ours.log # <<>>
       /\ HasLatest(ours, e.hash)
       /\ NewerThanOurs(ours, e)
       /\ ours.known /\ ours.deleted
    \/ /\ ours.log # <<>>
       /\ ~HasLatest(ours, e.hash)
       /\ IF e.hash \in Hashes(ours)
          THEN NewerThanOurs(ours, e)
          ELSE Latest(ours).hash \in e.hashes

\* Their latest version is wanted together with its bytes: the file is
\* unknown; or they have what we have latest and we lack what they have
\* latest, whatever the stamps; or it is newer and not the bytes we hold.
Requests(ours, e) ==
    \/ ours.log = <<>>
    \/ /\ ours.log # <<>>
       /\ HasLatest(ours, e.hash)
       /\ NewerThanOurs(ours, e)
       /\ ours.known /\ ours.deleted
    \/ /\ ours.log # <<>>
       /\ ~HasLatest(ours, e.hash)
       /\ \/ NewerThanOurs(ours, e)
          \/ e.hash \notin Hashes(ours) /\ Latest(ours).hash \in e.hashes

\* The bytes we hold, recorded again with a newer stamp; skipped when our
\* versions have no row to take the path from.
Records(ours, e) ==
    /\ HasLatest(ours, e.hash)
    /\ NewerThanOurs(ours, e)
    /\ ours.known /\ ~ours.deleted

PlanContent(ours, e) ==
    IF Requests(ours, e)
    THEN <<CatalogVersion(IF ours.known THEN ours.path ELSE e.path, e.pathAt,
                          e.hash, e.at,
                          IF ours.known THEN "Change" ELSE "Create")>>
    ELSE IF Records(ours, e)
         THEN <<CatalogVersion(ours.path, 0, e.hash, e.at, "none")>>
         ELSE <<>>

PlanFile(ours, e) ==
    IF e.deleted
    THEN PlanDeletion(ours, e)
    ELSE IF RestoreApplies(ours, e)
         THEN <<Restored(e.hash, e.restoredAt)>>
         ELSE PlanMove(ours, e) \o PlanContent(ours, e)

-----------------------------------------------------------------------------
\* What the writer makes of one planned command.
Handle(f, c) ==
    CASE c.kind = "CatalogFile"      -> HandleCatalogFile(f, c)
      [] c.kind = "CatalogTombstone" -> HandleCatalogTombstone(f, c)
      [] OTHER                       -> ApplyChange(f, c)

-----------------------------------------------------------------------------
(***************************************************************************)
(* What an exchange of manifests between two devices is for.               *)
(***************************************************************************)

Plan(ours, theirs) ==
    (IF theirs.purged THEN PlanPurge(ours) ELSE <<>>)
    \o (IF Manifest(theirs) = {} THEN <<>> ELSE PlanFile(ours, Entry(theirs)))

\* Nothing the peer announces changes what we hold.
Absorbs(ours, theirs) ==
    \A i \in 1..Len(Plan(ours, theirs)) :
        Handle(ours, Plan(ours, theirs)[i]).file = ours

\* A row whose flag can be trusted, with its versions, all of them stamped.
SoundRow(f) == /\ FlagAgrees(f)
               /\ RowHasVersions(f)
               /\ f.purged => ~f.known
               /\ \A i \in 1..Len(f.log) : f.log[i].at > 0

\* A stamp identifies a change: what two devices hold under one stamp came
\* from one device, and a delete never ties with an edit or a restore.
Coherent(f, g) ==
    /\ f.log # <<>> /\ g.log # <<>> /\ LatestAt(f) = LatestAt(g)
           => Latest(f).hash = Latest(g).hash
    /\ f.known /\ g.known /\ f.pathAt = g.pathAt => f.path = g.path
    /\ f.deletedAt > 0 => f.deletedAt \notin {LatestAt(g), g.restoredAt}

\* What a user sees of the file is the same: that it was purged, that it is
\* there, where it is and what is in it.
Agree(f, g) ==
    /\ f.purged = g.purged
    /\ Live(f) = Live(g)
    /\ Live(f) => /\ f.path = g.path
                  /\ Latest(f).hash = Latest(g).hash
=============================================================================

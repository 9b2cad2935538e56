--------------------------- MODULE CatalogWriter ---------------------------
(***************************************************************************)
(* The catalog writer of one device and one file, in an open environment:  *)
(* clients, sync directories and peers hand it any change with any stamp,  *)
(* in any order, as often as they like, and the process may be killed      *)
(* between two database writes of one handler (tagsyd/src/catalog).        *)
(***************************************************************************)
EXTENDS Reconcile

CONSTANTS
    MaxAt,    \* the largest stamp
    MaxLog    \* the longest version log explored

ASSUME BoundsAssumption == MaxAt \in Nat /\ MaxLog \in Nat

VARIABLES
    file,    \* what the catalog holds (durable)
    probes,  \* user restores waiting for their availability probe
    exempt   \* history: why the clocks of the row may be wrong, if they may:
             \* "lag", a local change was recorded under an older stamp than
             \* the version it replaced; "crash", a handler was cut short

vars == <<file, probes, exempt>>

Stamp == 1..MaxAt

Probe == [hash : Content, at : Nat]

(***************************************************************************)
(* The changes and commands the writer may be handed.  A tombstone carries *)
(* a delete that won where it was recorded; whether a version is wanted    *)
(* with its bytes makes no difference to the catalog.                      *)
(***************************************************************************)
Changes ==
         {Added(p, pathAt, h, at) : p \in Path, pathAt \in Stamp,
                                    h \in Content, at \in Stamp}
    \cup {Changed(h, at) : h \in Content, at \in Stamp}
    \cup {Moved(p, at) : p \in Path, at \in Stamp}
    \cup {Deleted(at) : at \in Stamp}
    \cup {Restored(h, at) : h \in Content, at \in Stamp}
    \cup {Purged}

Reconciliations ==
         {CatalogVersion(p, pathAt, h, at, "none") :
             p \in Path, pathAt \in Stamp, h \in Content, at \in Stamp}
    \cup {c \in {CatalogTombstone(p, pathAt, h, at, d, r) :
                     p \in Path, pathAt \in Stamp, h \in Content, at \in Stamp,
                     d \in Stamp, r \in 0..MaxAt} :
             c.deletedAt >= Later(c.at, c.restoredAt)}

Commands == Changes \cup Reconciliations

Init == /\ file = Unknown
        /\ probes = {}
        /\ exempt = {}

-----------------------------------------------------------------------------
\* The row of a purged file is gone, and with it what was wrong with it.
Become(f, why) == /\ Len(f.log) <= MaxLog
                  /\ file' = f
                  /\ exempt' = IF f.purged THEN {} ELSE exempt \cup why

\* A change or a reconciliation command, taken from the writer's queue.
Take(c) == /\ Become(Handle(file, c).file, {})
           /\ UNCHANGED probes

\* A client uploads a new file, or a sync directory reports one.
Create(p, pathAt, h, at) ==
    /\ file = Unknown
    /\ Become(LocalAdd(file, p, pathAt, h, at).file, {})
    /\ UNCHANGED probes

\* New content from a client or a sync directory.  The stamp was taken when
\* the change was seen; the version log may have moved past it since.
Lag(at) == IF file.known /\ at < LatestAt(file) THEN {"lag"} ELSE {}

Edit(h, at) ==
    /\ Become(LocalEdit(file, h, at).file, Lag(at))
    /\ UNCHANGED probes

\* A user restores the deleted file: the hash and the stamp are taken now,
\* the bytes are looked for while the writer goes on.
StartRestore(at) ==
    /\ file.known /\ file.deleted /\ file.log # <<>>
    /\ probes = {}
    /\ probes' = {[hash |-> Latest(file).hash, at |-> at]}
    /\ UNCHANGED <<file, exempt>>

FailRestore(p) ==
    /\ p \in probes
    /\ probes' = probes \ {p}
    /\ UNCHANGED <<file, exempt>>

FinishRestore(p) ==
    /\ p \in probes
    /\ probes' = probes \ {p}
    /\ Become(ApplyProbedRestore(file, p.hash, p.at).file, {})

-----------------------------------------------------------------------------
(***************************************************************************)
(* A handler is up to two transactions.  What the catalog holds when the   *)
(* process dies between them.                                              *)
(***************************************************************************)

\* The row is there, its first version is not; or the version is recorded
\* and does not yet revive the file.
HalfVersion(f, path, pathAt, hash, at) ==
    IF f.known THEN RecordVersion(f, hash, at) ELSE AddFile(f, path, pathAt)

\* The restore clock has advanced, the flag is not yet cleared.
HalfRestore(f, at) == [f EXCEPT !.restoredAt = Later(@, at)]

HalfDone(f, c) ==
    CASE c.kind \in {"FileMetadataAdded", "CatalogFile"} ->
             HalfVersion(f, c.path, c.pathAt, c.hash, c.at)
      [] c.kind = "FileMetadataChanged" -> RecordVersion(f, c.hash, c.at)
      [] c.kind = "FileRestored"        -> HalfRestore(f, c.at)
      [] c.kind = "FilePurged"          -> RecordPurge(f)

TwoWrites == {"FileMetadataAdded", "CatalogFile", "FileMetadataChanged",
              "FileRestored", "FilePurged"}

\* Started again, with the purge set enforced before anything else: probes
\* and queues are gone.
Recover(half, whole, why) ==
    LET healed == ReconcilePurged(half)
        torn   == IF healed = whole THEN {} ELSE {"crash"}
    IN  /\ Become(healed, why \cup torn)
        /\ probes' = {}

CrashTaking(c) ==
    LET whole == Handle(file, c).file
    IN  /\ c.kind \in TwoWrites
        /\ whole # file
        /\ Recover(HalfDone(file, c), whole, {})

CrashCreating(p, pathAt, h, at) ==
    /\ file = Unknown
    /\ Recover(AddFile(file, p, pathAt),
               LocalAdd(file, p, pathAt, h, at).file, {})

CrashEditing(h, at) ==
    Recover(RecordVersion(file, h, at), LocalEdit(file, h, at).file, Lag(at))

CrashRestoring(p) ==
    /\ p \in probes
    /\ file.known
    /\ Recover(HalfRestore(file, p.at),
               ApplyProbedRestore(file, p.hash, p.at).file, {})

Restart == /\ Become(ReconcilePurged(file), {})
           /\ probes' = {}

Next == \/ \E c \in Commands : Take(c)
        \/ \E p \in Path, pathAt \in Stamp, h \in Content, at \in Stamp :
               Create(p, pathAt, h, at)
        \/ \E h \in Content, at \in Stamp : Edit(h, at)
        \/ \E at \in Stamp : StartRestore(at)
        \/ \E p \in probes : FailRestore(p) \/ FinishRestore(p)
        \/ \E c \in Commands : CrashTaking(c)
        \/ \E p \in Path, pathAt \in Stamp, h \in Content, at \in Stamp :
               CrashCreating(p, pathAt, h, at)
        \/ \E h \in Content, at \in Stamp : CrashEditing(h, at)
        \/ \E p \in probes : CrashRestoring(p)
        \/ Restart

Spec == Init /\ [][Next]_vars

-----------------------------------------------------------------------------
(***************************************************************************)
(* Properties.                                                             *)
(***************************************************************************)

TypeOK == /\ file \in File
          /\ probes \in SUBSET Probe
          /\ exempt \in SUBSET {"lag", "crash"}

\* The cached flag of a row is the three-way comparison of its clocks
\* (store/types.rs, DeletionState), whatever was delivered in whatever order,
\* unless one of the two known ways out of it was taken.
FlagCachesClocks == exempt = {} => FlagAgrees(file)

\* A purged id has no row: not after any change that comes late, not after
\* any plan made before the purge, not after a crash in the middle of it
\* (catalog/files.rs, the guard of apply_change; store/purged.rs).
PurgedHasNoRow == file.purged => ~file.known

\* What was purged stays purged, whatever comes (store/purged.rs); the register
\* below promises it too.
PurgeIsForever == [][file.purged => file'.purged]_vars

\* Only a local change stamped in the past replaces the latest version of a
\* known file by an older one (catalog/files.rs, supersedes_latest).
LatestNeverGoesBack ==
    [][exempt' = {} /\ file.known /\ file'.known
           => LatestAt(file') >= LatestAt(file)]_vars

\* The abstract specification of the row (LWWFile).
Register == INSTANCE LWWFile WITH
    presence  <- IF file.purged THEN "purged"
                 ELSE IF ~file.known THEN "unknown"
                 ELSE IF file.deleted THEN "deleted" ELSE "live",
    decidedAt <- IF file.known THEN Later(AliveAt(file), file.deletedAt) ELSE 0,
    path      <- file.path,
    pathAt    <- file.pathAt,
    lapsed    <- exempt # {}

ImplementsRegister == Register!Spec

(***************************************************************************)
(* What comments in the code say and the code does not keep.               *)
(***************************************************************************)

\* store/types.rs: the flag is exactly the three-way comparison, also for a
\* device that has recorded local changes late.
FlagSurvivesLag == exempt \subseteq {"lag"} => FlagAgrees(file)

\* The same, also for a device that was killed in the middle of a handler
\* and holds a version of the file.
FlagSurvivesCrash ==
    exempt \subseteq {"crash"} /\ file.log # <<>> => FlagAgrees(file)

\* store/purged.rs: a purged id never carries catalog rows, versions included.
PurgedHasNothing == file.purged => ~file.known /\ file.log = <<>>

\* catalog/mod.rs: a restore changes the catalog only once the bytes it
\* brings back, those of the latest version, are known to be available.
RestoresProbedBytes ==
    [][\A p \in probes \ probes' :
           ~Live(file) /\ Live(file') => HasLatest(file', p.hash)]_vars
=============================================================================

-------------------------- MODULE MaintenanceProofs --------------------------
(***************************************************************************)
(* For any devices, links, files and settings: the commands that remove    *)
(* duplicates and purge never take the last copy of a content (CopyKept).  *)
(*                                                                         *)
(* A device removes a file only when it has seen an older one (a lower id) *)
(* with the same content, or when the content was given up.  The induction *)
(* says this of what a device has and of what is on its way to it: before  *)
(* a removal arrives, so does the creation of that older file, because a   *)
(* device forwards everything in order and forwards a creation to whoever  *)
(* did not send it.                                                        *)
(*                                                                         *)
(* While users wait for commands and commands for users, what all devices  *)
(* end up showing bears every tag put on a content (TagsKept): its tags    *)
(* are on a file that stays, or on their way to one, whoever removes which *)
(* duplicate of it.  That is proved of the views of the devices alone, and *)
(* carried over to the catalogs by the dates of the changes.               *)
(***************************************************************************)
EXTENDS Maintenance, FiniteSetTheorems, TLAPS

ChangeOf(f) ==
    [kind : {"FileMetadataAdded"}, path : Path, pathAt : Nat, hash : {Hash[f]}, at : Nat]
        \cup [kind : {"FileMoved"}, path : Path, at : Nat]
        \cup [kind : {"FileDeleted"}, at : Nat]
        \cup [kind : {"FileRestored"}, hash : {Hash[f]}, at : Nat]
        \cup [kind : {"FilePurged"}]
        \cup [kind : {"FileTagged", "FileUntagged"}, tag : Tag, at : Nat]

FrameSet == UNION {[file : {f}, change : ChangeOf(f), tags : SUBSET Tag] : f \in FileId}

Adds(frame) == frame.change.kind = "FileMetadataAdded"

Removes(frame) == frame.change.kind \in {"FileDeleted", "FilePurged"}

\* Anything else that is done to a file.
Touches(frame) == Removes(frame) \/ frame.change.kind \in {"FileMoved", "FileRestored"}

\* A row has versions, all of them with the content of the file.
RowOK(f, row) == /\ row \in File
                 /\ row.known => row.log # <<>>
                 /\ \A i \in 1 .. Len(row.log) : row.log[i].hash = Hash[f]

\* F: the rows of all devices.
FilesOK(F) == /\ F \in [Device -> [FileId -> File]]
              /\ \A d \in Device, f \in FileId : RowOK(f, F[d][f])

SeenRow(row) == row.known \/ row.purged

\* Who has seen which file.
Saw(F) == {r \in Device \X FileId : SeenRow(F[r[1]][r[2]])}

Older(g, f) == g < f /\ Hash[g] = Hash[f]

Lower(S, d, f) == \E g \in FileId : Older(g, f) /\ <<d, g>> \in S

\* What is gone was given up or has an older copy.
RowsKept(F, L) == \A d \in Device, f \in FileId :
                      <<d, f>> \in Saw(F) /\ ~Live(F[d][f]) =>
                          Hash[f] \in L \/ Lower(Saw(F), d, f)

\* Who has seen what after frame has come to d.
Learns(S, d, frame) == S \cup (IF Adds(frame) THEN {<<d, frame.file>>} ELSE {})

\* What the writer makes of a frame.
Result(F, d, frame) == IF OfTag(frame.change)
                       THEN Relayed(F[d][frame.file], frame.change)
                       ELSE ApplyChange(F[d][frame.file], frame.change)

RowsAfter(F, d, frame) ==
    [F EXCEPT ![d] = [@ EXCEPT ![frame.file] = Result(F, d, frame).file]]

WiresAfter(F, w, d, frame, from) ==
    Forwarded(w, d, IF Result(F, d, frame).announce = {} THEN <<>> ELSE <<frame>>, from)

\* The receiver has seen g, or its creation is among the first i - 1 frames.
Precedes(w, S, l, i, g) ==
    \/ <<l[2], g>> \in S
    \/ \E j \in 1 .. (i - 1) : j \in 1 .. Len(w[l]) /\ Adds(w[l][j]) /\ w[l][j].file = g

\* w: the wires; S: who has seen which file; A: who has announced which file;
\* L: the contents that were given up.
CreationsOK(w, S) ==
    \A l \in Ends : \A i \in 1 .. Len(w[l]) : Adds(w[l][i]) => <<l[1], w[l][i].file>> \in S

TouchesOK(w, S) ==
    \A l \in Ends : \A i \in 1 .. Len(w[l]) :
        Touches(w[l][i]) => Precedes(w, S, l, i, w[l][i].file)

RemovalsOK(w, S, L) ==
    \A l \in Ends : \A i \in 1 .. Len(w[l]) :
        Removes(w[l][i]) =>
            \/ Hash[w[l][i].file] \in L
            \/ \E g \in FileId : Older(g, w[l][i].file) /\ Precedes(w, S, l, i, g)

AnnouncedOK(w, S, A) ==
    \A l \in Ends : \A g \in FileId :
        <<l[1], g>> \in A => Precedes(w, S, l, Len(w[l]) + 1, g)

WireOK(w, S, A, L) == /\ w \in [Ends -> Seq(FrameSet)]
                      /\ CreationsOK(w, S) /\ TouchesOK(w, S)
                      /\ RemovalsOK(w, S, L) /\ AnnouncedOK(w, S, A)

\* What is left of a command removes only what may be removed.
TodoOK(T, S, L) ==
    /\ T \in [Device -> SUBSET FrameSet]
    /\ \A d \in Device : \A frame \in T[d] :
           \/ OfTag(frame.change)
           \/ /\ Removes(frame) /\ <<d, frame.file>> \in S
              /\ Hash[frame.file] \in L \/ Lower(S, d, frame.file)

QueuedOK(Q) == /\ Q \in [Device -> SUBSET FrameSet]
               /\ \A d \in Device : \A frame \in Q[d] : OfTag(frame.change)

Core(F, w, T, Q, L) == /\ FilesOK(F) /\ RowsKept(F, L)
                       /\ WireOK(w, Saw(F), Saw(F), L)
                       /\ TodoOK(T, Saw(F), L) /\ QueuedOK(Q)

Patient == "PurgeBroken" \in setting.resting

IInv == /\ setting \in Setting /\ now \in Nat
        /\ Patient => Core(file, wire, todo, queued, lost)

-----------------------------------------------------------------------------
(***************************************************************************)
(* One row.                                                                *)
(***************************************************************************)
\* Stamps compare to stamps.
LEMMA LaterOK == \A s, t \in Nat : Later(s, t) \in Nat
BY DEF Later

\* A recorded version keeps the content of the log, and only extends it.
LEMMA RecordedOK ==
    ASSUME NEW f \in FileId, NEW row, RowOK(f, row), NEW at \in Nat
    PROVE  LET new == RecordVersion(row, Hash[f], at)
           IN  /\ RowOK(f, new) /\ new.log # <<>>
               /\ new.known = row.known /\ new.deleted = row.deleted
               /\ new.purged = row.purged
<1> DEFINE v == [hash |-> Hash[f], at |-> at]
           log == Append(row.log, v)
           new == RecordVersion(row, Hash[f], at)
<1> HIDE DEF v
<1>1. v \in Version
  BY MaintenanceAssumption DEF MaintenanceAssumption, Version, v
<1>2. row.log \in Seq(Version)
  BY DEF RowOK, File
<1>3. /\ log \in Seq(Version) /\ Len(log) = Len(row.log) + 1 /\ log # <<>>
      /\ \A i \in 1 .. Len(log) : log[i] = IF i <= Len(row.log) THEN row.log[i] ELSE v
  <2>1. PICK old \in Seq(Version) : old = row.log
    BY <1>2
  <2>2. log = Append(old, v)
    BY <2>1
  <2>3. /\ log \in Seq(Version) /\ Len(log) = Len(old) + 1 /\ log # <<>>
        /\ \A i \in 1 .. Len(log) : log[i] = IF i <= Len(old) THEN old[i] ELSE v
    BY ONLY <1>1, <2>2, old \in Seq(Version)
  <2> QED
    BY <2>1, <2>3
<1>4. \A i \in 1 .. Len(log) : log[i].hash = Hash[f]
  BY <1>2, <1>3 DEF RowOK, v
<1>5. new = [row EXCEPT !.log = log]
  BY DEF RecordVersion, v
<1>6. /\ new \in File /\ new.log = log
      /\ new.known = row.known /\ new.deleted = row.deleted
      /\ new.purged = row.purged
  BY <1>3, <1>5 DEF RowOK, File
<1> QED
  BY <1>3, <1>4, <1>6 DEF RowOK

\* So does a version appended, which may revive the file and never deletes it.
LEMMA AppendedOK ==
    ASSUME NEW f \in FileId, NEW row, RowOK(f, row), NEW at \in Nat
    PROVE  LET new == AppendVersion(row, Hash[f], at)
           IN  /\ RowOK(f, new)
               /\ new.known = row.known /\ new.purged = row.purged
               /\ new.deleted => row.deleted
<1> DEFINE mid == RecordVersion(row, Hash[f], at)
<1>1. /\ RowOK(f, mid) /\ mid.known = row.known /\ mid.deleted = row.deleted
      /\ mid.purged = row.purged
  BY RecordedOK
<1>2. /\ RestoreFile(mid) \in File /\ RestoreFile(mid).log = mid.log
      /\ RestoreFile(mid).known = mid.known /\ RestoreFile(mid).purged = mid.purged
      /\ RestoreFile(mid).deleted => mid.deleted
  BY <1>1 DEF RestoreFile, RowOK, File
<1> QED
  BY <1>1, <1>2 DEF AppendVersion, RowOK

\* A row added, over whatever versions there are, is live once it has one.
LEMMA AddedOK ==
    ASSUME NEW f \in FileId, NEW row, RowOK(f, row), NEW at \in Nat,
           NEW p \in Path, NEW pathAt \in Nat
    PROVE  LET new == AppendVersion(AddFile(row, p, pathAt), Hash[f], at)
           IN  RowOK(f, new) /\ Live(new) /\ new.purged = row.purged
<1>1. PICK mid : mid = AddFile(row, p, pathAt)
  OBVIOUS
<1>2. /\ mid \in File /\ mid.log = row.log /\ mid.known /\ ~mid.deleted
      /\ mid.purged = row.purged
  BY <1>1 DEF AddFile, RowOK, File
<1>3. PICK base : base = [mid EXCEPT !.known = FALSE]
  OBVIOUS
<1>4. /\ base \in File /\ ~base.known /\ base.log = mid.log /\ ~base.deleted
      /\ base.purged = row.purged /\ mid = [base EXCEPT !.known = TRUE]
  BY <1>2, <1>3 DEF File
<1>5. RowOK(f, base)
  BY <1>2, <1>4 DEF RowOK
<1>6. PICK low : low = RecordVersion(base, Hash[f], at)
  OBVIOUS
<1>7. RowOK(f, low) /\ low.log # <<>> /\ ~low.deleted /\ low.purged = row.purged
  BY <1>4, <1>5, <1>6, RecordedOK
<1>8. PICK rec : rec = RecordVersion(mid, Hash[f], at)
  OBVIOUS
<1>9. rec = [low EXCEPT !.known = TRUE]
  BY <1>4, <1>6, <1>8 DEF RecordVersion, File
<1>10. RowOK(f, rec) /\ rec.known /\ ~rec.deleted /\ rec.purged = row.purged
  BY <1>7, <1>9 DEF RowOK, File
<1>11. RestoreFile(rec) = rec
  BY <1>10 DEF RestoreFile
<1> QED
  BY <1>1, <1>8, <1>10, <1>11 DEF AppendVersion, Live

\* What a change makes of a row: a file once seen stays seen, it is seen first
\* by its creation or its purge, and only a removal takes a live one away.
LEMMA RowAfter ==
    ASSUME NEW f \in FileId, NEW row, RowOK(f, row),
           NEW c \in ChangeOf(f), ~OfTag(c)
    PROVE  LET o == ApplyChange(row, c)
           IN  /\ RowOK(f, o.file)
               /\ SeenRow(row) => SeenRow(o.file)
               /\ SeenRow(o.file) => SeenRow(row) \/ c.kind \in {"FileMetadataAdded", "FilePurged"}
               /\ c.kind = "FileMetadataAdded" => SeenRow(o.file)
               /\ c.kind = "FileMetadataAdded" /\ ~SeenRow(row) =>
                      Live(o.file) /\ o.announce # {}
               /\ Live(row) => Live(o.file) \/ c.kind \in {"FileDeleted", "FilePurged"}
<1>1. CASE row.purged /\ c.kind # "FilePurged"
  BY <1>1 DEF ApplyChange, Dropped, Outcome, SeenRow
<1>2. CASE ~row.purged /\ c.kind = "FileMetadataAdded"
  <2>1. c.path \in Path /\ c.pathAt \in Nat /\ c.hash = Hash[f] /\ c.at \in Nat
    BY <1>2 DEF ChangeOf
  <2>2. ApplyChange(row, c) = ApplyAdded(row, c)
    BY <1>2 DEF ApplyChange
  <2>3. CASE row.known /\ ~SupersedesLatest(row, c.at)
    BY <1>2, <2>2, <2>3 DEF ApplyAdded, Relayed, Outcome, SeenRow
  <2>4. CASE row.known /\ SupersedesLatest(row, c.at)
    <3>1. /\ ApplyChange(row, c).file = AppendVersion(row, Hash[f], c.at)
          /\ ApplyChange(row, c).announce = {c}
      BY <2>1, <2>2, <2>4 DEF ApplyAdded, Outcome
    <3> QED
      BY <1>2, <2>1, <2>4, <3>1, AppendedOK DEF SeenRow, Live
  <2>5. CASE ~row.known
    <3>1. /\ ApplyChange(row, c).file = AppendVersion(AddFile(row, c.path, c.pathAt), Hash[f], c.at)
          /\ ApplyChange(row, c).announce = {c}
      BY <2>1, <2>2, <2>5 DEF ApplyAdded, Outcome
    <3> QED
      BY <1>2, <2>1, <2>5, <3>1, AddedOK DEF SeenRow, Live
  <2> QED
    BY <2>3, <2>4, <2>5
<1>3. CASE ~row.purged /\ c.kind = "FileMoved"
  <2>1. c.path \in Path /\ c.at \in Nat
    BY <1>3 DEF ChangeOf
  <2>2. ApplyChange(row, c) = ApplyMoved(row, c)
    BY <1>3 DEF ApplyChange
  <2>3. ApplyChange(row, c).file \in {row, [row EXCEPT !.path = c.path, !.pathAt = c.at]}
    BY <2>2 DEF ApplyMoved, Outcome, Dropped, UpdatePath
  <2>4. RowOK(f, [row EXCEPT !.path = c.path, !.pathAt = c.at])
    BY <2>1 DEF RowOK, File
  <2>5. /\ [row EXCEPT !.path = c.path, !.pathAt = c.at].known = row.known
        /\ [row EXCEPT !.path = c.path, !.pathAt = c.at].purged = row.purged
        /\ [row EXCEPT !.path = c.path, !.pathAt = c.at].deleted = row.deleted
    BY DEF RowOK, File
  <2> QED
    BY <1>3, <2>3, <2>4, <2>5 DEF SeenRow, Live
<1>4. CASE ~row.purged /\ c.kind = "FileDeleted"
  <2>1. c.at \in Nat
    BY <1>4 DEF ChangeOf
  <2>2. ApplyChange(row, c) = ApplyDeleted(row, c)
    BY <1>4 DEF ApplyChange
  <2>3. ApplyChange(row, c).file \in {row, [row EXCEPT !.deleted = TRUE, !.deletedAt = c.at]}
    BY <2>2 DEF ApplyDeleted, Outcome, Dropped, RemoveFile
  <2>4. RowOK(f, [row EXCEPT !.deleted = TRUE, !.deletedAt = c.at])
    BY <2>1 DEF RowOK, File
  <2>5. /\ [row EXCEPT !.deleted = TRUE, !.deletedAt = c.at].known = row.known
        /\ [row EXCEPT !.deleted = TRUE, !.deletedAt = c.at].purged = row.purged
    BY DEF RowOK, File
  <2> QED
    BY <1>4, <2>3, <2>4, <2>5 DEF SeenRow
<1>5. CASE ~row.purged /\ c.kind = "FileRestored"
  <2>1. c.at \in Nat
    BY <1>5 DEF ChangeOf
  <2>2. ApplyChange(row, c) = ApplyRestored(row, c)
    BY <1>5 DEF ApplyChange
  <2>3. Later(row.restoredAt, c.at) \in Nat
    BY <2>1, LaterOK DEF RowOK, File
  <2>4. /\ ApplyRestore(row, c.at) \in File
        /\ ApplyRestore(row, c.at).log = row.log
        /\ ApplyRestore(row, c.at).known = row.known
        /\ ApplyRestore(row, c.at).purged = row.purged
        /\ ApplyRestore(row, c.at).deleted => row.deleted
    BY <2>3 DEF ApplyRestore, RowOK, File
  <2>5. ApplyChange(row, c).file \in {row, ApplyRestore(row, c.at)}
    BY <2>2 DEF ApplyRestored, Relayed, Outcome
  <2> QED
    BY <1>5, <2>4, <2>5 DEF RowOK, SeenRow, Live
<1>6. CASE c.kind = "FilePurged"
  <2>1. ApplyChange(row, c) = ApplyPurged(row, c)
    BY <1>6 DEF ApplyChange
  <2>2. CASE row.purged /\ ~row.known
    BY <1>6, <2>1, <2>2 DEF ApplyPurged, Dropped, Outcome, SeenRow
  <2>3. CASE ~(row.purged /\ ~row.known)
    <3>1. ApplyChange(row, c).file = StripPurged(RecordPurge(row))
      BY <2>1, <2>3 DEF ApplyPurged, Outcome
    <3>2. RecordPurge(row).purged = TRUE
      BY DEF RecordPurge, RowOK, File
    <3>3. PICK gone : gone = StripPurged(RecordPurge(row))
      OBVIOUS
    <3>4. <<>> \in Seq(Version)
      OBVIOUS
    <3>5. Unknown \in File /\ Unknown.log = <<>> /\ ~Unknown.known
      BY <3>4 DEF Unknown, File
    <3>6. gone = [Unknown EXCEPT !.purged = TRUE]
      BY <3>2, <3>3 DEF StripPurged
    <3>7. gone \in File /\ gone.log = <<>> /\ ~gone.known /\ gone.purged
      BY <3>5, <3>6 DEF File
    <3> QED
      BY <1>6, <3>1, <3>3, <3>7 DEF RowOK, SeenRow
  <2> QED
    BY <2>2, <2>3
<1> QED
  BY <1>1, <1>2, <1>3, <1>4, <1>5, <1>6 DEF ChangeOf, OfTag

-----------------------------------------------------------------------------
(***************************************************************************)
(* The wires.                                                              *)
(***************************************************************************)
\* A link joins two devices.
LEMMA EndsDistinct ==
    ASSUME NEW l \in Ends
    PROVE  l[1] \in Device /\ l[2] \in Device /\ l = <<l[1], l[2]>> /\ l[1] # l[2]
<1>1. l \in Device \X Device /\ {l[1], l[2]} \in Tree
  BY DEF Ends
<1>2. Cardinality({l[1], l[2]}) = 2
  BY <1>1, MaintenanceAssumption DEF MaintenanceAssumption
<1>3. Cardinality({l[1]}) = 1
  BY FS_Singleton
<1>4. ASSUME l[1] = l[2] PROVE FALSE
  BY <1>2, <1>3, <1>4
<1> QED
  BY <1>1, <1>4

\* Who has seen more still sees, and what precedes i precedes what comes after.
LEMMA PrecedesMonotone ==
    ASSUME NEW w, NEW S, NEW T, S \subseteq T, NEW l, NEW i \in Nat, NEW j \in Nat, i <= j,
           NEW g, Precedes(w, S, l, i, g)
    PROVE  Precedes(w, T, l, j, g)
BY DEF Precedes

\* More contents given up, more files seen.
LEMMA WireMonotone ==
    ASSUME NEW w, NEW S, NEW T, S \subseteq T, NEW A, NEW L, NEW M, L \subseteq M,
           WireOK(w, S, A, L)
    PROVE  WireOK(w, T, A, M)
<1>1. \A l \in Ends : Len(w[l]) \in Nat
  BY DEF WireOK
<1>2. CreationsOK(w, T)
  BY DEF WireOK, CreationsOK
<1>3. TouchesOK(w, T)
  BY <1>1, PrecedesMonotone DEF WireOK, TouchesOK
<1>4. RemovalsOK(w, T, M)
  <2> SUFFICES ASSUME NEW l \in Ends, NEW i \in 1 .. Len(w[l]), Removes(w[l][i]),
                      Hash[w[l][i].file] \notin M
               PROVE  \E g \in FileId : Older(g, w[l][i].file) /\ Precedes(w, T, l, i, g)
    BY DEF RemovalsOK
  <2>1. PICK g \in FileId : Older(g, w[l][i].file) /\ Precedes(w, S, l, i, g)
    BY DEF WireOK, RemovalsOK
  <2>2. Precedes(w, T, l, i, g)
    BY <1>1, <2>1, PrecedesMonotone
  <2> QED
    BY <2>1, <2>2
<1>5. AnnouncedOK(w, T, A)
  BY <1>1, PrecedesMonotone DEF WireOK, AnnouncedOK
<1> QED
  BY <1>2, <1>3, <1>4, <1>5 DEF WireOK

\* When the first frame is taken, what it creates is seen.
LEMMA Popped ==
    ASSUME NEW w, NEW S, NEW A, NEW L, WireOK(w, S, A, L),
           NEW k \in Ends, w[k] # <<>>
    PROVE  WireOK([w EXCEPT ![k] = Tail(@)], Learns(S, k[2], Head(w[k])), A, L)
<1> SUFFICES ASSUME NEW v, v = [w EXCEPT ![k] = Tail(@)],
                    NEW T, T = Learns(S, k[2], Head(w[k]))
             PROVE  WireOK(v, T, A, L)
  OBVIOUS
<1>0. T = S \cup (IF Adds(Head(w[k])) THEN {<<k[2], Head(w[k]).file>>} ELSE {})
  BY DEF Learns
<1>1. w[k] \in Seq(FrameSet) /\ Head(w[k]) = w[k][1] /\ 1 \in 1 .. Len(w[k])
  BY DEF WireOK
<1>2. /\ v \in [Ends -> Seq(FrameSet)]
      /\ \A l \in Ends \ {k} : v[l] = w[l]
      /\ v[k] = Tail(w[k])
  BY <1>1 DEF WireOK
<1>3. /\ Len(v[k]) = Len(w[k]) - 1
      /\ \A i \in 1 .. Len(v[k]) : i + 1 \in 1 .. Len(w[k]) /\ v[k][i] = w[k][i + 1]
  BY <1>1, <1>2
<1>4. \A l \in Ends : Len(w[l]) \in Nat /\ Len(v[l]) \in Nat
  BY <1>2 DEF WireOK
<1>5. ASSUME NEW l \in Ends, l # k, NEW i \in Nat, NEW g, Precedes(w, S, l, i, g)
      PROVE  Precedes(v, T, l, i, g)
  BY <1>0, <1>2, <1>5 DEF Precedes
<1>6. ASSUME NEW i \in Nat \ {0}, NEW g, Precedes(w, S, k, i + 1, g)
      PROVE  Precedes(v, T, k, i, g)
  <2>1. CASE <<k[2], g>> \in S
    BY <1>0, <2>1 DEF Precedes
  <2>2. CASE \E j \in 1 .. i : j \in 1 .. Len(w[k]) /\ Adds(w[k][j]) /\ w[k][j].file = g
    <3>1. PICK j \in 1 .. i : j \in 1 .. Len(w[k]) /\ Adds(w[k][j]) /\ w[k][j].file = g
      BY <2>2
    <3>2. CASE j = 1
      BY <1>0, <1>1, <3>1, <3>2 DEF Precedes
    <3>3. CASE j # 1
      <4>1. j - 1 \in 1 .. (i - 1) /\ j - 1 \in 1 .. Len(v[k])
        BY <1>3, <1>4, <3>1, <3>3
      <4>2. v[k][j - 1] = w[k][j]
        BY <1>3, <4>1
      <4> QED
        BY <3>1, <4>1, <4>2 DEF Precedes
    <3> QED
      BY <3>2, <3>3
  <2> QED
    BY <1>6, <2>1, <2>2 DEF Precedes
<1>7. CreationsOK(v, T)
  BY <1>0, <1>2, <1>3 DEF WireOK, CreationsOK
<1>8. TouchesOK(v, T)
  <2> SUFFICES ASSUME NEW l \in Ends, NEW i \in 1 .. Len(v[l]), Touches(v[l][i])
               PROVE  Precedes(v, T, l, i, v[l][i].file)
    BY DEF TouchesOK
  <2>0. i \in Nat \ {0}
    BY <1>4
  <2>1. CASE l # k
    <3>1. i \in 1 .. Len(w[l]) /\ v[l][i] = w[l][i]
      BY <1>2, <2>1
    <3>2. Precedes(w, S, l, i, w[l][i].file)
      BY <3>1 DEF WireOK, TouchesOK
    <3> QED
      BY <1>5, <2>0, <2>1, <3>1, <3>2
  <2>2. CASE l = k
    <3>1. i + 1 \in 1 .. Len(w[k]) /\ v[k][i] = w[k][i + 1]
      BY <1>3, <2>2
    <3>2. Precedes(w, S, k, i + 1, w[k][i + 1].file)
      BY <2>2, <3>1 DEF WireOK, TouchesOK
    <3> QED
      BY <1>6, <2>0, <2>2, <3>1, <3>2
  <2> QED
    BY <2>1, <2>2
<1>9. RemovalsOK(v, T, L)
  <2> SUFFICES ASSUME NEW l \in Ends, NEW i \in 1 .. Len(v[l]), Removes(v[l][i]),
                      Hash[v[l][i].file] \notin L
               PROVE  \E g \in FileId : Older(g, v[l][i].file) /\ Precedes(v, T, l, i, g)
    BY DEF RemovalsOK
  <2>0. i \in Nat \ {0}
    BY <1>4
  <2>1. CASE l # k
    <3>1. PICK g \in FileId : Older(g, w[l][i].file) /\ Precedes(w, S, l, i, g)
      BY <1>2, <2>1 DEF WireOK, RemovalsOK
    <3>2. Precedes(v, T, l, i, g)
      BY <1>5, <2>0, <2>1, <3>1
    <3> QED
      BY <1>2, <2>1, <3>1, <3>2
  <2>2. CASE l = k
    <3>1. i + 1 \in 1 .. Len(w[k]) /\ v[k][i] = w[k][i + 1]
      BY <1>3, <2>2
    <3>2. PICK g \in FileId : Older(g, w[k][i + 1].file) /\ Precedes(w, S, k, i + 1, g)
      BY <2>2, <3>1 DEF WireOK, RemovalsOK
    <3>3. Precedes(v, T, k, i, g)
      BY <1>6, <2>0, <2>2, <3>2
    <3> QED
      BY <2>2, <3>1, <3>2, <3>3
  <2> QED
    BY <2>1, <2>2
<1>10. AnnouncedOK(v, T, A)
  <2> SUFFICES ASSUME NEW l \in Ends, NEW g \in FileId, <<l[1], g>> \in A
               PROVE  Precedes(v, T, l, Len(v[l]) + 1, g)
    BY DEF AnnouncedOK
  <2>1. Precedes(w, S, l, Len(w[l]) + 1, g)
    BY DEF WireOK, AnnouncedOK
  <2>2. CASE l # k
    <3>1. v[l] = w[l] /\ Len(w[l]) + 1 \in Nat
      BY <1>2, <1>4, <2>2
    <3> QED
      BY <1>5, <2>1, <2>2, <3>1
  <2>3. CASE l = k
    <3>1. Len(v[k]) + 1 \in Nat \ {0} /\ (Len(v[k]) + 1) + 1 = Len(w[k]) + 1
      BY <1>1, <1>3
    <3> QED
      BY <1>6, <2>1, <2>3, <3>1
  <2> QED
    BY <2>2, <2>3
<1> QED
  BY <1>2, <1>7, <1>8, <1>9, <1>10 DEF WireOK

\* A frame is forwarded by a device that has announced what the frame is about:
\* what creates a file comes from itself or from one that has seen it.
LEMMA ForwardedOK ==
    ASSUME NEW w, NEW S, NEW A, NEW L, WireOK(w, S, A, L),
           NEW d \in Device, NEW from \in Device, NEW frame \in FrameSet,
           Adds(frame) => <<d, frame.file>> \in S,
           Adds(frame) => from = d \/ <<from, frame.file>> \in S,
           Touches(frame) => <<d, frame.file>> \in A,
           Removes(frame) => \/ Hash[frame.file] \in L
                             \/ \E g \in FileId : Older(g, frame.file) /\ <<d, g>> \in A,
           NEW v, v = Forwarded(w, d, <<frame>>, from),
           NEW B, B \subseteq A \cup (IF Adds(frame) THEN {<<d, frame.file>>} ELSE {})
    PROVE  WireOK(v, S, B, L)
<1> DEFINE To == {l \in Ends : l[1] = d /\ l[2] # from}
<1>1. \A l \in Ends : w[l] \in Seq(FrameSet) /\ Len(w[l]) \in Nat
  BY DEF WireOK
<1>2. /\ v \in [Ends -> Seq(FrameSet)]
      /\ \A l \in Ends \ To : v[l] = w[l]
      /\ \A l \in To : v[l] = w[l] \o <<frame>>
  BY <1>1 DEF Forwarded
<1>3. ASSUME NEW l \in To
      PROVE  /\ Len(v[l]) = Len(w[l]) + 1
             /\ v[l][Len(w[l]) + 1] = frame
             /\ \A i \in 1 .. Len(w[l]) : v[l][i] = w[l][i]
  <2>1. PICK s \in Seq(FrameSet) : s = w[l] /\ v[l] = s \o <<frame>>
    BY <1>1, <1>2
  <2>2. /\ Len(s \o <<frame>>) = Len(s) + 1
        /\ (s \o <<frame>>)[Len(s) + 1] = frame
        /\ \A i \in 1 .. Len(s) : (s \o <<frame>>)[i] = s[i]
    BY ONLY s \in Seq(FrameSet)
  <2> QED
    BY <2>1, <2>2
<1>4. ASSUME NEW l \in Ends
      PROVE  /\ Len(v[l]) \in Nat /\ Len(w[l]) \in Nat /\ Len(w[l]) <= Len(v[l])
             /\ \A i \in 1 .. Len(w[l]) : i \in 1 .. Len(v[l]) /\ v[l][i] = w[l][i]
  <2>0. Len(w[l]) \in Nat
    BY <1>1
  <2>1. CASE l \in To
    <3>1. Len(v[l]) = Len(w[l]) + 1
      BY <1>3, <2>1
    <3>2. \A i \in 1 .. Len(w[l]) : v[l][i] = w[l][i]
      BY <1>3, <2>1
    <3> QED
      BY <2>0, <3>1, <3>2
  <2>2. CASE l \notin To
    <3>1. v[l] = w[l]
      BY <1>2, <2>2
    <3> QED
      BY <2>0, <3>1
  <2> QED
    BY <2>1, <2>2
<1>5. ASSUME NEW l \in Ends, NEW i \in Nat, NEW g, Precedes(w, S, l, i, g)
      PROVE  Precedes(v, S, l, i, g)
  BY <1>4, <1>5 DEF Precedes
<1>6. ASSUME NEW l \in Ends, NEW i \in 1 .. Len(v[l])
      PROVE  \/ i \in 1 .. Len(w[l]) /\ v[l][i] = w[l][i]
             \/ l \in To /\ i = Len(w[l]) + 1 /\ v[l][i] = frame
  <2>1. CASE l \in To
    BY <1>3, <1>4, <2>1
  <2>2. CASE l \notin To
    BY <1>2, <2>2
  <2> QED
    BY <2>1, <2>2
<1>7. \A l \in To, g \in FileId : <<d, g>> \in A => Precedes(v, S, l, Len(w[l]) + 1, g)
  BY <1>4, <1>5 DEF WireOK, AnnouncedOK
<1>8. frame.file \in FileId
  BY DEF FrameSet
<1>9. CreationsOK(v, S)
  BY <1>6 DEF WireOK, CreationsOK
<1>10. TouchesOK(v, S)
  <2> SUFFICES ASSUME NEW l \in Ends, NEW i \in 1 .. Len(v[l]), Touches(v[l][i])
               PROVE  Precedes(v, S, l, i, v[l][i].file)
    BY DEF TouchesOK
  <2>1. CASE i \in 1 .. Len(w[l]) /\ v[l][i] = w[l][i]
    BY <1>5, <2>1 DEF WireOK, TouchesOK
  <2>2. CASE l \in To /\ i = Len(w[l]) + 1 /\ v[l][i] = frame
    BY <1>7, <1>8, <2>2
  <2> QED
    BY <1>6, <2>1, <2>2
<1>11. RemovalsOK(v, S, L)
  <2> SUFFICES ASSUME NEW l \in Ends, NEW i \in 1 .. Len(v[l]), Removes(v[l][i]),
                      Hash[v[l][i].file] \notin L
               PROVE  \E g \in FileId : Older(g, v[l][i].file) /\ Precedes(v, S, l, i, g)
    BY DEF RemovalsOK
  <2>1. CASE i \in 1 .. Len(w[l]) /\ v[l][i] = w[l][i]
    <3>1. PICK g \in FileId : Older(g, w[l][i].file) /\ Precedes(w, S, l, i, g)
      BY <2>1 DEF WireOK, RemovalsOK
    <3>2. Precedes(v, S, l, i, g)
      BY <1>5, <3>1
    <3> QED
      BY <2>1, <3>1, <3>2
  <2>2. CASE l \in To /\ i = Len(w[l]) + 1 /\ v[l][i] = frame
    BY <1>7, <2>2
  <2> QED
    BY <1>6, <2>1, <2>2
<1>12. AnnouncedOK(v, S, B)
  <2> SUFFICES ASSUME NEW l \in Ends, NEW g \in FileId, <<l[1], g>> \in B
               PROVE  Precedes(v, S, l, Len(v[l]) + 1, g)
    BY DEF AnnouncedOK
  <2>1. CASE <<l[1], g>> \in A
    <3>1. Precedes(v, S, l, Len(w[l]) + 1, g)
      BY <1>4, <1>5, <2>1 DEF WireOK, AnnouncedOK
    <3> QED
      BY <1>4, <3>1, PrecedesMonotone
  <2>2. CASE Adds(frame) /\ l[1] = d /\ g = frame.file
    <3>1. CASE l \in To
      <4>1. Len(v[l]) = Len(w[l]) + 1 /\ v[l][Len(v[l])] = frame /\ Len(v[l]) \in 1 .. Len(v[l])
        BY <1>1, <1>3, <3>1
      <4> QED
        BY <2>2, <4>1 DEF Precedes
    <3>2. CASE l[2] = from
      BY <2>2, <3>2, EndsDistinct DEF Precedes
    <3> QED
      BY <2>2, <3>1, <3>2
  <2> QED
    BY <2>1, <2>2
<1> QED
  BY <1>2, <1>9, <1>10, <1>11, <1>12 DEF WireOK

-----------------------------------------------------------------------------
(***************************************************************************)
(* The writer.                                                             *)
(***************************************************************************)
\* A frame is about a file of its own.
LEMMA FrameCases ==
    ASSUME NEW frame \in FrameSet
    PROVE  /\ frame.file \in FileId /\ frame.change \in ChangeOf(frame.file)
           /\ OfTag(frame.change) => ~Adds(frame) /\ ~Touches(frame)
           /\ ~OfTag(frame.change) => Adds(frame) \/ Touches(frame)
           /\ Removes(frame) => Touches(frame)
           /\ Adds(frame) => ~Touches(frame)
<1>1. frame.file \in FileId /\ frame.change \in ChangeOf(frame.file)
  BY DEF FrameSet
<1> QED
  BY <1>1 DEF ChangeOf, OfTag, Adds, Touches, Removes

\* Forwarding nothing leaves the wires alone.
LEMMA NothingForwarded ==
    ASSUME NEW w \in [Ends -> Seq(FrameSet)], NEW d, NEW from
    PROVE  Forwarded(w, d, <<>>, from) = w
<1>1. \A l \in Ends : w[l] \o <<>> = w[l]
  OBVIOUS
<1>2. Forwarded(w, d, <<>>, from) = [l \in Ends |-> w[l]]
  BY <1>1 DEF Forwarded
<1> QED
  BY <1>2

\* One change applied and forwarded, by a device that has seen the file it is
\* about or is now told of it by from.
LEMMA Applied ==
    ASSUME NEW F, FilesOK(F), NEW L, RowsKept(F, L),
           NEW d \in Device, NEW from \in Device, NEW frame \in FrameSet,
           NEW w, WireOK(w, Learns(Saw(F), d, frame), Saw(F), L),
           Adds(frame) => from = d \/ <<from, frame.file>> \in Saw(F),
           Touches(frame) => <<d, frame.file>> \in Saw(F),
           Removes(frame) => Hash[frame.file] \in L \/ Lower(Saw(F), d, frame.file)
    PROVE  LET G == RowsAfter(F, d, frame)
           IN  /\ FilesOK(G) /\ RowsKept(G, L) /\ Saw(F) \subseteq Saw(G)
               /\ WireOK(WiresAfter(F, w, d, frame, from), Saw(G), Saw(G), L)
<1> SUFFICES ASSUME NEW S, S = Learns(Saw(F), d, frame),
                    NEW o, o = Result(F, d, frame),
                    NEW G, G = RowsAfter(F, d, frame),
                    NEW v, v = WiresAfter(F, w, d, frame, from)
             PROVE  /\ FilesOK(G) /\ RowsKept(G, L) /\ Saw(F) \subseteq Saw(G)
                    /\ WireOK(v, Saw(G), Saw(G), L)
  OBVIOUS
<1>a. /\ S = Saw(F) \cup (IF Adds(frame) THEN {<<d, frame.file>>} ELSE {})
      /\ o = IF OfTag(frame.change)
             THEN Relayed(F[d][frame.file], frame.change)
             ELSE ApplyChange(F[d][frame.file], frame.change)
      /\ G = [F EXCEPT ![d] = [@ EXCEPT ![frame.file] = o.file]]
      /\ v = Forwarded(w, d, IF o.announce = {} THEN <<>> ELSE <<frame>>, from)
  BY DEF Learns, Result, RowsAfter, WiresAfter
<1>1. PICK f \in FileId : f = frame.file
  BY FrameCases
<1>2. PICK row : row = F[d][f]
  OBVIOUS
<1>3. RowOK(f, row) /\ frame.change \in ChangeOf(f)
  BY <1>1, <1>2, FrameCases DEF FilesOK
<1>4. SeenRow(row) <=> <<d, f>> \in Saw(F)
  BY <1>2 DEF Saw
<1>5. /\ RowOK(f, o.file)
      /\ SeenRow(o.file) <=> SeenRow(row) \/ Adds(frame)
      /\ Adds(frame) /\ ~SeenRow(row) => Live(o.file) /\ o.announce # {}
      /\ Live(row) => Live(o.file) \/ Removes(frame)
  <2>1. CASE OfTag(frame.change)
    <3>1. o.file = row
      BY <1>a, <1>1, <1>2, <2>1 DEF Relayed, Outcome
    <3> QED
      BY <1>3, <2>1, <3>1, FrameCases
  <2>2. CASE ~OfTag(frame.change)
    <3>1. o = ApplyChange(row, frame.change)
      BY <1>a, <1>1, <1>2, <2>2
    <3>2. /\ RowOK(f, o.file)
          /\ SeenRow(row) => SeenRow(o.file)
          /\ SeenRow(o.file) => SeenRow(row) \/ Adds(frame) \/ Removes(frame)
          /\ Adds(frame) => SeenRow(o.file)
          /\ Adds(frame) /\ ~SeenRow(row) => Live(o.file) /\ o.announce # {}
          /\ Live(row) => Live(o.file) \/ Removes(frame)
      BY <1>3, <2>2, <3>1, RowAfter DEF Adds, Removes
    <3> QED
      BY <1>1, <1>4, <3>2, FrameCases
  <2> QED
    BY <2>1, <2>2
<1>6. /\ G \in [Device -> [FileId -> File]] /\ G[d][f] = o.file
      /\ \A e \in Device, g \in FileId : e # d \/ g # f => G[e][g] = F[e][g]
  <2>1. o.file \in File /\ F \in [Device -> [FileId -> File]]
    BY <1>5 DEF RowOK, FilesOK
  <2> QED
    BY <1>a, <1>1, <2>1
<1>7. FilesOK(G)
  BY <1>5, <1>6 DEF FilesOK
<1>8. Saw(G) = S
  <2>1. ASSUME NEW r \in Device \X FileId PROVE r \in Saw(G) <=> r \in S
    <3>1. CASE r = <<d, f>>
      BY <1>a, <1>1, <1>4, <1>5, <1>6, <3>1 DEF Saw
    <3>2. CASE r # <<d, f>>
      <4>1. G[r[1]][r[2]] = F[r[1]][r[2]]
        BY <1>6, <3>2
      <4> QED
        BY <1>a, <1>1, <3>2, <4>1 DEF Saw
    <3> QED
      BY <3>1, <3>2
  <2>2. Saw(G) \subseteq Device \X FileId
    BY DEF Saw
  <2>3. S \subseteq Device \X FileId
    <3>1. Saw(F) \subseteq Device \X FileId
      BY DEF Saw
    <3> QED
      BY <1>a, <1>1, <3>1
  <2> QED
    BY <2>1, <2>2, <2>3
<1>9. Saw(F) \subseteq Saw(G)
  BY <1>a, <1>8
<1>10. RowsKept(G, L)
  <2> SUFFICES ASSUME NEW e \in Device, NEW g \in FileId,
                      <<e, g>> \in Saw(G), ~Live(G[e][g]), Hash[g] \notin L
               PROVE  Lower(Saw(G), e, g)
    BY DEF RowsKept
  <2>1. <<e, g>> \in Saw(F) /\ ~Live(F[e][g]) => Lower(Saw(G), e, g)
    BY <1>9 DEF RowsKept, Lower
  <2>2. CASE e = d /\ g = f
    <3>1. <<d, f>> \in Saw(F)
      BY <1>a, <1>1, <1>4, <1>5, <1>6, <1>8, <2>2
    <3>2. CASE Live(row)
      BY <1>1, <1>5, <1>6, <1>9, <2>2, <3>2 DEF Lower
    <3> QED
      BY <1>2, <2>1, <2>2, <3>1, <3>2
  <2>3. CASE ~(e = d /\ g = f)
    <3>1. <<e, g>> \in Saw(F)
      <4>1. <<e, g>> # <<d, frame.file>>
        BY <1>1, <2>3
      <4>2. <<e, g>> \in S
        BY <1>8
      <4> QED
        BY <1>a, <4>1, <4>2
    <3> QED
      BY <1>6, <2>1, <2>3, <3>1
  <2> QED
    BY <2>2, <2>3
<1>11. WireOK(v, Saw(G), Saw(G), L)
  <2>1. CASE o.announce = {}
    <3>1. v = w
      BY <1>a, <2>1, NothingForwarded DEF WireOK
    <3>2. Saw(G) = Saw(F)
      BY <1>a, <1>1, <1>4, <1>5, <1>8, <2>1
    <3> QED
      BY <1>8, <3>1, <3>2
  <2>2. CASE o.announce # {}
    <3>1. v = Forwarded(w, d, <<frame>>, from)
      BY <1>a, <2>2
    <3>2. /\ Adds(frame) => <<d, frame.file>> \in S
          /\ Adds(frame) => from = d \/ <<from, frame.file>> \in S
      BY <1>a
    <3>3. Removes(frame) => \/ Hash[frame.file] \in L
                            \/ \E g \in FileId : Older(g, frame.file) /\ <<d, g>> \in Saw(F)
      BY DEF Lower
    <3>4. WireOK(v, S, S, L)
      BY <1>a, <3>1, <3>2, <3>3, ForwardedOK
    <3> QED
      BY <1>8, <3>4
  <2> QED
    BY <2>1, <2>2
<1> QED
  BY <1>7, <1>9, <1>10, <1>11

\* What a command has left to do stays sound while more is seen and given up.
LEMMA TodoMonotone ==
    ASSUME NEW T, NEW S, NEW R, S \subseteq R, NEW L, NEW M, L \subseteq M, TodoOK(T, S, L)
    PROVE  TodoOK(T, R, M)
<1>1. T \in [Device -> SUBSET FrameSet]
  BY DEF TodoOK
<1>2. ASSUME NEW d \in Device, NEW frame \in T[d], ~OfTag(frame.change)
      PROVE  /\ Removes(frame) /\ <<d, frame.file>> \in R
             /\ Hash[frame.file] \in M \/ Lower(R, d, frame.file)
  BY <1>2 DEF TodoOK, Lower
<1> QED
  BY <1>1, <1>2 DEF TodoOK

\* More contents given up.
LEMMA CoreMonotone ==
    ASSUME NEW F, NEW w, NEW T, NEW Q, NEW L, NEW M, L \subseteq M, Core(F, w, T, Q, L)
    PROVE  Core(F, w, T, Q, M)
<1>1. RowsKept(F, M)
  BY DEF Core, RowsKept
<1>2. WireOK(w, Saw(F), Saw(F), M)
  BY WireMonotone DEF Core
<1>3. TodoOK(T, Saw(F), M)
  BY TodoMonotone DEF Core
<1> QED
  BY <1>1, <1>2, <1>3 DEF Core

\* A change made on this device, by a user or a command: of a file it has
\* seen, a removal only of one that is given up or has an older copy.
LEMMA MadeHere ==
    ASSUME NEW L, Core(file, wire, todo, queued, L),
           NEW d \in Device, NEW frame \in FrameSet, ~Adds(frame),
           Touches(frame) => <<d, frame.file>> \in Saw(file),
           Removes(frame) => Hash[frame.file] \in L \/ Lower(Saw(file), d, frame.file),
           Apply(d, frame, d, wire)
    PROVE  /\ Core(file', wire', todo, queued, L)
           /\ Saw(file) \subseteq Saw(file')
<1>1. /\ file' = RowsAfter(file, d, frame)
      /\ wire' = WiresAfter(file, wire, d, frame, d)
  BY DEF Apply, RowsAfter, WiresAfter, Result
<1>2. Learns(Saw(file), d, frame) = Saw(file)
  BY DEF Learns
<1>3. /\ FilesOK(file') /\ RowsKept(file', L) /\ Saw(file) \subseteq Saw(file')
      /\ WireOK(wire', Saw(file'), Saw(file'), L)
  BY <1>1, <1>2, Applied DEF Core
<1>4. TodoOK(todo, Saw(file'), L)
  BY <1>3, TodoMonotone DEF Core
<1> QED
  BY <1>3, <1>4 DEF Core

-----------------------------------------------------------------------------
(***************************************************************************)
(* The actions.                                                            *)
(***************************************************************************)
\* A frame of a change of file f.
LEMMA FrameOK ==
    ASSUME NEW f \in FileId, NEW c \in ChangeOf(f), NEW tags \in SUBSET Tag
    PROVE  Frame(f, c, tags) \in FrameSet /\ Frame(f, c, tags).file = f
           /\ Frame(f, c, tags).change = c
BY DEF Frame, FrameSet

\* The changes have their kinds.
LEMMA KindsOK ==
    ASSUME NEW f \in FileId, NEW at \in Nat
    PROVE  /\ \A p \in Path : /\ Moved(p, at) \in ChangeOf(f)
                              /\ Added(p, at, Hash[f], at) \in ChangeOf(f)
           /\ Deleted(at) \in ChangeOf(f) /\ Purged \in ChangeOf(f)
           /\ Restored(Hash[f], at) \in ChangeOf(f)
           /\ \A t \in Tag : Tagged(t, at) \in ChangeOf(f) /\ Untagged(t, at) \in ChangeOf(f)
BY DEF ChangeOf, Moved, Added, Deleted, Purged, Restored, Tagged, Untagged

\* A live row is one that was seen.
LEMMA LiveIsSeen ==
    ASSUME NEW d \in Device, NEW f \in FileId, file[d][f].known
    PROVE  <<d, f>> \in Saw(file)
BY DEF Saw, SeenRow

\* Init: nobody has seen anything.
LEMMA InitOK ==
    ASSUME Init
    PROVE  IInv
<1>1. /\ file = [d \in Device |-> [f \in FileId |-> Unknown]]
      /\ wire = [l \in Ends |-> <<>>] /\ todo = [d \in Device |-> {}]
      /\ queued = [d \in Device |-> {}] /\ now = 0 /\ setting \in Setting
  BY DEF Init
<1>2. <<>> \in Seq(Version)
  OBVIOUS
<1>3. Unknown \in File /\ Unknown.log = <<>> /\ ~Unknown.known /\ ~Unknown.purged
  BY <1>2 DEF Unknown, File
<1>4. FilesOK(file)
  BY <1>1, <1>3 DEF FilesOK, RowOK
<1>5. Saw(file) = {}
  BY <1>1, <1>3 DEF Saw, SeenRow
<1>6. RowsKept(file, lost)
  BY <1>5 DEF RowsKept
<1>7. \A l \in Ends : wire[l] = <<>>
  BY <1>1
<1>8. wire \in [Ends -> Seq(FrameSet)]
  BY <1>1
<1>9. WireOK(wire, Saw(file), Saw(file), lost)
  BY <1>5, <1>7, <1>8 DEF WireOK, CreationsOK, TouchesOK, RemovalsOK, AnnouncedOK
<1>10. TodoOK(todo, Saw(file), lost) /\ QueuedOK(queued)
  BY <1>1 DEF TodoOK, QueuedOK
<1> QED
  BY <1>1, <1>4, <1>6, <1>9, <1>10 DEF IInv, Core

\* A frame from a neighbour: its file was seen before, or is created by it.
LEMMA ReceiveOK ==
    ASSUME Core(file, wire, todo, queued, lost), NEW l \in Ends, Receive(l[1], l[2])
    PROVE  Core(file, wire, todo, queued, lost)'
<1>1. /\ l[1] \in Device /\ l[2] \in Device /\ l = <<l[1], l[2]>>
  BY EndsDistinct
<1>2. PICK d, e : d = l[1] /\ e = l[2]
  OBVIOUS
<1>3. /\ d \in Device /\ e \in Device /\ l = <<d, e>> /\ wire[l] # <<>>
      /\ todo' = todo /\ queued' = queued /\ lost' = lost
      /\ Apply(e, Head(wire[l]), d, [wire EXCEPT ![l] = Tail(@)])
  BY <1>1, <1>2 DEF Receive, control
<1>4. wire[l] \in Seq(FrameSet)
  BY DEF Core, WireOK
<1>5. PICK frame \in FrameSet : frame = Head(wire[l]) /\ frame = wire[l][1]
  BY <1>3, <1>4
<1>6. 1 \in 1 .. Len(wire[l])
  BY <1>3, <1>4
<1>8. PICK w : w = [wire EXCEPT ![l] = Tail(@)]
  OBVIOUS
<1>9. WireOK(w, Learns(Saw(file), e, frame), Saw(file), lost)
  BY <1>2, <1>3, <1>5, <1>8, Popped DEF Core
<1>10. Adds(frame) => <<d, frame.file>> \in Saw(file)
  BY <1>2, <1>5, <1>6 DEF Core, WireOK, CreationsOK
<1>11. \A g : Precedes(wire, Saw(file), l, 1, g) => <<e, g>> \in Saw(file)
  BY <1>2 DEF Precedes
<1>12. Touches(frame) => <<e, frame.file>> \in Saw(file)
  BY <1>5, <1>6, <1>11 DEF Core, WireOK, TouchesOK
<1>13. Removes(frame) => Hash[frame.file] \in lost \/ Lower(Saw(file), e, frame.file)
  <2> SUFFICES ASSUME Removes(frame), Hash[frame.file] \notin lost
               PROVE  Lower(Saw(file), e, frame.file)
    OBVIOUS
  <2>1. PICK g \in FileId : Older(g, frame.file) /\ Precedes(wire, Saw(file), l, 1, g)
    BY <1>5, <1>6 DEF Core, WireOK, RemovalsOK
  <2> QED
    BY <1>11, <2>1 DEF Lower
<1>15. /\ file' = RowsAfter(file, e, frame)
       /\ wire' = WiresAfter(file, w, e, frame, d)
  BY <1>3, <1>5, <1>8 DEF Apply, RowsAfter, WiresAfter, Result
<1>16. FilesOK(file) /\ RowsKept(file, lost)
  BY DEF Core
<1>17. /\ FilesOK(file') /\ RowsKept(file', lost) /\ Saw(file) \subseteq Saw(file')
       /\ WireOK(wire', Saw(file'), Saw(file'), lost)
  BY <1>3, <1>9, <1>10, <1>12, <1>13, <1>15, <1>16, Applied
<1>18. TodoOK(todo, Saw(file'), lost) /\ QueuedOK(queued)
  BY <1>17, TodoMonotone DEF Core
<1> QED
  BY <1>3, <1>17, <1>18 DEF Core

\* A new file: nobody has seen it, its id is minted.
LEMMA CreateOK ==
    ASSUME Core(file, wire, todo, queued, lost), now \in Nat, setting \in Setting,
           NEW d \in Device, NEW f \in FileId, NEW p \in setting.path, Create(d, f, p)
    PROVE  Core(file, wire, todo, queued, lost)'
<1>1. /\ now' \in Nat /\ p \in Path /\ lost' = lost /\ todo' = todo /\ queued' = queued
      /\ file[d][f] = Unknown
  BY MaintenanceAssumption DEF MaintenanceAssumption, Create, Act
<1>2. PICK c : c = Added(p, now', Hash[f], now')
  OBVIOUS
<1>3. PICK frame : frame = Frame(f, c, Rules[p])
  OBVIOUS
<1>4. /\ frame \in FrameSet /\ frame.file = f /\ frame.change = c
  BY <1>1, <1>2, <1>3, KindsOK, FrameOK, MaintenanceAssumption DEF MaintenanceAssumption
<1>5. Adds(frame) /\ ~OfTag(frame.change)
  BY <1>2, <1>4 DEF Adds, Added, OfTag
<1>6. PICK row : row = RecordVersion(AddFile(Unknown, p, now'), Hash[f], now')
  OBVIOUS
<1>7. ~AddFile(Unknown, p, now').deleted /\ ~Unknown.known /\ ~Unknown.purged
  BY DEF AddFile, Unknown
<1>8. ~row.deleted
  BY <1>6, <1>7 DEF RecordVersion, AddFile, Unknown
<1>9. AppendVersion(AddFile(Unknown, p, now'), Hash[f], now') = row
  BY <1>6, <1>8 DEF AppendVersion, RestoreFile
<1>10. Result(file, d, frame) = ApplyAdded(Unknown, c)
  BY <1>1, <1>2, <1>4, <1>5, <1>7 DEF Result, ApplyChange, Added
<1>11. c.path = p /\ c.pathAt = now' /\ c.hash = Hash[f] /\ c.at = now'
  BY <1>2 DEF Added
<1>12. Result(file, d, frame).file = row /\ Result(file, d, frame).announce = {c}
  BY <1>7, <1>9, <1>10, <1>11 DEF ApplyAdded, Outcome
<1>13. LocalAdd(Unknown, p, now', Hash[f], now').file = row
  BY <1>6 DEF LocalAdd, Outcome
<1>14. /\ file' = RowsAfter(file, d, frame)
       /\ wire' = WiresAfter(file, wire, d, frame, d)
  BY <1>2, <1>3, <1>4, <1>12, <1>13 DEF Create, RowsAfter, WiresAfter
<1>15. WireOK(wire, Learns(Saw(file), d, frame), Saw(file), lost)
  BY WireMonotone DEF Core, Learns
<1>16. ~Touches(frame) /\ ~Removes(frame)
  BY <1>4, <1>5, FrameCases
<1>17. /\ FilesOK(file') /\ RowsKept(file', lost) /\ Saw(file) \subseteq Saw(file')
       /\ WireOK(wire', Saw(file'), Saw(file'), lost)
  BY <1>4, <1>14, <1>15, <1>16, Applied DEF Core
<1>18. TodoOK(todo, Saw(file'), lost) /\ QueuedOK(queued)
  BY <1>17, TodoMonotone DEF Core
<1> QED
  BY <1>1, <1>17, <1>18 DEF Core

\* What a user does to a file, or a tag.
LEMMA ChangeOK ==
    ASSUME Core(file, wire, todo, queued, lost), lost \subseteq lost',
           NEW d \in Device, NEW f \in FileId, NEW c \in ChangeOf(f), NEW what,
           Change(d, what, f, c),
           c.kind # "FileMetadataAdded", OfTag(c) \/ file[d][f].known,
           c.kind \in {"FileDeleted", "FilePurged"} => Hash[f] \in lost'
    PROVE  Core(file, wire, todo, queued, lost)'
<1>1. /\ todo' = todo /\ queued' = queued /\ Apply(d, Frame(f, c, {}), d, wire)
  BY DEF Change, Act
<1>2. PICK frame \in FrameSet : frame = Frame(f, c, {}) /\ frame.file = f /\ frame.change = c
  BY FrameOK
<1>3. Core(file, wire, todo, queued, lost')
  BY CoreMonotone
<1>4. /\ ~Adds(frame)
      /\ Touches(frame) => <<d, frame.file>> \in Saw(file)
      /\ Removes(frame) => Hash[frame.file] \in lost'
  BY <1>2, LiveIsSeen, FrameCases DEF Adds, Removes
<1>5. Apply(d, frame, d, wire)
  BY <1>1, <1>2
<1>6. Core(file', wire', todo, queued, lost')
  BY <1>2, <1>3, <1>4, <1>5, MadeHere
<1> QED
  BY <1>1, <1>6

\* What users do.
LEMMA UserOK ==
    ASSUME Core(file, wire, todo, queued, lost), now \in Nat, setting \in Setting,
           NEW d \in Device, UserStep(d)
    PROVE  Core(file, wire, todo, queued, lost)'
<1>1. PICK f \in FileId :
          \/ \E p \in setting.path : Create(d, f, p) \/ Move(d, f, p)
          \/ Delete(d, f) \/ Restore(d, f)
          \/ \E t \in Tag : TagFile(d, f, t) \/ UntagFile(d, f, t)
  BY DEF UserStep
<1>2. CASE \E p \in setting.path : Create(d, f, p)
  BY <1>2, CreateOK
<1>3. CASE \E p \in setting.path : Move(d, f, p)
  <2>1. PICK p \in setting.path : Move(d, f, p)
    BY <1>3
  <2>2. /\ now' \in Nat /\ p \in Path /\ file[d][f].known /\ lost' = lost
        /\ Change(d, "Move", f, Moved(p, now'))
    BY <2>1, MaintenanceAssumption DEF MaintenanceAssumption, Move, Live, Change, Act
  <2>3. Moved(p, now') \in ChangeOf(f) /\ Moved(p, now').kind = "FileMoved"
    BY <2>2, KindsOK DEF Moved
  <2> QED
    BY <2>2, <2>3, ChangeOK
<1>4. CASE Delete(d, f)
  <2>1. /\ now' \in Nat /\ file[d][f].known /\ lost' = lost \cup {Hash[f]}
        /\ Change(d, "Delete", f, Deleted(now'))
    BY <1>4 DEF Delete, Live, Change, Act
  <2>2. Deleted(now') \in ChangeOf(f) /\ Deleted(now').kind = "FileDeleted"
    BY <2>1, KindsOK DEF Deleted
  <2> QED
    BY <2>1, <2>2, ChangeOK
<1>5. CASE Restore(d, f)
  <2>1. /\ now' \in Nat /\ file[d][f].known /\ lost' = lost
        /\ Change(d, "Restore", f, Restored(Hash[f], now'))
    BY <1>5 DEF Restore, Change, Act
  <2>2. Restored(Hash[f], now') \in ChangeOf(f) /\ Restored(Hash[f], now').kind = "FileRestored"
    BY <2>1, KindsOK DEF Restored
  <2> QED
    BY <2>1, <2>2, ChangeOK
<1>6. CASE \E t \in Tag : TagFile(d, f, t)
  <2>1. PICK t \in Tag : TagFile(d, f, t)
    BY <1>6
  <2>2. /\ now' \in Nat /\ lost' = lost /\ Change(d, "TagFile", f, Tagged(t, now'))
    BY <2>1 DEF TagFile, Change, Act
  <2>3. Tagged(t, now') \in ChangeOf(f) /\ Tagged(t, now').kind = "FileTagged"
    BY <2>2, KindsOK DEF Tagged
  <2> QED
    BY <2>2, <2>3, ChangeOK DEF OfTag
<1>7. CASE \E t \in Tag : UntagFile(d, f, t)
  <2>1. PICK t \in Tag : UntagFile(d, f, t)
    BY <1>7
  <2>2. /\ now' \in Nat /\ lost' = lost /\ Change(d, "UntagFile", f, Untagged(t, now'))
    BY <2>1 DEF UntagFile, Change, Act
  <2>3. Untagged(t, now') \in ChangeOf(f) /\ Untagged(t, now').kind = "FileUntagged"
    BY <2>2, KindsOK DEF Untagged
  <2> QED
    BY <2>2, <2>3, ChangeOK DEF OfTag
<1> QED
  BY <1>1, <1>2, <1>3, <1>4, <1>5, <1>6, <1>7

-----------------------------------------------------------------------------
(***************************************************************************)
(* Commands.                                                               *)
(***************************************************************************)
\* A command plans removals of files that are given up or have an older copy.
LEMMA PlanOK ==
    ASSUME Core(file, wire, todo, queued, lost), NEW d \in Device, NEW what,
           NEW frames \in SUBSET FrameSet, Plan(d, what, frames),
           \A frame \in frames :
               \/ OfTag(frame.change)
               \/ /\ Removes(frame) /\ <<d, frame.file>> \in Saw(file)
                  /\ Hash[frame.file] \in lost \/ Lower(Saw(file), d, frame.file)
    PROVE  Core(file, wire, todo, queued, lost)'
<1>1. /\ file' = file /\ wire' = wire /\ queued' = queued /\ lost' = lost
      /\ todo' = [todo EXCEPT ![d] = frames]
  BY DEF Plan, Command
<1>2. TodoOK(todo', Saw(file), lost)
  BY <1>1 DEF Core, TodoOK
<1> QED
  BY <1>1, <1>2 DEF Core

\* A set of ids has a lowest one.
LEMMA LowestId ==
    ASSUME NEW T, T \subseteq FileId, T # {}
    PROVE  \E x \in T : \A y \in T : x <= y
<1>1. T \subseteq Nat
  BY MaintenanceAssumption DEF MaintenanceAssumption
<1>2. PICK x \in T : \A y \in T : ~(<<y, x>> \in OpToRel(<, Nat))
  BY <1>1, NatLessThanWellFounded, WFMin
<1>3. \A y \in T : ~(y < x)
  BY <1>1, <1>2 DEF OpToRel
<1> QED
  BY <1>1, <1>3

\* The survivor of a set of duplicates is the one with the lowest id.
LEMMA KeptOK ==
    ASSUME FilesOK(file), NEW d \in Device, NEW f \in Doomed(d)
    PROVE  /\ f \in FileId /\ <<d, f>> \in Saw(file) /\ Lower(Saw(file), d, f)
<1>1. f \in FileId /\ file[d][f].known /\ Live(file[d][f]) /\ Kept(d, f) # f
  BY DEF Doomed, LiveFiles, Live
<1>2. f \in DuplicateSet(d, f) /\ DuplicateSet(d, f) \subseteq FileId
  BY <1>1 DEF DuplicateSet, LiveFiles
<1>3. \E g \in DuplicateSet(d, f) : \A h \in DuplicateSet(d, f) : g <= h
  BY <1>2, LowestId
<1>4. PICK g : g = Kept(d, f)
  OBVIOUS
<1>5. g \in DuplicateSet(d, f) /\ \A h \in DuplicateSet(d, f) : g <= h
  BY <1>3, <1>4 DEF Kept
<1>6. g \in FileId /\ g <= f /\ g # f /\ file[d][g].known
  BY <1>1, <1>2, <1>4, <1>5 DEF DuplicateSet, LiveFiles, Live
<1>7. Latest(file[d][g]).hash = Latest(file[d][f]).hash
  BY <1>5 DEF DuplicateSet
<1>8. ASSUME NEW h \in FileId, file[d][h].known
      PROVE  Latest(file[d][h]).hash = Hash[h]
  <2>1. RowOK(h, file[d][h])
    BY DEF FilesOK
  <2>2. file[d][h].log \in Seq(Version) /\ file[d][h].log # <<>>
    BY <1>8, <2>1 DEF RowOK, File
  <2>3. Len(file[d][h].log) \in 1 .. Len(file[d][h].log)
    BY <2>2
  <2> QED
    BY <2>1, <2>3 DEF RowOK, Latest
<1>9. Hash[g] = Hash[f]
  BY <1>1, <1>6, <1>7, <1>8
<1>10. g < f
  BY <1>1, <1>6, MaintenanceAssumption DEF MaintenanceAssumption
<1> QED
  BY <1>1, <1>6, <1>9, <1>10, LiveIsSeen DEF Lower, Older

\* delete-duplicates.
LEMMA DeleteDuplicatesOK ==
    ASSUME Core(file, wire, todo, queued, lost), now \in Nat,
           NEW d \in Device, DeleteDuplicates(d)
    PROVE  Core(file, wire, todo, queued, lost)'
<1> DEFINE doomed == {Frame(f, Deleted(now'), {}) : f \in Doomed(d)}
           merged == UNION {{Frame(g, Tagged(t, now'), {}) : t \in TagsMerged(d, g)} : g \in LiveFiles(d)}
<1>1. Plan(d, "DeleteDuplicates", doomed \cup merged)
  BY DEF DeleteDuplicates
<1>2. now' \in Nat
  BY <1>1 DEF Plan, Command
<1>3. ASSUME NEW frame \in doomed
      PROVE  /\ frame \in FrameSet /\ Removes(frame)
             /\ <<d, frame.file>> \in Saw(file) /\ Lower(Saw(file), d, frame.file)
  <2>1. PICK f \in Doomed(d) : frame = Frame(f, Deleted(now'), {})
    BY <1>3
  <2>2. f \in FileId /\ <<d, f>> \in Saw(file) /\ Lower(Saw(file), d, f)
    BY KeptOK DEF Core
  <2>3. Deleted(now') \in ChangeOf(f) /\ Deleted(now').kind = "FileDeleted"
    BY <1>2, <2>2, KindsOK DEF Deleted
  <2>4. frame \in FrameSet /\ frame.file = f /\ frame.change = Deleted(now')
    BY <2>1, <2>2, <2>3, FrameOK
  <2> QED
    BY <2>2, <2>3, <2>4 DEF Removes
<1>4. ASSUME NEW frame \in merged
      PROVE  frame \in FrameSet /\ OfTag(frame.change)
  <2>1. PICK g \in LiveFiles(d) : \E t \in TagsMerged(d, g) : frame = Frame(g, Tagged(t, now'), {})
    BY <1>4
  <2>2. PICK t \in Tag : frame = Frame(g, Tagged(t, now'), {})
    BY <2>1 DEF TagsMerged
  <2>3. g \in FileId /\ Tagged(t, now') \in ChangeOf(g) /\ Tagged(t, now').kind = "FileTagged"
    BY <1>2, KindsOK DEF LiveFiles, Tagged
  <2>4. frame \in FrameSet /\ frame.change = Tagged(t, now')
    BY <2>2, <2>3, FrameOK
  <2> QED
    BY <2>3, <2>4 DEF OfTag
<1>5. PICK frames : frames = doomed \cup merged
  OBVIOUS
<1> HIDE DEF doomed, merged
<1>6. frames \in SUBSET FrameSet /\ Plan(d, "DeleteDuplicates", frames)
  BY <1>1, <1>3, <1>4, <1>5
<1>7. \A frame \in frames :
          \/ OfTag(frame.change)
          \/ /\ Removes(frame) /\ <<d, frame.file>> \in Saw(file)
             /\ Hash[frame.file] \in lost \/ Lower(Saw(file), d, frame.file)
  BY <1>3, <1>4, <1>5
<1> QED
  BY <1>6, <1>7, PlanOK

\* A command that purges files that are given up or have an older copy.
LEMMA PurgesOK ==
    ASSUME Core(file, wire, todo, queued, lost), NEW d \in Device, NEW what,
           NEW F \in SUBSET FileId, Plan(d, what, {Frame(f, Purged, {}) : f \in F}),
           \A f \in F : /\ <<d, f>> \in Saw(file)
                        /\ Hash[f] \in lost \/ Lower(Saw(file), d, f)
    PROVE  Core(file, wire, todo, queued, lost)'
<1>1. PICK frames : frames = {Frame(f, Purged, {}) : f \in F}
  OBVIOUS
<1>2. ASSUME NEW frame \in frames
      PROVE  /\ frame \in FrameSet /\ Removes(frame) /\ <<d, frame.file>> \in Saw(file)
             /\ Hash[frame.file] \in lost \/ Lower(Saw(file), d, frame.file)
  <2>1. PICK f \in F : frame = Frame(f, Purged, {})
    BY <1>1, <1>2
  <2>2. f \in FileId /\ Purged \in ChangeOf(f) /\ Purged.kind = "FilePurged"
    BY DEF ChangeOf, Purged
  <2>3. frame \in FrameSet /\ frame.file = f /\ frame.change = Purged
    BY <2>1, <2>2, FrameOK
  <2> QED
    BY <2>2, <2>3 DEF Removes
<1>3. frames \in SUBSET FrameSet /\ Plan(d, what, frames)
  BY <1>1, <1>2
<1> QED
  BY <1>2, <1>3, PlanOK

\* purge-deleted: what is deleted was given up or has an older copy.
LEMMA PurgeDeletedOK ==
    ASSUME Core(file, wire, todo, queued, lost), NEW d \in Device, PurgeDeleted(d)
    PROVE  Core(file, wire, todo, queued, lost)'
<1> DEFINE F == {f \in FileId : file[d][f].known /\ file[d][f].deleted}
<1>1. Plan(d, "PurgeDeleted", {Frame(f, Purged, {}) : f \in F})
  BY DEF PurgeDeleted
<1>2. \A f \in F : /\ <<d, f>> \in Saw(file)
                   /\ Hash[f] \in lost \/ Lower(Saw(file), d, f)
  BY LiveIsSeen DEF Core, RowsKept, Live
<1> HIDE DEF F
<1>3. F \in SUBSET FileId
  BY DEF F
<1> QED
  BY <1>1, <1>2, <1>3, PurgesOK

\* purge-broken: at rest a live file without bytes was given up.
LEMMA PurgeBrokenOK ==
    ASSUME Core(file, wire, todo, queued, lost), Patient, NEW d \in Device, PurgeBroken(d)
    PROVE  Core(file, wire, todo, queued, lost)'
<1> DEFINE F == LiveFiles(d) \ held[d]
<1>1. Plan(d, "PurgeBroken", {Frame(f, Purged, {}) : f \in F})
  BY DEF PurgeBroken
<1>2. Rest
  BY <1>1 DEF Plan, Command, May, Patient
<1>3. \A f \in F : <<d, f>> \in Saw(file) /\ Hash[f] \in lost
  BY <1>2, LiveIsSeen DEF Rest, LiveFiles, Live
<1>4. F \in SUBSET FileId
  BY DEF LiveFiles
<1> HIDE DEF F
<1> QED
  BY <1>1, <1>3, <1>4, PurgesOK

\* A change of a command is carried out.
LEMMA CarryOK ==
    ASSUME Core(file, wire, todo, queued, lost), NEW d \in Device, Carry(d)
    PROVE  Core(file, wire, todo, queued, lost)'
<1>1. PICK frame \in todo[d] : /\ Apply(d, frame, d, wire)
                               /\ todo' = [todo EXCEPT ![d] = @ \ {frame}]
                               /\ queued' = queued /\ lost' = lost
  BY DEF Carry, control
<1>2. todo \in [Device -> SUBSET FrameSet]
  BY DEF Core, TodoOK
<1>3. frame \in FrameSet
  BY <1>1, <1>2
<1>4. \/ OfTag(frame.change)
      \/ /\ Removes(frame) /\ <<d, frame.file>> \in Saw(file)
         /\ Hash[frame.file] \in lost \/ Lower(Saw(file), d, frame.file)
  BY <1>1 DEF Core, TodoOK
<1>5. /\ ~Adds(frame)
      /\ Touches(frame) => <<d, frame.file>> \in Saw(file)
      /\ Removes(frame) => Hash[frame.file] \in lost \/ Lower(Saw(file), d, frame.file)
  BY <1>3, <1>4, FrameCases
<1>6. Core(file', wire', todo, queued, lost)
  BY <1>1, <1>3, <1>5, MadeHere
<1>7. TodoOK(todo', Saw(file'), lost)
  <2>1. todo' \in [Device -> SUBSET FrameSet] /\ \A e \in Device : todo'[e] \subseteq todo[e]
    BY <1>1, <1>2
  <2> QED
    BY <1>6, <2>1 DEF Core, TodoOK
<1> QED
  BY <1>1, <1>6, <1>7 DEF Core

\* retag plans tags.
LEMMA RetagOK ==
    ASSUME Core(file, wire, todo, queued, lost), now \in Nat, NEW d \in Device, Retag(d)
    PROVE  Core(file, wire, todo, queued, lost)'
<1> DEFINE frames == {Frame(r[1], Tagged(r[2], now'), {}) : r \in ToTag(d)}
<1>1. /\ file' = file /\ wire' = wire /\ todo' = todo /\ lost' = lost /\ now' \in Nat
      /\ queued' = [queued EXCEPT ![d] = @ \cup frames]
  BY DEF Retag, Command
<1>2. ASSUME NEW frame \in frames
      PROVE  frame \in FrameSet /\ OfTag(frame.change)
  <2>1. PICK r \in ToTag(d) : frame = Frame(r[1], Tagged(r[2], now'), {})
    BY <1>2
  <2>2. r[1] \in FileId /\ r[2] \in Tag
    BY <2>1 DEF ToTag, LiveFiles
  <2>3. Tagged(r[2], now') \in ChangeOf(r[1]) /\ Tagged(r[2], now').kind = "FileTagged"
    BY <1>1, <2>2, KindsOK DEF Tagged
  <2>4. frame \in FrameSet /\ frame.change = Tagged(r[2], now')
    BY <2>1, <2>2, <2>3, FrameOK
  <2> QED
    BY <2>3, <2>4 DEF OfTag
<1> HIDE DEF frames
<1>3. QueuedOK(queued')
  BY <1>1, <1>2 DEF Core, QueuedOK
<1> QED
  BY <1>1, <1>3 DEF Core

\* A change that retag planned is carried out.
LEMMA WriteQueuedOK ==
    ASSUME Core(file, wire, todo, queued, lost), NEW d \in Device, WriteQueued(d)
    PROVE  Core(file, wire, todo, queued, lost)'
<1>1. PICK frame \in queued[d] : /\ Apply(d, frame, d, wire)
                                 /\ queued' = [queued EXCEPT ![d] = @ \ {frame}]
                                 /\ todo' = todo /\ lost' = lost
  BY DEF WriteQueued, control
<1>2. /\ queued \in [Device -> SUBSET FrameSet]
      /\ \A e \in Device : \A other \in queued[e] : OfTag(other.change)
  BY DEF Core, QueuedOK
<1>3. frame \in FrameSet /\ ~Adds(frame) /\ ~Touches(frame) /\ ~Removes(frame)
  BY <1>1, <1>2, FrameCases
<1>4. Core(file', wire', todo, queued, lost)
  BY <1>1, <1>3, MadeHere
<1>5. QueuedOK(queued')
  <2>1. queued' \in [Device -> SUBSET FrameSet] /\ \A e \in Device : queued'[e] \subseteq queued[e]
    BY <1>1, <1>2
  <2> QED
    BY <1>2, <2>1 DEF QueuedOK
<1> QED
  BY <1>1, <1>4, <1>5 DEF Core

-----------------------------------------------------------------------------
(***************************************************************************)
(* The results.                                                            *)
(***************************************************************************)
\* The clock and the setting.
LEMMA ControlOK ==
    ASSUME IInv, Next
    PROVE  now' \in Nat /\ setting' = setting
<1>1. ASSUME NEW d \in Device, UserStep(d)
      PROVE  now' = now + 1 /\ setting' = setting
  <2>1. PICK f \in FileId :
            \/ \E p \in setting.path : Create(d, f, p) \/ Move(d, f, p)
            \/ Delete(d, f) \/ Restore(d, f)
            \/ \E t \in Tag : TagFile(d, f, t) \/ UntagFile(d, f, t)
    BY <1>1 DEF UserStep
  <2>2. \E what : Act(d, what)
    BY <2>1 DEF Create, Move, Delete, Restore, TagFile, UntagFile, Change
  <2> QED
    BY <2>2 DEF Act
<1>2. ASSUME NEW d \in Device, CommandStep(d)
      PROVE  now' = now + 1 /\ setting' = setting
  <2>1. \E what : Command(d, what)
    BY <1>2 DEF CommandStep, DeleteDuplicates, PurgeDeleted, PurgeBroken, Retag, Plan
  <2> QED
    BY <2>1 DEF Command
<1>3. ASSUME NEW d \in Device, Carry(d) \/ WriteQueued(d)
      PROVE  now' = now /\ setting' = setting
  BY <1>3 DEF Carry, WriteQueued, control
<1>4. ASSUME NEW l \in Ends, Receive(l[1], l[2])
      PROVE  now' = now /\ setting' = setting
  BY <1>4 DEF Receive, control
<1>5. ASSUME NEW d \in Device, NEW f \in FileId, Pull(d, f) \/ Lose(d, f)
      PROVE  now' = now /\ setting' = setting
  BY <1>5 DEF Pull, Lose, control
<1>6. now' \in {now, now + 1} /\ setting' = setting
  BY <1>1, <1>2, <1>3, <1>4, <1>5 DEF Next
<1> QED
  BY <1>6 DEF IInv

\* Every step keeps the invariant.
LEMMA NextOK ==
    ASSUME IInv, [Next]_vars
    PROVE  IInv'
<1>1. CASE UNCHANGED vars
  BY <1>1 DEF vars, control, IInv, Patient
<1>2. CASE Next
  <2>1. now' \in Nat /\ setting' = setting
    BY <1>2, ControlOK
  <2> SUFFICES ASSUME Patient
               PROVE  Core(file, wire, todo, queued, lost)'
    BY <2>1 DEF IInv, Patient
  <2>2. Core(file, wire, todo, queued, lost) /\ now \in Nat /\ setting \in Setting
    BY DEF IInv
  <2>3. ASSUME NEW d \in Device, UserStep(d) PROVE Core(file, wire, todo, queued, lost)'
    BY <2>2, <2>3, UserOK
  <2>4. ASSUME NEW d \in Device, CommandStep(d) PROVE Core(file, wire, todo, queued, lost)'
    BY <2>2, <2>4, DeleteDuplicatesOK, PurgeDeletedOK, PurgeBrokenOK, RetagOK DEF CommandStep
  <2>5. ASSUME NEW d \in Device, Carry(d) \/ WriteQueued(d)
        PROVE  Core(file, wire, todo, queued, lost)'
    BY <2>2, <2>5, CarryOK, WriteQueuedOK
  <2>6. ASSUME NEW l \in Ends, Receive(l[1], l[2])
        PROVE  Core(file, wire, todo, queued, lost)'
    BY <2>2, <2>6, ReceiveOK
  <2>7. ASSUME NEW d \in Device, NEW f \in FileId, Pull(d, f) \/ Lose(d, f)
        PROVE  Core(file, wire, todo, queued, lost)'
    <3>1. /\ file' = file /\ wire' = wire /\ todo' = todo /\ queued' = queued
          /\ lost \subseteq lost'
      BY <2>7 DEF Pull, Lose, control
    <3>2. Core(file, wire, todo, queued, lost')
      BY <2>2, <3>1, CoreMonotone
    <3> QED
      BY <3>1, <3>2
  <2> QED
    BY <1>2, <2>3, <2>4, <2>5, <2>6, <2>7 DEF Next
<1> QED
  BY <1>1, <1>2

\* CopyKept: whatever devices remove duplicates and purge what they removed, at
\* the same time and from catalogs that lag behind each other, each keeps the copy
\* with the lowest id it ever had of a content that no user deleted and no disk
\* lost (plan_duplicate_group).
THEOREM CopyIsKept == Spec => []CopyKept
<1>1. IInv => CopyKept
  <2> SUFFICES ASSUME Core(file, wire, todo, queued, lost),
                      NEW d \in Device, NEW f \in FileId, Seen(d, f), Hash[f] \notin lost,
                      \A g \in FileId : Seen(d, g) /\ Hash[g] = Hash[f] => f <= g
               PROVE  Live(file[d][f])
    BY DEF CopyKept, IInv, Patient
  <2>1. \A g \in FileId : <<d, g>> \in Saw(file) <=> Seen(d, g)
    BY DEF Saw, SeenRow, Seen
  <2>2. ASSUME Lower(Saw(file), d, f) PROVE FALSE
    <3>1. PICK g \in FileId : Older(g, f) /\ <<d, g>> \in Saw(file)
      BY <2>2 DEF Lower
    <3>2. g < f /\ f <= g
      BY <2>1, <3>1 DEF Older
    <3> QED
      BY <3>2, MaintenanceAssumption DEF MaintenanceAssumption
  <2> QED
    BY <2>1, <2>2 DEF Core, RowsKept
<1> QED
  BY <1>1, InitOK, NextOK, PTL DEF Spec

-----------------------------------------------------------------------------
(***************************************************************************)
(* TagsKept.  What a device shows of a file is its view: where the file    *)
(* is, and its tags unless it was purged.  A frame turns the view of any   *)
(* device the same way as long as it is newer than what it changes.        *)
(***************************************************************************)
Shown(row, rows, f) ==
    [is   |-> IF row.purged THEN "purged" ELSE IF ~row.known THEN "unknown"
              ELSE IF row.deleted THEN "deleted" ELSE "live",
     path |-> IF row.known THEN row.path ELSE NoPath,
     tags |-> IF row.purged THEN {} ELSE {t \in Tag : On(rows, f, t)}]

ViewOf(F, G) == [p \in Device \X FileId |-> Shown(F[p[1]][p[2]], G[p[1]], p[2])]

View == ViewOf(file, tag)

PurgedView == [is |-> "purged", path |-> NoPath, tags |-> {}]

Turn(v, frame) ==
    LET c == frame.change
    IN  CASE c.kind = "FileMetadataAdded" ->
                 IF v.is = "unknown" THEN [is |-> "live", path |-> c.path, tags |-> v.tags \cup frame.tags]
                 ELSE v
          [] c.kind = "FileMoved" ->
                 IF v.is \in {"live", "deleted"} THEN [v EXCEPT !.path = c.path] ELSE v
          [] c.kind = "FileDeleted" ->
                 IF v.is = "live" THEN [v EXCEPT !.is = "deleted"] ELSE v
          [] c.kind = "FileRestored" ->
                 IF v.is = "deleted" THEN [v EXCEPT !.is = "live"] ELSE v
          [] c.kind = "FilePurged" -> PurgedView
          [] c.kind = "FileTagged" ->
                 IF v.is = "purged" THEN v ELSE [v EXCEPT !.tags = @ \cup {c.tag}]
          [] OTHER ->
                 IF v.is = "purged" THEN v ELSE [v EXCEPT !.tags = @ \ {c.tag}]

\* The frame is newer than what it would change on a device.
NewerRow(row, rows, frame) ==
    LET c == frame.change
    IN  CASE c.kind = "FileMetadataAdded" -> \A t \in frame.tags : c.pathAt > rows[<<frame.file, t>>].at
          [] c.kind = "FileMoved" -> c.at > row.pathAt
          [] c.kind = "FileDeleted" -> c.at > AliveAt(row)
          [] c.kind = "FileRestored" -> c.at > row.deletedAt
          [] c.kind = "FilePurged" -> TRUE
          [] OTHER -> c.at > rows[<<frame.file, c.tag>>].at

Newer(d, frame) == NewerRow(file[d][frame.file], tag[d], frame)

-----------------------------------------------------------------------------
(***************************************************************************)
(* N: the files whose content no user deleted and no disk lost; V: the     *)
(* views; U: the frames about such files on each link; Q: those that wait; *)
(* P: the tags put on such contents.                                       *)
(***************************************************************************)
Cared == {f \in FileId : Hash[f] \notin lost}
Sent(w, l) == {w[l][i] : i \in 1 .. Len(w[l])}

Under == [l \in Ends |-> {x \in Sent(wire, l) : x.file \in Cared}]
Waits == {x \in UNION {todo[d] \cup queued[d] : d \in Device} : x.file \in Cared}
Wanted == {r \in put : r[1] \notin lost}

Afoot(U, Q) == Q \cup UNION {U[l] : l \in Ends}

Bears(V, f, t) == \A d \in Device : V[<<d, f>>].is = "live" /\ t \in V[<<d, f>>].tags

Settled(V, N, P) ==
    /\ \A f \in N : \A d, e \in Device : V[<<d, f>>] = V[<<e, f>>]
    /\ \A r \in P : \E f \in N : Hash[f] = r[1] /\ Bears(V, f, r[2])

\* One change of a user spreads.
Spreading(V, U, Q, N, P, x, v, w) ==
    /\ x.file \in N /\ Q = {} /\ \A l \in Ends : U[l] \subseteq {x}
    /\ \A f \in N \ {x.file} : \A d, e \in Device : V[<<d, f>>] = V[<<e, f>>]
    /\ Turn(v, x) = w /\ Turn(w, x) = w
    /\ Adds(x) => v.is # "deleted" /\ w.is # "deleted"
    /\ \A d \in Device : V[<<d, x.file>>] \in {v, w}
    /\ \E d \in Device : V[<<d, x.file>>] = w
    /\ \A l \in Ends : x \in U[l] => V[<<l[1], x.file>>] = w
    /\ \A l \in Ends : V[<<l[1], x.file>>] = w /\ V[<<l[2], x.file>>] # w => x \in U[l]
    /\ \A r \in P : \E f \in N : /\ Hash[f] = r[1]
                                 /\ IF f = x.file THEN w.is = "live" /\ r[2] \in w.tags
                                    ELSE Bears(V, f, r[2])

Solid(V, U, Q, f) ==
    /\ \A d \in Device : V[<<d, f>>].is = "live"
    /\ \A x \in Afoot(U, Q) : x.file = f => ~Removes(x)

Beside(V, g, f) == \E d \in Device : V[<<d, g>>].path = V[<<d, f>>].path

Anchor(V, U, Q, f) ==
    /\ Solid(V, U, Q, f)
    /\ \A g \in FileId : Older(g, f) /\ Solid(V, U, Q, g) => ~Beside(V, g, f)

Brought(V, U, Q, f, t) ==
    \/ \E d \in Device : t \in V[<<d, f>>].tags
    \/ \E x \in Afoot(U, Q) : x.file = f /\ x.change.kind = "FileTagged" /\ x.change.tag = t

\* Commands race: their changes are all that is under way, ...
OnlyClears(V, U, Q, N) ==
    \A x \in Afoot(U, Q) : /\ x.file \in N /\ x.change.kind \in {"FileDeleted", "FilePurged", "FileTagged"}
                            /\ \A d \in Device : V[<<d, x.file>>].is # "unknown"

\* ... each made by who sends it, ...
SenderFirst(V, U) ==
    \A l \in Ends : \A x \in U[l] : Turn(V[<<l[1], x.file>>], x) = V[<<l[1], x.file>>]

\* ... of files that are everywhere or nowhere, ...
KnownAlike(V, N) ==
    \A f \in N : \A d, e \in Device : V[<<d, f>>].is = "unknown" => V[<<e, f>>].is = "unknown"

PathsAlike(V, N) ==
    \A f \in N : \A d, e \in Device :
        V[<<d, f>>].is \in {"live", "deleted"} /\ V[<<e, f>>].is \in {"live", "deleted"} =>
            V[<<d, f>>].path = V[<<e, f>>].path

\* ... and what a device is ahead of a neighbour is on its way.
Owes(V, U, f, l) ==
    /\ V[<<l[1], f>>].is # "live" /\ V[<<l[2], f>>].is = "live" =>
           \E x \in U[l] : x.file = f /\ Removes(x)
    /\ V[<<l[1], f>>].is = "purged" /\ V[<<l[2], f>>].is # "purged" =>
           \E x \in U[l] : x.file = f /\ x.change.kind = "FilePurged"
    /\ V[<<l[2], f>>].is # "purged" =>
           \A t \in V[<<l[1], f>>].tags \ V[<<l[2], f>>].tags :
               \E x \in U[l] : x.file = f /\ x.change.kind = "FileTagged" /\ x.change.tag = t

LinksOwe(V, U, N) == \A f \in N : \A l \in Ends : Owes(V, U, f, l)

\* A file that goes leaves an older one that stays in its place.
Covered(V, U, Q, N) ==
    \A f \in N : \A d \in Device :
        V[<<d, f>>].is = "live" /\ ~Solid(V, U, Q, f) =>
            \E g \in N : Older(g, f) /\ Solid(V, U, Q, g) /\ V[<<d, g>>].path = V[<<d, f>>].path

\* A tag is borne by a file that stays, or comes to one that nothing removes.
Follows(V, U, Q, N, r) ==
    \E f \in N : /\ Hash[f] = r[1]
                  /\ \/ Solid(V, U, Q, f) /\ Bears(V, f, r[2])
                     \/ Anchor(V, U, Q, f) /\ Brought(V, U, Q, f, r[2])

Clearing(V, U, Q, N, P) ==
    /\ OnlyClears(V, U, Q, N) /\ SenderFirst(V, U)
    /\ KnownAlike(V, N) /\ PathsAlike(V, N) /\ LinksOwe(V, U, N)
    /\ Covered(V, U, Q, N) /\ \A r \in P : Follows(V, U, Q, N, r)

\* Whatever frame would still change a device is newer than what it changes.
AllNewer == \A x \in Afoot(Under, Waits) : \A d \in Device :
                Turn(View[<<d, x.file>>], x) # View[<<d, x.file>>] => Newer(d, x)

Patiently == setting.may \subseteq setting.resting \cup {"Delete", "Lose"}
TagRow == [deleted : BOOLEAN, at : Nat]

TagRows == [FileId \X Tag -> TagRow]

ViewSet == [is : {"unknown", "live", "deleted", "purged"}, path : Path \cup {NoPath}, tags : SUBSET Tag]

\* A row of the catalog; a purged file has none (record_purge).
RowSound(f, row) == RowOK(f, row) /\ (row.purged => ~row.known)

\* The fields of the changes.
LEMMA ChangeFields ==
    ASSUME NEW x \in FrameSet
    PROVE  /\ x.file \in FileId /\ x.tags \in SUBSET Tag
           /\ x.change.kind \in {"FileMetadataAdded", "FileMoved", "FileDeleted", "FileRestored",
                                 "FilePurged", "FileTagged", "FileUntagged"}
           /\ x.change.kind = "FileMetadataAdded" =>
                  /\ x.change.path \in Path /\ x.change.pathAt \in Nat /\ x.change.at \in Nat
                  /\ x.change.hash = Hash[x.file]
           /\ x.change.kind = "FileMoved" => x.change.path \in Path /\ x.change.at \in Nat
           /\ x.change.kind = "FileDeleted" => x.change.at \in Nat
           /\ x.change.kind = "FileRestored" => x.change.at \in Nat /\ x.change.hash = Hash[x.file]
           /\ x.change.kind \in {"FileTagged", "FileUntagged"} =>
                  x.change.tag \in Tag /\ x.change.at \in Nat
<1>1. PICK f \in FileId : x \in [file : {f}, change : ChangeOf(f), tags : SUBSET Tag]
  BY DEF FrameSet
<1>2. x.file = f /\ x.change \in ChangeOf(f) /\ x.tags \in SUBSET Tag
  BY <1>1
<1>3. CASE x.change.kind = "FileMetadataAdded"
  BY <1>2, <1>3 DEF ChangeOf
<1>4. CASE x.change.kind \in {"FileTagged", "FileUntagged"}
  BY <1>2, <1>4 DEF ChangeOf
<1>5. CASE x.change.kind \notin {"FileMetadataAdded", "FileTagged", "FileUntagged"}
  BY <1>2, <1>5 DEF ChangeOf
<1> QED
  BY <1>3, <1>4, <1>5

\* What is shown of a row.
LEMMA ShownIs ==
    ASSUME NEW f \in FileId, NEW row, RowSound(f, row), NEW rows \in TagRows
    PROVE  /\ Shown(row, rows, f) \in ViewSet
           /\ Shown(row, rows, f).is = "purged" <=> row.purged
           /\ Shown(row, rows, f).is = "unknown" <=> ~row.purged /\ ~row.known
           /\ Shown(row, rows, f).is = "live" <=> Live(row)
           /\ Shown(row, rows, f).is = "deleted" <=> row.known /\ row.deleted
           /\ Shown(row, rows, f).is \in {"live", "deleted"} => Shown(row, rows, f).path = row.path
           /\ \A t \in Tag : t \in Shown(row, rows, f).tags <=> ~row.purged /\ On(rows, f, t)
<1>1. row \in File /\ (row.purged => ~row.known)
  BY DEF RowSound, RowOK
<1>2. /\ row.known \in BOOLEAN /\ row.deleted \in BOOLEAN /\ row.purged \in BOOLEAN
      /\ row.path \in Path \cup {NoPath}
  BY <1>1 DEF File
<1> QED
  BY <1>1, <1>2 DEF Shown, ViewSet, Live

\* Views are the same that agree in each part.
LEMMA SameView ==
    ASSUME NEW v \in ViewSet, NEW w \in ViewSet, v.is = w.is, v.path = w.path,
           \A t \in Tag : t \in v.tags <=> t \in w.tags
    PROVE  v = w
<1>1. v.tags = w.tags
  <2>1. v.tags \subseteq Tag /\ w.tags \subseteq Tag
    BY DEF ViewSet
  <2> QED
    BY <2>1
<1> QED
  BY <1>1 DEF ViewSet

\* A frame turns a view once.
LEMMA TurnTwice ==
    ASSUME NEW v \in ViewSet, NEW x \in FrameSet
    PROVE  Turn(v, x) \in ViewSet /\ Turn(Turn(v, x), x) = Turn(v, x)
<1>1. /\ v.is \in {"unknown", "live", "deleted", "purged"} /\ v.tags \in SUBSET Tag
      /\ v.path \in Path \cup {NoPath}
  BY DEF ViewSet
<1>2. CASE x.change.kind = "FileMetadataAdded"
  BY <1>1, <1>2, ChangeFields DEF Turn, ViewSet
<1>3. CASE x.change.kind = "FileMoved"
  <2>1. PICK u : u = [v EXCEPT !.path = x.change.path]
    OBVIOUS
  <2>2. u \in ViewSet /\ [u EXCEPT !.path = x.change.path] = u /\ u.is = v.is
    BY <1>3, <2>1, ChangeFields DEF ViewSet
  <2> QED
    BY <1>3, <2>1, <2>2 DEF Turn
<1>4. CASE x.change.kind = "FileDeleted"
  <2>1. PICK u : u = [v EXCEPT !.is = "deleted"]
    OBVIOUS
  <2>2. u \in ViewSet /\ u.is = "deleted"
    BY <2>1 DEF ViewSet
  <2> QED
    BY <1>4, <2>1, <2>2 DEF Turn
<1>5. CASE x.change.kind = "FileRestored"
  <2>1. PICK u : u = [v EXCEPT !.is = "live"]
    OBVIOUS
  <2>2. u \in ViewSet /\ u.is = "live"
    BY <2>1 DEF ViewSet
  <2> QED
    BY <1>5, <2>1, <2>2 DEF Turn
<1>6. CASE x.change.kind = "FilePurged"
  BY <1>6 DEF Turn, PurgedView, ViewSet
<1>7. CASE x.change.kind = "FileTagged"
  <2>1. PICK u : u = [v EXCEPT !.tags = @ \cup {x.change.tag}]
    OBVIOUS
  <2>2. u \in ViewSet /\ u.is = v.is /\ [u EXCEPT !.tags = @ \cup {x.change.tag}] = u
    BY <1>1, <1>7, <2>1, ChangeFields DEF ViewSet
  <2> QED
    BY <1>7, <2>1, <2>2 DEF Turn
<1>8. CASE x.change.kind = "FileUntagged"
  <2>1. PICK u : u = [v EXCEPT !.tags = @ \ {x.change.tag}]
    OBVIOUS
  <2>2. u \in ViewSet /\ u.is = v.is /\ [u EXCEPT !.tags = @ \ {x.change.tag}] = u
    BY <1>1, <1>8, <2>1, ChangeFields DEF ViewSet
  <2> QED
    BY <1>8, <2>1, <2>2 DEF Turn
<1> QED
  BY <1>2, <1>3, <1>4, <1>5, <1>6, <1>7, <1>8, ChangeFields

\* What a frame makes of the tags of its file.
TagsMade(x, old, rows, new) ==
    /\ new \in TagRows
    /\ \A f \in FileId, t \in Tag : f # x.file => new[<<f, t>>] = rows[<<f, t>>]
    /\ OfTag(x.change) => \A t \in Tag :
           new[<<x.file, t>>] =
               IF t = x.change.tag
               THEN Written(rows[<<x.file, t>>], x.change.kind = "FileUntagged", x.change.at)
               ELSE rows[<<x.file, t>>]
    /\ Adds(x) => \A t \in Tag :
           new[<<x.file, t>>] =
               IF t \in x.tags /\ ~old.known /\ ~old.purged
               THEN Written(rows[<<x.file, t>>], FALSE, x.change.pathAt)
               ELSE rows[<<x.file, t>>]
    /\ x.change.kind \in {"FileMoved", "FileDeleted", "FileRestored"} => \A t \in Tag :
           new[<<x.file, t>>] = rows[<<x.file, t>>]

\* A frame writes the tags of its file only.
LEMMA TagsTurn ==
    ASSUME NEW x \in FrameSet, NEW rows \in TagRows,
           NEW old, old.known \in BOOLEAN, old.purged \in BOOLEAN
    PROVE  TagsMade(x, old, rows, TagsAfter(rows, x, old))
<1> SUFFICES ASSUME NEW new, new = TagsAfter(rows, x, old)
             PROVE  TagsMade(x, old, rows, new)
  OBVIOUS
<1>0. x.file \in FileId
  BY ChangeFields
<1>1. ASSUME NEW r \in FileId \X Tag
      PROVE  /\ new[r] \in TagRow
             /\ r[1] # x.file => new[r] = rows[r]
             /\ r[1] = x.file /\ OfTag(x.change) =>
                    new[r] = IF r[2] = x.change.tag
                             THEN Written(rows[r], x.change.kind = "FileUntagged", x.change.at)
                             ELSE rows[r]
             /\ r[1] = x.file /\ Adds(x) =>
                    new[r] = IF r[2] \in x.tags /\ ~old.known /\ ~old.purged
                             THEN Written(rows[r], FALSE, x.change.pathAt)
                             ELSE rows[r]
             /\ r[1] = x.file /\ x.change.kind \in {"FileMoved", "FileDeleted", "FileRestored"} =>
                    new[r] = rows[r]
  <2>1. rows[r] \in TagRow /\ NoRow \in TagRow
    BY DEF TagRows, TagRow, NoRow
  <2>2. OfTag(x.change) => Written(rows[r], x.change.kind = "FileUntagged", x.change.at) \in TagRow
    BY <2>1, ChangeFields DEF Written, TagRow, OfTag
  <2>3. Adds(x) => Written(rows[r], FALSE, x.change.pathAt) \in TagRow
    BY <2>1, ChangeFields DEF Written, TagRow, Adds
  <2>4. PICK a, b, k : /\ a = Written(rows[r], x.change.kind = "FileUntagged", x.change.at)
                       /\ b = Written(rows[r], FALSE, x.change.pathAt)
                       /\ k = x.change.kind
    OBVIOUS
  <2>5. new[r] = IF r[1] # x.file THEN rows[r]
                 ELSE CASE OfTag(x.change) /\ r[2] = x.change.tag -> a
                        [] k = "FileMetadataAdded" /\ r[2] \in x.tags /\ ~old.known /\ ~old.purged -> b
                        [] k = "FilePurged" /\ (old.known \/ ~old.purged) -> NoRow
                        [] OTHER -> rows[r]
    BY <2>4 DEF TagsAfter
  <2>6. /\ OfTag(x.change) <=> k \in {"FileTagged", "FileUntagged"}
        /\ Adds(x) <=> k = "FileMetadataAdded"
    BY <2>4 DEF OfTag, Adds
  <2>7. CASE r[1] # x.file
    BY <2>1, <2>5, <2>7
  <2>8. CASE r[1] = x.file /\ k \in {"FileTagged", "FileUntagged"}
    <3>1. new[r] = IF r[2] = x.change.tag THEN a ELSE rows[r]
      BY <2>5, <2>6, <2>8
    <3> QED
      BY <2>1, <2>2, <2>4, <2>6, <2>8, <3>1
  <2>9. CASE r[1] = x.file /\ k = "FileMetadataAdded"
    <3>1. new[r] = IF r[2] \in x.tags /\ ~old.known /\ ~old.purged THEN b ELSE rows[r]
      BY <2>5, <2>6, <2>9
    <3> QED
      BY <2>1, <2>3, <2>4, <2>6, <2>9, <3>1
  <2>10. CASE r[1] = x.file /\ k \notin {"FileTagged", "FileUntagged", "FileMetadataAdded"}
    <3>1. new[r] \in {NoRow, rows[r]} /\ (k # "FilePurged" => new[r] = rows[r])
      BY <2>5, <2>6, <2>10
    <3> QED
      BY <2>1, <2>4, <2>6, <2>10, <3>1
  <2> QED
    BY <2>7, <2>8, <2>9, <2>10
<1>2. new \in [FileId \X Tag -> TagRow]
  <2>1. DOMAIN new = FileId \X Tag /\ new = [r \in FileId \X Tag |-> new[r]]
    BY DEF TagsAfter
  <2> QED
    BY <1>1, <2>1
<1>3. \A f \in FileId, t \in Tag : <<f, t>> \in FileId \X Tag /\ <<f, t>>[1] = f /\ <<f, t>>[2] = t
  OBVIOUS
<1>4. \A f \in FileId, t \in Tag : f # x.file => new[<<f, t>>] = rows[<<f, t>>]
  BY <1>1, <1>3
<1>5. OfTag(x.change) => \A t \in Tag :
                  new[<<x.file, t>>] =
                      IF t = x.change.tag
                      THEN Written(rows[<<x.file, t>>], x.change.kind = "FileUntagged", x.change.at)
                      ELSE rows[<<x.file, t>>]
  BY <1>0, <1>1, <1>3
<1>6. Adds(x) => \A t \in Tag :
                  new[<<x.file, t>>] =
                      IF t \in x.tags /\ ~old.known /\ ~old.purged
                      THEN Written(rows[<<x.file, t>>], FALSE, x.change.pathAt)
                      ELSE rows[<<x.file, t>>]
  BY <1>0, <1>1, <1>3
<1>7. x.change.kind \in {"FileMoved", "FileDeleted", "FileRestored"} => \A t \in Tag :
                  new[<<x.file, t>>] = rows[<<x.file, t>>]
  BY <1>0, <1>1, <1>3
<1> QED
  BY <1>2, <1>4, <1>5, <1>6, <1>7 DEF TagRows, TagsMade

\* What a change makes of a row.
RowMade(x, row, o) ==
    /\ RowSound(x.file, o.file)
    /\ row.purged => o.file = row
    /\ Adds(x) /\ ~row.purged =>
           /\ o.file.known /\ ~o.file.purged
           /\ row.known => o.file.path = row.path /\ (o.file.deleted => row.deleted)
           /\ ~row.known => ~o.file.deleted /\ o.file.path = x.change.path /\ o.announce # {}
    /\ x.change.kind = "FileMoved" /\ ~row.purged =>
           IF row.known /\ row.pathAt < x.change.at
           THEN /\ o.file = [row EXCEPT !.path = x.change.path, !.pathAt = x.change.at]
                /\ o.announce # {}
           ELSE o.file = row
    /\ x.change.kind = "FileDeleted" /\ ~row.purged =>
           IF ~row.deleted /\ row.known /\ x.change.at > AliveAt(row)
           THEN /\ o.file = [row EXCEPT !.deleted = TRUE, !.deletedAt = x.change.at]
                /\ o.announce # {}
           ELSE o.file = row
    /\ x.change.kind = "FileRestored" /\ ~row.purged =>
           /\ o.file \in {row, ApplyRestore(row, x.change.at)}
           /\ ~Live(row) => o.file = ApplyRestore(row, x.change.at) /\ o.announce # {}
    /\ x.change.kind = "FilePurged" /\ ~row.purged =>
           o.file = [Unknown EXCEPT !.purged = TRUE] /\ o.announce # {}

\* So the writer does, change by change.
LEMMA RowFacts ==
    ASSUME NEW x \in FrameSet, ~OfTag(x.change), NEW row, RowSound(x.file, row)
    PROVE  RowMade(x, row, ApplyChange(row, x.change))
<1> SUFFICES ASSUME NEW o, o = ApplyChange(row, x.change)
             PROVE
                /\ RowSound(x.file, o.file)
                /\ row.purged => o.file = row
                /\ Adds(x) /\ ~row.purged =>
                       /\ o.file.known /\ ~o.file.purged
                       /\ row.known => o.file.path = row.path /\ (o.file.deleted => row.deleted)
                       /\ ~row.known => ~o.file.deleted /\ o.file.path = x.change.path /\ o.announce # {}
                /\ x.change.kind = "FileMoved" /\ ~row.purged =>
                       IF row.known /\ row.pathAt < x.change.at
                       THEN /\ o.file = [row EXCEPT !.path = x.change.path, !.pathAt = x.change.at]
                            /\ o.announce # {}
                       ELSE o.file = row
                /\ x.change.kind = "FileDeleted" /\ ~row.purged =>
                       IF ~row.deleted /\ row.known /\ x.change.at > AliveAt(row)
                       THEN /\ o.file = [row EXCEPT !.deleted = TRUE, !.deletedAt = x.change.at]
                            /\ o.announce # {}
                       ELSE o.file = row
                /\ x.change.kind = "FileRestored" /\ ~row.purged =>
                       /\ o.file \in {row, ApplyRestore(row, x.change.at)}
                       /\ ~Live(row) => o.file = ApplyRestore(row, x.change.at) /\ o.announce # {}
                /\ x.change.kind = "FilePurged" /\ ~row.purged =>
                       o.file = [Unknown EXCEPT !.purged = TRUE] /\ o.announce # {}
  BY DEF RowMade
<1> DEFINE f == x.file
           c == x.change
<1>0. /\ f \in FileId /\ c \in ChangeOf(f) /\ RowOK(f, row) /\ (row.purged => ~row.known)
      /\ row \in File
  BY ChangeFields, FrameCases DEF RowSound, RowOK
<1>1. RowOK(f, o.file)
  BY <1>0, RowAfter
<1>2. CASE row.purged
  <2>1. CASE c.kind # "FilePurged"
    <3>1. o.file = row
      BY <1>2, <2>1 DEF ApplyChange, Dropped, Outcome
    <3> QED
      BY <1>2, <3>1
  <2>2. CASE c.kind = "FilePurged"
    <3>1. o = ApplyPurged(row, c)
      BY <2>2 DEF ApplyChange
    <3>2. o.file = row
      BY <1>0, <1>2, <3>1 DEF ApplyPurged, Dropped, Outcome
    <3> QED
      BY <1>2, <3>2
  <2> QED
    BY <2>1, <2>2
<1>3. CASE ~row.purged /\ c.kind = "FileMetadataAdded"
  <2>1. o = ApplyAdded(row, c)
    BY <1>3 DEF ApplyChange
  <2>2. c.path \in Path /\ c.pathAt \in Nat /\ c.at \in Nat /\ c.hash = Hash[f]
    BY <1>3, ChangeFields
  <2>3. CASE row.known /\ ~SupersedesLatest(row, c.at)
    <3>1. o.file = row
      BY <2>1, <2>3 DEF ApplyAdded, Relayed, Outcome
    <3> QED
      BY <1>0, <1>3, <2>3, <3>1 DEF Adds, RowSound
  <2>4. CASE row.known /\ SupersedesLatest(row, c.at)
    <3>1. o.file = AppendVersion(row, Hash[f], c.at)
      BY <2>1, <2>2, <2>4 DEF ApplyAdded, Outcome
    <3>2. PICK mid : mid = RecordVersion(row, Hash[f], c.at)
      OBVIOUS
    <3>3. /\ RowOK(f, mid) /\ mid.known = row.known /\ mid.deleted = row.deleted
          /\ mid.purged = row.purged
      BY <1>0, <2>2, <3>2, RecordedOK
    <3>4. mid.path = row.path
      BY <1>0, <3>2 DEF RecordVersion, File
    <3>5. o.file = RestoreFile(mid)
      BY <3>1, <3>2 DEF AppendVersion
    <3>6. /\ RestoreFile(mid).known = mid.known /\ RestoreFile(mid).purged = mid.purged
          /\ RestoreFile(mid).path = mid.path
          /\ RestoreFile(mid).deleted => mid.deleted
      BY <3>3 DEF RestoreFile, RowOK, File
    <3> QED
      BY <1>1, <1>3, <2>4, <3>3, <3>4, <3>5, <3>6 DEF Adds, RowSound
  <2>5. CASE ~row.known
    <3>1. /\ o.file = AppendVersion(AddFile(row, c.path, c.pathAt), Hash[f], c.at)
          /\ o.announce = {c}
      BY <2>1, <2>2, <2>5 DEF ApplyAdded, Outcome
    <3>2. Live(o.file) /\ o.file.purged = row.purged
      BY <1>0, <2>2, <3>1, AddedOK
    <3>3. PICK mid : mid = AddFile(row, c.path, c.pathAt)
      OBVIOUS
    <3>4. mid \in File /\ mid.path = c.path
      BY <1>0, <2>2, <3>3 DEF AddFile, File
    <3>5. PICK rec : rec = RecordVersion(mid, Hash[f], c.at)
      OBVIOUS
    <3>6. rec.path = c.path /\ RestoreFile(rec).path = rec.path
      <4>1. rec = [mid EXCEPT !.log = Append(@, [hash |-> Hash[f], at |-> c.at])]
        BY <3>5 DEF RecordVersion
      <4>2. rec.path = mid.path /\ DOMAIN rec = DOMAIN mid
        BY <3>4, <4>1 DEF File
      <4>3. [rec EXCEPT !.deleted = FALSE].path = rec.path
        BY <3>4, <4>2 DEF File
      <4> QED
        BY <3>4, <4>2, <4>3 DEF RestoreFile
    <3>7. o.file.path = c.path
      BY <3>1, <3>3, <3>5, <3>6 DEF AppendVersion
    <3> QED
      BY <1>1, <1>3, <2>5, <3>1, <3>2, <3>7 DEF Adds, RowSound, Live
  <2> QED
    BY <2>3, <2>4, <2>5
<1>4. CASE ~row.purged /\ c.kind = "FileMoved"
  <2>1. o = ApplyMoved(row, c)
    BY <1>4 DEF ApplyChange
  <2>2. CASE row.known /\ row.pathAt < c.at
    <3>1. /\ o.file = [row EXCEPT !.path = c.path, !.pathAt = c.at] /\ o.announce = {c}
      BY <2>1, <2>2 DEF ApplyMoved, MoveWins, UpdatePath, Outcome
    <3>2. o.file.purged = row.purged
      BY <1>0, <3>1 DEF File
    <3> QED
      BY <1>1, <1>4, <2>2, <3>1, <3>2 DEF Adds, RowSound
  <2>3. CASE ~(row.known /\ row.pathAt < c.at)
    <3>1. o.file = row
      BY <2>1, <2>3 DEF ApplyMoved, MoveWins, Dropped, Outcome
    <3> QED
      BY <1>0, <1>4, <2>3, <3>1 DEF Adds, RowSound
  <2> QED
    BY <2>2, <2>3
<1>5. CASE ~row.purged /\ c.kind = "FileDeleted"
  <2>1. o = ApplyDeleted(row, c)
    BY <1>5 DEF ApplyChange
  <2>2. CASE ~row.deleted /\ row.known /\ c.at > AliveAt(row)
    <3>1. /\ o.file = [row EXCEPT !.deleted = TRUE, !.deletedAt = c.at] /\ o.announce = {c}
      BY <2>1, <2>2 DEF ApplyDeleted, DeleteWins, RemoveFile, Outcome
    <3>2. o.file.purged = row.purged
      BY <1>0, <3>1 DEF File
    <3> QED
      BY <1>1, <1>5, <2>2, <3>1, <3>2 DEF Adds, RowSound
  <2>3. CASE ~(~row.deleted /\ row.known /\ c.at > AliveAt(row))
    <3>1. o.file = row
      BY <2>1, <2>3 DEF ApplyDeleted, DeleteWins, Dropped, Outcome
    <3> QED
      BY <1>0, <1>5, <2>3, <3>1 DEF Adds, RowSound
  <2> QED
    BY <2>2, <2>3
<1>6. CASE ~row.purged /\ c.kind = "FileRestored"
  <2>1. o = ApplyRestored(row, c)
    BY <1>6 DEF ApplyChange
  <2>2. /\ o.file \in {row, ApplyRestore(row, c.at)}
        /\ ~Live(row) => o.file = ApplyRestore(row, c.at) /\ o.announce # {}
    BY <2>1 DEF ApplyRestored, Relayed, Outcome
  <2>3. ApplyRestore(row, c.at).purged = row.purged
    BY <1>0 DEF ApplyRestore, File
  <2> QED
    BY <1>1, <1>6, <2>2, <2>3 DEF Adds, RowSound
<1>7. CASE ~row.purged /\ c.kind = "FilePurged"
  <2>1. o = ApplyPurged(row, c)
    BY <1>7 DEF ApplyChange
  <2>2. o.file = StripPurged(RecordPurge(row)) /\ o.announce = {c}
    BY <1>7, <2>1 DEF ApplyPurged, Outcome
  <2>3. RecordPurge(row).purged = TRUE
    BY <1>0 DEF RecordPurge, File
  <2>4. o.file = [Unknown EXCEPT !.purged = TRUE]
    BY <2>2, <2>3 DEF StripPurged
  <2>5. o.file.known = FALSE
    BY <2>4 DEF Unknown
  <2> QED
    BY <1>1, <1>7, <2>2, <2>4, <2>5 DEF Adds, RowSound
<1> QED
  BY <1>2, <1>3, <1>4, <1>5, <1>6, <1>7, ChangeFields DEF OfTag

\* What is shown has turned.
Turned(x, row, rows, o, new) ==
    LET v == Shown(row, rows, x.file)
    IN  /\ RowSound(x.file, o.file) /\ new \in TagRows
        /\ Shown(o.file, new, x.file) = Turn(v, x)
        /\ Turn(v, x) # v => o.announce # {}

\* A frame that is newer than what it changes turns what is shown, and one that
\* changes what is shown is passed on.
LEMMA RowTurns ==
    ASSUME NEW x \in FrameSet, NEW row, RowSound(x.file, row), NEW rows \in TagRows,
           Adds(x) => Shown(row, rows, x.file).is # "deleted",
           \/ Turn(Shown(row, rows, x.file), x) = Shown(row, rows, x.file)
           \/ NewerRow(row, rows, x)
    PROVE  Turned(x, row, rows, IF OfTag(x.change) THEN Relayed(row, x.change) ELSE ApplyChange(row, x.change),
                  TagsAfter(rows, x, row))
<1> SUFFICES ASSUME NEW v, v = Shown(row, rows, x.file),
                    Adds(x) => v.is # "deleted",
                    Turn(v, x) # v => NewerRow(row, rows, x),
                    NEW o, o = IF OfTag(x.change) THEN Relayed(row, x.change) ELSE ApplyChange(row, x.change),
                    NEW new, new = TagsAfter(rows, x, row)
             PROVE  /\ RowSound(x.file, o.file) /\ new \in TagRows
                    /\ Shown(o.file, new, x.file) = Turn(v, x)
                    /\ Turn(v, x) # v => o.announce # {}
  BY DEF Turned
<1> DEFINE f == x.file
           c == x.change
           w == Shown(o.file, new, f)
<1>0. /\ f \in FileId /\ row \in File /\ row.known \in BOOLEAN /\ row.purged \in BOOLEAN
      /\ row.deleted \in BOOLEAN /\ row.pathAt \in Nat /\ row.restoredAt \in Nat
      /\ row.deletedAt \in Nat
      /\ (row.purged => ~row.known)
  BY ChangeFields DEF RowSound, RowOK, File
<1>1. /\ new \in TagRows
      /\ OfTag(c) => \A t \in Tag :
             new[<<f, t>>] = IF t = c.tag THEN Written(rows[<<f, t>>], c.kind = "FileUntagged", c.at)
                             ELSE rows[<<f, t>>]
      /\ Adds(x) => \A t \in Tag :
             new[<<f, t>>] = IF t \in x.tags /\ ~row.known /\ ~row.purged
                             THEN Written(rows[<<f, t>>], FALSE, c.pathAt)
                             ELSE rows[<<f, t>>]
      /\ c.kind \in {"FileMoved", "FileDeleted", "FileRestored"} => \A t \in Tag :
             new[<<f, t>>] = rows[<<f, t>>]
  <2>1. TagsMade(x, row, rows, new)
    BY <1>0, TagsTurn
  <2> QED
    BY <2>1 DEF TagsMade
<1>r. ~OfTag(c) => RowMade(x, row, o)
  BY RowFacts
<1>2. RowSound(f, o.file)
  <2>1. CASE OfTag(c)
    BY <2>1 DEF Relayed, Outcome
  <2>2. CASE ~OfTag(c)
    BY <1>r, <2>2 DEF RowMade
  <2> QED
    BY <2>1, <2>2
<1>3. /\ v \in ViewSet /\ w \in ViewSet /\ Turn(v, x) \in ViewSet
      /\ v.is \in {"unknown", "live", "deleted", "purged"}
  BY <1>0, <1>1, <1>2, ShownIs, TurnTwice DEF ViewSet
<1>4. /\ v.is = "purged" <=> row.purged
      /\ v.is = "unknown" <=> ~row.purged /\ ~row.known
      /\ v.is = "live" <=> Live(row)
      /\ v.is = "deleted" <=> row.known /\ row.deleted
      /\ v.is \in {"live", "deleted"} => v.path = row.path
      /\ \A t \in Tag : t \in v.tags <=> ~row.purged /\ On(rows, f, t)
  BY <1>0, ShownIs
<1>5. /\ w.is = "purged" <=> o.file.purged
      /\ w.is = "unknown" <=> ~o.file.purged /\ ~o.file.known
      /\ w.is = "live" <=> Live(o.file)
      /\ w.is = "deleted" <=> o.file.known /\ o.file.deleted
      /\ w.is \in {"live", "deleted"} => w.path = o.file.path
      /\ \A t \in Tag : t \in w.tags <=> ~o.file.purged /\ On(new, f, t)
  BY <1>0, <1>1, <1>2, ShownIs
<1>6. /\ v.path = IF row.known THEN row.path ELSE NoPath
      /\ w.path = IF o.file.known THEN o.file.path ELSE NoPath
      /\ row.purged => v.tags = {}
      /\ o.file.purged => w.tags = {}
  BY DEF Shown
<1> HIDE DEF w
<1>7. ASSUME o.file = row, \A t \in Tag : new[<<f, t>>] = rows[<<f, t>>]
      PROVE  w = v
  <2>1. \A t \in Tag : t \in w.tags <=> t \in v.tags
    BY <1>4, <1>5, <1>7 DEF On
  <2>2. w.is = v.is /\ w.path = v.path
    BY <1>3, <1>7 DEF w, Shown
  <2> QED
    BY <1>3, <2>1, <2>2, SameView
<1>8. CASE OfTag(c)
  <2>1. o.file = row /\ o.announce # {}
    BY <1>8 DEF Relayed, Outcome
  <2>2. w.is = v.is /\ w.path = v.path
    BY <2>1 DEF w, Shown
  <2>3. c.tag \in Tag /\ c.at \in Nat /\ c.kind \in {"FileTagged", "FileUntagged"}
    BY <1>8, ChangeFields DEF OfTag
  <2>4. CASE v.is = "purged"
    <3>1. Turn(v, x) = v
      BY <2>3, <2>4 DEF Turn
    <3>2. v.tags = {} /\ w.tags = {}
      BY <1>4, <1>6, <2>1, <2>4
    <3>3. w = v
      BY <1>3, <2>2, <3>2, SameView
    <3> QED
      BY <1>1, <1>2, <2>1, <3>1, <3>3 DEF w
  <2>5. CASE v.is # "purged"
    <3>1. /\ Turn(v, x).is = v.is /\ Turn(v, x).path = v.path
          /\ Turn(v, x).tags = IF c.kind = "FileTagged" THEN v.tags \cup {c.tag} ELSE v.tags \ {c.tag}
      BY <1>3, <2>3, <2>5 DEF Turn, ViewSet
    <3>2. ASSUME NEW t \in Tag
          PROVE  t \in w.tags <=> t \in Turn(v, x).tags
      <4>1. t \in w.tags <=> On(new, f, t)
        BY <1>4, <1>5, <2>1, <2>5
      <4>2. t \in v.tags <=> On(rows, f, t)
        BY <1>4, <2>5
      <4>3. rows[<<f, t>>] \in TagRow /\ rows[<<f, t>>].at \in Nat /\ rows[<<f, t>>].deleted \in BOOLEAN
        BY <1>0 DEF TagRows, TagRow
      <4>4. CASE t # c.tag
        BY <1>1, <1>8, <3>1, <4>1, <4>2, <4>4 DEF On
      <4>5. CASE t = c.tag
        <5>1. new[<<f, t>>] = Written(rows[<<f, t>>], c.kind = "FileUntagged", c.at)
          BY <1>1, <1>8, <4>5
        <5>2. CASE c.at > rows[<<f, t>>].at
          <6>1. /\ new[<<f, t>>].at = c.at /\ c.at > 0
                /\ new[<<f, t>>].deleted = (c.kind = "FileUntagged")
            BY <2>3, <4>3, <5>1, <5>2 DEF Written
          <6> QED
            BY <2>3, <3>1, <4>1, <4>5, <6>1 DEF On
        <5>3. CASE ~(c.at > rows[<<f, t>>].at)
          <6>1. new[<<f, t>>] = rows[<<f, t>>]
            BY <5>1, <5>3 DEF Written
          <6>2. ~NewerRow(row, rows, x)
            BY <2>3, <4>5, <5>3 DEF NewerRow
          <6>3. Turn(v, x) = v
            BY <6>2
          <6> QED
            BY <4>1, <4>2, <6>1, <6>3 DEF On
        <5> QED
          BY <5>2, <5>3
      <4> QED
        BY <4>4, <4>5
    <3>3. w = Turn(v, x)
      BY <1>3, <2>2, <3>1, <3>2, SameView
    <3> QED
      BY <1>1, <1>2, <2>1, <3>3 DEF w
  <2> QED
    BY <2>4, <2>5
<1>9. CASE ~OfTag(c) /\ row.purged
  <2>1. o.file = row
    BY <1>9, <1>r DEF RowMade
  <2>2. v.is = "purged" /\ w.is = "purged" /\ v.tags = {} /\ w.tags = {} /\ v.path = NoPath /\ w.path = NoPath
    BY <1>0, <1>4, <1>5, <1>6, <1>9, <2>1
  <2>3. w = v
    BY <1>3, <2>2, SameView
  <2>4. PurgedView \in ViewSet /\ PurgedView.is = "purged" /\ PurgedView.path = NoPath /\ PurgedView.tags = {}
    BY DEF PurgedView, ViewSet
  <2>5. v = PurgedView
    BY <1>3, <2>2, <2>4, SameView
  <2>6. Turn(v, x) = v
    BY <1>9, <2>2, <2>5, ChangeFields DEF Turn, OfTag
  <2> QED
    BY <1>1, <1>2, <2>3, <2>6 DEF w
<1>10. CASE ~row.purged /\ c.kind = "FileMetadataAdded"
  <2>0. Adds(x) /\ ~OfTag(c) /\ v.is # "deleted" /\ v.is # "purged" /\ c.pathAt \in Nat
    BY <1>4, <1>10, ChangeFields DEF Adds, OfTag
  <2>1. CASE row.known
    <3>1. v.is = "live" /\ ~row.deleted
      BY <1>3, <1>4, <2>0, <2>1
    <3>2. o.file.known /\ ~o.file.purged /\ o.file.path = row.path /\ ~o.file.deleted
      <4>1. /\ o.file.known /\ ~o.file.purged /\ o.file.path = row.path /\ (o.file.deleted => row.deleted)
        BY <1>10, <2>0, <2>1, <1>r DEF RowMade
      <4> QED
        BY <3>1, <4>1
    <3>3. w.is = "live" /\ w.path = v.path
      BY <1>4, <1>5, <2>1, <3>1, <3>2 DEF Live
    <3>4. \A t \in Tag : t \in w.tags <=> t \in v.tags
      BY <1>1, <1>4, <1>5, <1>10, <2>0, <2>1, <3>2 DEF On
    <3>5. w = v
      BY <1>3, <3>1, <3>3, <3>4, SameView
    <3>6. Turn(v, x) = v
      BY <1>10, <3>1 DEF Turn
    <3> QED
      BY <1>1, <1>2, <3>5, <3>6 DEF w
  <2>2. CASE ~row.known
    <3>1. v.is = "unknown"
      BY <1>4, <1>10, <2>2
    <3>2. o.file.known /\ ~o.file.purged /\ ~o.file.deleted /\ o.file.path = c.path /\ o.announce # {}
      BY <1>10, <2>0, <2>2, <1>r DEF RowMade
    <3>3. Turn(v, x) = [is |-> "live", path |-> c.path, tags |-> v.tags \cup x.tags]
      BY <1>10, <3>1 DEF Turn
    <3>4. w.is = "live" /\ w.path = c.path
      BY <1>5, <3>2 DEF Live
    <3>5. Turn(v, x) # v
      BY <3>1, <3>3
    <3>6. \A t \in x.tags : c.pathAt > rows[<<f, t>>].at
      BY <1>10, <3>5 DEF NewerRow
    <3>7. ASSUME NEW t \in Tag
          PROVE  t \in w.tags <=> t \in v.tags \cup x.tags
      <4>1. t \in w.tags <=> On(new, f, t)
        BY <1>5, <3>2
      <4>2. t \in v.tags <=> On(rows, f, t)
        BY <1>4, <1>10
      <4>3. new[<<f, t>>] = IF t \in x.tags THEN Written(rows[<<f, t>>], FALSE, c.pathAt) ELSE rows[<<f, t>>]
        BY <1>1, <1>10, <2>0, <2>2
      <4>4. rows[<<f, t>>].at \in Nat
        BY <1>0 DEF TagRows, TagRow
      <4>5. CASE t \in x.tags
        <5>1. new[<<f, t>>] = [deleted |-> FALSE, at |-> c.pathAt] /\ c.pathAt > 0
          BY <2>0, <3>6, <4>3, <4>4, <4>5 DEF Written
        <5> QED
          BY <4>1, <4>5, <5>1 DEF On
      <4>6. CASE t \notin x.tags
        BY <4>1, <4>2, <4>3, <4>6 DEF On
      <4> QED
        BY <4>5, <4>6
    <3>8. w = Turn(v, x)
      <4>1. Turn(v, x).is = "live" /\ Turn(v, x).path = c.path /\ Turn(v, x).tags = v.tags \cup x.tags
        BY <3>3
      <4> QED
        BY <1>3, <3>4, <3>7, <4>1, SameView
    <3> QED
      BY <1>1, <1>2, <3>2, <3>8 DEF w
  <2> QED
    BY <2>1, <2>2
<1>11. CASE ~row.purged /\ c.kind = "FilePurged"
  <2>1. o.file = [Unknown EXCEPT !.purged = TRUE] /\ o.announce # {}
    BY <1>11, <1>r DEF RowMade, OfTag
  <2>2. o.file.purged /\ ~o.file.known
    BY <2>1 DEF Unknown
  <2>3. w.is = "purged" /\ w.path = NoPath /\ w.tags = {}
    BY <1>5, <1>6, <2>2
  <2>4. PurgedView \in ViewSet /\ PurgedView.is = "purged" /\ PurgedView.path = NoPath /\ PurgedView.tags = {}
    BY DEF PurgedView, ViewSet
  <2>5. w = PurgedView
    BY <1>3, <2>3, <2>4, SameView
  <2>6. Turn(v, x) = PurgedView
    BY <1>11 DEF Turn
  <2> QED
    BY <1>1, <1>2, <2>1, <2>5, <2>6 DEF w
<1>12. ASSUME c.kind \in {"FileMoved", "FileDeleted", "FileRestored"}, ~row.purged, ~o.file.purged,
              w.is = Turn(v, x).is, w.path = Turn(v, x).path, Turn(v, x).tags = v.tags
       PROVE  w = Turn(v, x)
  <2>1. \A t \in Tag : t \in w.tags <=> t \in v.tags
    BY <1>1, <1>4, <1>5, <1>12 DEF On
  <2> QED
    BY <1>3, <1>12, <2>1, SameView
<1>13. CASE ~row.purged /\ c.kind = "FileMoved"
  <2>0. ~OfTag(c) /\ c.at \in Nat /\ v.is # "purged"
    BY <1>4, <1>13, ChangeFields DEF OfTag
  <2>1. Turn(v, x) = IF row.known THEN [v EXCEPT !.path = c.path] ELSE v
    BY <1>3, <1>4, <1>13 DEF Turn
  <2>2. /\ Turn(v, x).is = v.is /\ Turn(v, x).tags = v.tags
        /\ Turn(v, x).path = IF row.known THEN c.path ELSE v.path
    BY <1>3, <2>1 DEF ViewSet
  <2>3. CASE row.known /\ row.pathAt < c.at
    <3>1. o.file = [row EXCEPT !.path = c.path, !.pathAt = c.at] /\ o.announce # {}
      BY <1>13, <2>0, <2>3, <1>r DEF RowMade
    <3>2. /\ o.file.known = row.known /\ o.file.deleted = row.deleted /\ o.file.purged = row.purged
          /\ o.file.path = c.path
      BY <1>0, <3>1 DEF File
    <3>3. w.is = v.is /\ w.path = c.path
      BY <1>3, <1>4, <1>5, <1>6, <2>3, <3>2 DEF Live
    <3>4. w = Turn(v, x)
      BY <1>12, <1>13, <2>2, <2>3, <3>2, <3>3
    <3> QED
      BY <1>1, <1>2, <3>1, <3>4 DEF w
  <2>4. CASE ~(row.known /\ row.pathAt < c.at)
    <3>1. o.file = row
      BY <1>13, <2>0, <2>4, <1>r DEF RowMade
    <3>2. w = v
      BY <1>1, <1>7, <1>13, <3>1
    <3>3. ~row.known \/ ~NewerRow(row, rows, x)
      BY <1>0, <1>13, <2>0, <2>4 DEF NewerRow
    <3>4. Turn(v, x) = v
      BY <2>1, <3>3
    <3> QED
      BY <1>1, <1>2, <3>2, <3>4 DEF w
  <2> QED
    BY <2>3, <2>4
<1>14. CASE ~row.purged /\ c.kind = "FileDeleted"
  <2>0. ~OfTag(c) /\ c.at \in Nat /\ v.is # "purged"
    BY <1>4, <1>14, ChangeFields DEF OfTag
  <2>1. Turn(v, x) = IF v.is = "live" THEN [v EXCEPT !.is = "deleted"] ELSE v
    BY <1>14 DEF Turn
  <2>3. CASE ~row.deleted /\ row.known /\ c.at > AliveAt(row)
    <3>0. v.is = "live"
      BY <1>4, <2>3 DEF Live
    <3>1. o.file = [row EXCEPT !.deleted = TRUE, !.deletedAt = c.at] /\ o.announce # {}
      BY <1>14, <2>0, <2>3, <1>r DEF RowMade
    <3>2. /\ o.file.known = row.known /\ o.file.deleted = TRUE /\ o.file.purged = row.purged
          /\ o.file.path = row.path
      BY <1>0, <3>1 DEF File
    <3>3. w.is = "deleted" /\ w.path = v.path
      BY <1>3, <1>4, <1>5, <1>6, <2>3, <3>2 DEF Live
    <3>4. Turn(v, x).is = "deleted" /\ Turn(v, x).path = v.path /\ Turn(v, x).tags = v.tags
      BY <1>3, <2>1, <3>0 DEF ViewSet
    <3>5. w = Turn(v, x)
      BY <1>12, <1>14, <2>3, <3>2, <3>3, <3>4
    <3> QED
      BY <1>1, <1>2, <3>1, <3>5 DEF w
  <2>4. CASE ~(~row.deleted /\ row.known /\ c.at > AliveAt(row))
    <3>1. o.file = row
      BY <1>14, <2>0, <2>4, <1>r DEF RowMade
    <3>2. w = v
      BY <1>1, <1>7, <1>14, <3>1
    <3>3. v.is # "live" \/ ~NewerRow(row, rows, x)
      BY <1>4, <1>14, <2>0, <2>4 DEF NewerRow, Live
    <3>4. Turn(v, x) = v
      BY <2>1, <3>3
    <3> QED
      BY <1>1, <1>2, <3>2, <3>4 DEF w
  <2> QED
    BY <2>3, <2>4
<1>15. CASE ~row.purged /\ c.kind = "FileRestored"
  <2>0. ~OfTag(c) /\ c.at \in Nat /\ v.is # "purged"
    BY <1>4, <1>15, ChangeFields DEF OfTag
  <2>1. Turn(v, x) = IF v.is = "deleted" THEN [v EXCEPT !.is = "live"] ELSE v
    BY <1>15 DEF Turn
  <2>2. /\ o.file \in {row, ApplyRestore(row, c.at)}
        /\ ~Live(row) => o.file = ApplyRestore(row, c.at) /\ o.announce # {}
    BY <1>15, <2>0, <1>r DEF RowMade
  <2>3. LET r == ApplyRestore(row, c.at)
        IN  /\ r.known = row.known /\ r.purged = row.purged /\ r.path = row.path
            /\ r.deleted = IF row.known THEN row.deleted /\ ~RestoreWins(row, c.at) ELSE row.deleted
    BY <1>0 DEF ApplyRestore, File
  <2>4. /\ o.file.known = row.known /\ o.file.purged = row.purged /\ o.file.path = row.path
        /\ o.file.deleted => row.deleted
    BY <2>2, <2>3
  <2>5. w.path = v.path
    BY <1>6, <2>4
  <2>6. CASE v.is = "deleted"
    <3>1. row.known /\ row.deleted /\ Turn(v, x) # v
      BY <1>3, <1>4, <2>1, <2>6 DEF ViewSet
    <3>2. c.at > row.deletedAt
      BY <1>15, <3>1 DEF NewerRow
    <3>3. RestoreWins(row, c.at)
      <4>1. LatestAt(row) \in Nat
        <5>1. row.log \in Seq(Version)
          BY <1>0 DEF File
        <5>2. CASE row.log = <<>>
          BY <5>2 DEF LatestAt
        <5>3. CASE row.log # <<>>
          <6>1. Len(row.log) \in 1 .. Len(row.log)
            BY <5>1, <5>3
          <6>2. row.log[Len(row.log)] \in Version
            BY <5>1, <6>1
          <6> QED
            BY <5>3, <6>2 DEF LatestAt, Latest, Version
        <5> QED
          BY <5>2, <5>3
      <4>2. Later(row.restoredAt, c.at) >= c.at /\ Later(row.restoredAt, c.at) \in Nat
        BY <1>0, <2>0 DEF Later
      <4>3. Later(Later(row.restoredAt, c.at), LatestAt(row)) >= Later(row.restoredAt, c.at)
        BY <4>1, <4>2 DEF Later
      <4>4. Later(Later(row.restoredAt, c.at), LatestAt(row)) \in Nat
        BY <4>1, <4>2 DEF Later
      <4> QED
        BY <1>0, <2>0, <3>1, <3>2, <4>2, <4>3, <4>4 DEF RestoreWins
    <3>4. o.file = ApplyRestore(row, c.at) /\ o.announce # {} /\ ~o.file.deleted
      BY <2>2, <2>3, <3>1, <3>3 DEF Live
    <3>5. w.is = "live"
      BY <1>5, <2>4, <3>1, <3>4 DEF Live
    <3>6. Turn(v, x).is = "live" /\ Turn(v, x).path = v.path /\ Turn(v, x).tags = v.tags
      BY <1>3, <2>1, <2>6 DEF ViewSet
    <3>7. w = Turn(v, x)
      BY <1>12, <1>15, <2>4, <2>5, <3>5, <3>6
    <3> QED
      BY <1>1, <1>2, <3>4, <3>7 DEF w
  <2>7. CASE v.is # "deleted"
    <3>1. Turn(v, x) = v
      BY <2>1, <2>7
    <3>2. w.is = v.is
      BY <1>3, <1>4, <1>5, <2>4, <2>7 DEF Live
    <3>3. w = Turn(v, x)
      BY <1>12, <1>15, <2>4, <2>5, <3>1, <3>2
    <3> QED
      BY <1>1, <1>2, <3>1, <3>3 DEF w
  <2> QED
    BY <2>6, <2>7
<1> QED
  BY <1>8, <1>9, <1>10, <1>11, <1>13, <1>14, <1>15, ChangeFields DEF OfTag

-----------------------------------------------------------------------------
(***************************************************************************)
(* Views, by themselves.                                                   *)
(***************************************************************************)
\* A file that is not there has no path, a purged one no tags.
Blank(v) == /\ v.is \in {"unknown", "purged"} => v.path = NoPath
            /\ v.is = "purged" => v.tags = {}

Picture(V, U, Q, N) ==
    /\ V \in [Device \X FileId -> ViewSet] /\ \A r \in Device \X FileId : Blank(V[r])
    /\ U \in [Ends -> SUBSET FrameSet] /\ Q \in SUBSET FrameSet
    /\ N \in SUBSET FileId /\ \A f \in N, g \in FileId : Hash[g] = Hash[f] => g \in N

\* What is shown of a row is blank where the row is.
LEMMA ShownBlank ==
    ASSUME NEW f \in FileId, NEW row, RowSound(f, row), NEW rows \in TagRows
    PROVE  Blank(Shown(row, rows, f))
<1>1. /\ row.known \in BOOLEAN /\ row.deleted \in BOOLEAN /\ row.purged \in BOOLEAN
      /\ (row.purged => ~row.known)
  BY DEF RowSound, RowOK, File
<1> QED
  BY <1>1 DEF Blank, Shown

\* Links lead both ways.
LEMMA EndsBack ==
    ASSUME NEW l \in Ends
    PROVE  <<l[2], l[1]>> \in Ends /\ <<l[2], l[1]>>[1] = l[2] /\ <<l[2], l[1]>>[2] = l[1]
<1>1. l[1] \in Device /\ l[2] \in Device /\ {l[1], l[2]} \in Tree /\ {l[2], l[1]} = {l[1], l[2]}
  BY DEF Ends
<1> QED
  BY <1>1 DEF Ends

\* Devices are connected through their links.
Connected ==
    \A S \in SUBSET Device : S # {} /\ S # Device => \E d \in S, e \in Device \ S : {d, e} \in Tree

\* What neighbours agree on all devices do.
LEMMA AllAlike ==
    ASSUME Connected, NEW F, \A l \in Ends : F[l[1]] = F[l[2]], NEW d \in Device, NEW e \in Device
    PROVE  F[d] = F[e]
<1> DEFINE S == {x \in Device : F[x] = F[d]}
<1>1. ASSUME S # Device PROVE FALSE
  <2>1. PICK x \in S, y \in Device \ S : {x, y} \in Tree
    BY <1>1 DEF Connected
  <2>2. <<x, y>> \in Ends /\ <<x, y>>[1] = x /\ <<x, y>>[2] = y
    BY <2>1 DEF Ends
  <2>3. F[x] = F[y]
    BY <2>2
  <2> QED
    BY <2>1, <2>3
<1> QED
  BY <1>1

Clears(x) == x.change.kind \in {"FileDeleted", "FilePurged", "FileTagged"}

\* What the changes of a command make of a view.
LEMMA ClearTurn ==
    ASSUME NEW v \in ViewSet, Blank(v), NEW x \in FrameSet, Clears(x)
    PROVE  /\ Turn(v, x).is = "unknown" => v.is = "unknown"
           /\ Turn(v, x).is = "live" <=> v.is = "live" /\ ~Removes(x)
           /\ Turn(v, x).is = "deleted" => v.is \in {"live", "deleted"}
           /\ Turn(v, x).is = "purged" <=> v.is = "purged" \/ x.change.kind = "FilePurged"
           /\ Turn(v, x).is # "purged" => Turn(v, x).path = v.path
           /\ Turn(v, x).is # "purged" =>
                  Turn(v, x).tags = v.tags \cup (IF x.change.kind = "FileTagged" THEN {x.change.tag} ELSE {})
           /\ Turn(v, x).is = "purged" => Turn(v, x).tags = {}
           /\ Turn(v, x) \in ViewSet
<1>1. /\ v.is \in {"unknown", "live", "deleted", "purged"} /\ v.tags \in SUBSET Tag
      /\ v.path \in Path \cup {NoPath}
  BY DEF ViewSet
<1>2. Turn(v, x) \in ViewSet
  BY TurnTwice
<1>3. CASE x.change.kind = "FileDeleted"
  <2>1. CASE v.is = "live"
    <3>1. Turn(v, x) = [v EXCEPT !.is = "deleted"]
      BY <1>3, <2>1 DEF Turn
    <3>2. Turn(v, x).is = "deleted" /\ Turn(v, x).path = v.path /\ Turn(v, x).tags = v.tags
      BY <3>1 DEF ViewSet
    <3> QED
      BY <1>2, <1>3, <2>1, <3>2 DEF Removes
  <2>2. CASE v.is # "live"
    <3>1. Turn(v, x) = v
      BY <1>3, <2>2 DEF Turn
    <3> QED
      BY <1>1, <1>3, <2>2, <3>1 DEF Blank
  <2> QED
    BY <2>1, <2>2
<1>4. CASE x.change.kind = "FilePurged"
  BY <1>2, <1>4 DEF Turn, PurgedView, Removes
<1>5. CASE x.change.kind = "FileTagged"
  <2>1. CASE v.is = "purged"
    <3>1. Turn(v, x) = v
      BY <1>5, <2>1 DEF Turn
    <3> QED
      BY <1>1, <1>5, <2>1, <3>1 DEF Removes, Blank
  <2>2. CASE v.is # "purged"
    <3>1. Turn(v, x) = [v EXCEPT !.tags = @ \cup {x.change.tag}]
      BY <1>5, <2>2 DEF Turn
    <3>2. Turn(v, x).is = v.is /\ Turn(v, x).path = v.path /\ Turn(v, x).tags = v.tags \cup {x.change.tag}
      BY <3>1 DEF ViewSet
    <3> QED
      BY <1>1, <1>2, <1>5, <2>2, <3>2 DEF Removes
  <2> QED
    BY <2>1, <2>2
<1> QED
  BY <1>3, <1>4, <1>5 DEF Clears

\* A view that a change of a command no longer turns.
LEMMA ClearKnown ==
    ASSUME NEW v \in ViewSet, Blank(v), NEW x \in FrameSet, Clears(x)
    PROVE  Turn(v, x) = v <=> /\ x.change.kind = "FileDeleted" => v.is # "live"
                              /\ x.change.kind = "FilePurged" => v.is = "purged"
                              /\ x.change.kind = "FileTagged" => v.is = "purged" \/ x.change.tag \in v.tags
<1>1. /\ v.is \in {"unknown", "live", "deleted", "purged"} /\ v.tags \in SUBSET Tag
      /\ v.path \in Path \cup {NoPath}
  BY DEF ViewSet
<1>2. CASE x.change.kind = "FileDeleted"
  <2>1. CASE v.is = "live"
    BY <1>2, <2>1, ClearTurn DEF Removes
  <2>2. CASE v.is # "live"
    BY <1>2, <2>2 DEF Turn
  <2> QED
    BY <2>1, <2>2
<1>3. CASE x.change.kind = "FilePurged"
  <2>1. PurgedView \in ViewSet /\ PurgedView.is = "purged" /\ PurgedView.path = NoPath /\ PurgedView.tags = {}
    BY DEF PurgedView, ViewSet
  <2>2. Turn(v, x) = PurgedView
    BY <1>3 DEF Turn
  <2>3. v.is = "purged" => v = PurgedView
    BY <2>1, SameView DEF Blank
  <2> QED
    BY <1>3, <2>1, <2>2, <2>3
<1>4. CASE x.change.kind = "FileTagged"
  <2>1. CASE v.is = "purged"
    BY <1>4, <2>1 DEF Turn
  <2>2. CASE v.is # "purged"
    <3>1. /\ Turn(v, x) \in ViewSet /\ Turn(v, x).is = v.is
          /\ Turn(v, x).path = v.path /\ Turn(v, x).tags = v.tags \cup {x.change.tag}
      <4>1. Turn(v, x) = [v EXCEPT !.tags = @ \cup {x.change.tag}]
        BY <1>4, <2>2 DEF Turn
      <4> QED
        BY <4>1, TurnTwice DEF ViewSet
    <3>2. x.change.tag \in v.tags => Turn(v, x) = v
      BY <3>1, SameView
    <3>3. Turn(v, x) = v => x.change.tag \in v.tags
      BY <3>1
    <3> QED
      BY <1>4, <2>2, <3>2, <3>3
  <2> QED
    BY <2>1, <2>2
<1> QED
  BY <1>2, <1>3, <1>4 DEF Clears

\* It turns no more after others.
LEMMA ClearStays ==
    ASSUME NEW v \in ViewSet, Blank(v), NEW x \in FrameSet, Clears(x), NEW y \in FrameSet, Clears(y),
           Blank(Turn(v, x)), Turn(v, y) = v
    PROVE  Turn(Turn(v, x), y) = Turn(v, x)
<1>1. /\ y.change.kind = "FileDeleted" => v.is # "live"
      /\ y.change.kind = "FilePurged" => v.is = "purged"
      /\ y.change.kind = "FileTagged" => v.is = "purged" \/ y.change.tag \in v.tags
  BY ClearKnown
<1>2. PICK u \in ViewSet : u = Turn(v, x)
  BY ClearTurn
<1>3. /\ u.is = "live" => v.is = "live"
      /\ v.is = "purged" => u.is = "purged"
      /\ u.is # "purged" => v.tags \subseteq u.tags
  BY <1>2, ClearTurn
<1>4. Turn(u, y) = u <=> /\ y.change.kind = "FileDeleted" => u.is # "live"
                         /\ y.change.kind = "FilePurged" => u.is = "purged"
                         /\ y.change.kind = "FileTagged" => u.is = "purged" \/ y.change.tag \in u.tags
  BY <1>2, ClearKnown
<1> QED
  BY <1>1, <1>2, <1>3, <1>4

-----------------------------------------------------------------------------
(***************************************************************************)
(* When nothing is under way, all is settled.                              *)
(***************************************************************************)
\* Nothing afoot.
LEMMA NothingAfoot ==
    ASSUME NEW U, NEW Q, \A l \in Ends : U[l] = {}, Q = {}
    PROVE  Afoot(U, Q) = {}
BY DEF Afoot

\* A change that has spread.
LEMMA SpreadSettles ==
    ASSUME Connected, NEW V, NEW U, NEW Q, NEW N, NEW P, NEW x, NEW v, NEW w,
           Spreading(V, U, Q, N, P, x, v, w), \A l \in Ends : U[l] = {}
    PROVE  Settled(V, N, P)
<1> DEFINE S == {d \in Device : V[<<d, x.file>>] = w}
<1>1. S # {}
  BY DEF Spreading
<1>2. ASSUME S # Device PROVE FALSE
  <2>1. PICK d \in S, e \in Device \ S : {d, e} \in Tree
    BY <1>1, <1>2 DEF Connected
  <2>2. <<d, e>> \in Ends /\ <<d, e>>[1] = d /\ <<d, e>>[2] = e
    BY <2>1 DEF Ends
  <2>3. x \in U[<<d, e>>]
    BY <2>1, <2>2 DEF Spreading
  <2> QED
    BY <2>2, <2>3
<1>3. \A d \in Device : V[<<d, x.file>>] = w
  BY <1>2
<1>4. ASSUME NEW f \in N, NEW d \in Device, NEW e \in Device
      PROVE  V[<<d, f>>] = V[<<e, f>>]
  <2>1. CASE f = x.file
    BY <1>3, <2>1
  <2>2. CASE f # x.file
    BY <2>2 DEF Spreading
  <2> QED
    BY <2>1, <2>2
<1>5. ASSUME NEW r \in P PROVE \E f \in N : Hash[f] = r[1] /\ Bears(V, f, r[2])
  <2>1. PICK f \in N : /\ Hash[f] = r[1]
                       /\ IF f = x.file THEN w.is = "live" /\ r[2] \in w.tags ELSE Bears(V, f, r[2])
    BY DEF Spreading
  <2> QED
    BY <1>3, <2>1 DEF Bears
<1> QED
  BY <1>4, <1>5 DEF Settled

\* Neighbours that owe each other nothing show the same.
LEMMA ClearAlike ==
    ASSUME NEW V, NEW U, NEW Q, NEW N, NEW P, Picture(V, U, Q, N), Clearing(V, U, Q, N, P),
           NEW f \in N, NEW l \in Ends, \A k \in Ends : U[k] = {}
    PROVE  V[<<l[1], f>>] = V[<<l[2], f>>]
<1>1. PICK d \in Device, e \in Device : d = l[1] /\ e = l[2]
  BY EndsDistinct
<1>2. f \in FileId
  BY DEF Picture
<1>3. PICK v \in ViewSet, w \in ViewSet : v = V[<<d, f>>] /\ w = V[<<e, f>>] /\ Blank(v) /\ Blank(w)
  BY <1>2 DEF Picture
<1>4. PICK k \in Ends : k[1] = e /\ k[2] = d
  BY <1>1, EndsBack
<1>5. /\ v.is # "live" => w.is # "live"
      /\ v.is = "purged" => w.is = "purged"
      /\ w.is # "purged" => \A t \in v.tags : t \in w.tags
  BY <1>1, <1>3 DEF Clearing, LinksOwe, Owes
<1>6. /\ w.is # "live" => v.is # "live"
      /\ w.is = "purged" => v.is = "purged"
      /\ v.is # "purged" => \A t \in w.tags : t \in v.tags
  BY <1>3, <1>4 DEF Clearing, LinksOwe, Owes
<1>7. v.is = "unknown" <=> w.is = "unknown"
  BY <1>3 DEF Clearing, KnownAlike
<1>8. v.is \in {"live", "deleted"} /\ w.is \in {"live", "deleted"} => v.path = w.path
  BY <1>3 DEF Clearing, PathsAlike
<1>9. v.is \in {"unknown", "live", "deleted", "purged"} /\ w.is \in {"unknown", "live", "deleted", "purged"}
  BY DEF ViewSet
<1>10. v.is = w.is
  BY <1>5, <1>6, <1>7, <1>9
<1>11. v.path = w.path
  BY <1>3, <1>8, <1>9, <1>10 DEF Blank
<1>12. \A t \in Tag : t \in v.tags <=> t \in w.tags
  BY <1>3, <1>5, <1>6, <1>10 DEF Blank
<1> QED
  BY <1>1, <1>3, <1>10, <1>11, <1>12, SameView

\* Commands that are done.
LEMMA ClearSettles ==
    ASSUME Connected, NEW V, NEW U, NEW Q, NEW N, NEW P, Picture(V, U, Q, N), Clearing(V, U, Q, N, P),
           \A l \in Ends : U[l] = {}, Q = {}
    PROVE  Settled(V, N, P)
<1>1. ASSUME NEW f \in N, NEW d \in Device, NEW e \in Device
      PROVE  V[<<d, f>>] = V[<<e, f>>]
  <2>1. PICK F : F = [x \in Device |-> V[<<x, f>>]]
    OBVIOUS
  <2>2. ASSUME NEW l \in Ends PROVE F[l[1]] = F[l[2]]
    BY <2>1, ClearAlike, EndsDistinct
  <2>3. F[d] = F[e]
    BY <2>2, AllAlike
  <2> QED
    BY <2>1, <2>3
<1>2. Afoot(U, Q) = {}
  BY NothingAfoot
<1>3. ASSUME NEW r \in P PROVE \E f \in N : Hash[f] = r[1] /\ Bears(V, f, r[2])
  <2>1. PICK f \in N : /\ Hash[f] = r[1]
                       /\ \/ Solid(V, U, Q, f) /\ Bears(V, f, r[2])
                          \/ Anchor(V, U, Q, f) /\ Brought(V, U, Q, f, r[2])
    BY DEF Clearing, Follows
  <2>2. CASE Anchor(V, U, Q, f) /\ Brought(V, U, Q, f, r[2])
    <3>1. PICK d \in Device : r[2] \in V[<<d, f>>].tags
      BY <1>2, <2>2 DEF Brought
    <3>2. \A e \in Device : V[<<e, f>>] = V[<<d, f>>]
      BY <1>1
    <3> QED
      BY <2>1, <2>2, <3>1, <3>2 DEF Bears, Anchor, Solid
  <2> QED
    BY <2>1, <2>2
<1> QED
  BY <1>1, <1>3 DEF Settled

\* At rest commands may begin.
LEMMA SettledClears ==
    ASSUME NEW V, NEW U, NEW Q, NEW N, NEW P, Settled(V, N, P), \A l \in Ends : U[l] = {}, Q = {}
    PROVE  Clearing(V, U, Q, N, P)
<1>1. Afoot(U, Q) = {}
  BY NothingAfoot
<1>2. ASSUME NEW f \in N, NEW d \in Device, NEW e \in Device
      PROVE  V[<<d, f>>] = V[<<e, f>>]
  BY DEF Settled
<1>3. ASSUME NEW f \in N, NEW l \in Ends PROVE V[<<l[1], f>>] = V[<<l[2], f>>]
  BY <1>2, EndsDistinct
<1>4. ASSUME NEW f \in N, NEW d \in Device, V[<<d, f>>].is = "live" PROVE Solid(V, U, Q, f)
  <2>1. ASSUME NEW e \in Device PROVE V[<<e, f>>].is = "live"
    <3>1. V[<<e, f>>] = V[<<d, f>>]
      BY <1>2
    <3> QED
      BY <1>4, <3>1
  <2> QED
    BY <1>1, <2>1 DEF Solid
<1>5. ASSUME NEW r \in P
      PROVE  \E f \in N : Hash[f] = r[1] /\ Solid(V, U, Q, f) /\ Bears(V, f, r[2])
  BY <1>1 DEF Settled, Solid, Bears
<1>6. ASSUME NEW f \in N, NEW d \in Device, NEW e \in Device
      PROVE  V[<<d, f>>].is = V[<<e, f>>].is /\ V[<<d, f>>].path = V[<<e, f>>].path
  <2>1. V[<<d, f>>] = V[<<e, f>>]
    BY <1>2
  <2> QED
    BY <2>1
<1> QED
  BY <1>1, <1>3, <1>4, <1>5, <1>6 DEF Clearing, OnlyClears, SenderFirst, KnownAlike, PathsAlike, LinksOwe, Owes, Covered, Follows

-----------------------------------------------------------------------------
(***************************************************************************)
(* One change comes to one device.                                         *)
(***************************************************************************)
\* e turns its view by x, come from its neighbour from or from itself, and hands
\* it on, at least when the view changes.
Hands(V, U, V2, U2, e, x, from) ==
    /\ \A d \in Device, f \in FileId :
           V2[<<d, f>>] = IF d = e /\ f = x.file THEN Turn(V[<<d, f>>], x) ELSE V[<<d, f>>]
    /\ \A l \in Ends : /\ \A y \in U2[l] : y \in U[l] \/ (y = x /\ l[1] = e /\ l[2] # from)
                       /\ \A y \in U[l] : y \in U2[l] \/ (y = x /\ l[1] = from /\ l[2] = e)
                       /\ l[1] = e /\ l[2] # from =>
                              V2[<<e, x.file>>] = V[<<e, x.file>>] \/ x \in U2[l]

\* here: the view is one that x turns.
Handed(v, w, here, x) ==
    /\ ~here => w = v
    /\ w.is = "unknown" => v.is = "unknown"
    /\ w.is = "live" <=> v.is = "live" /\ ~(here /\ Removes(x))
    /\ w.is = "deleted" => v.is \in {"live", "deleted"}
    /\ w.is = "purged" <=> v.is = "purged" \/ (here /\ x.change.kind = "FilePurged")
    /\ w.is # "purged" => w.path = v.path
    /\ w.is # "purged" =>
           w.tags = v.tags \cup (IF here /\ x.change.kind = "FileTagged" THEN {x.change.tag} ELSE {})
    /\ w.is = "purged" => w.tags = {}

\* A change of a command turns the view of its device and no other.
LEMMA HandedViews ==
    ASSUME NEW V, NEW U, NEW Q, NEW N, Picture(V, U, Q, N), NEW V2, NEW U2,
           NEW e, NEW x \in FrameSet, NEW from, Clears(x), Hands(V, U, V2, U2, e, x, from),
           NEW d \in Device, NEW f \in FileId
    PROVE  Handed(V[<<d, f>>], V2[<<d, f>>], d = e /\ f = x.file, x)
<1>1. PICK v \in ViewSet : v = V[<<d, f>>] /\ Blank(v)
  BY DEF Picture
<1>2. V2[<<d, f>>] = IF d = e /\ f = x.file THEN Turn(v, x) ELSE v
  BY <1>1 DEF Hands
<1>3. v.is \in {"unknown", "live", "deleted", "purged"}
  BY DEF ViewSet
<1>4. CASE d = e /\ f = x.file
  BY <1>1, <1>2, <1>4, ClearTurn DEF Handed
<1>5. CASE ~(d = e /\ f = x.file)
  <2>1. V2[<<d, f>>] = v
    BY <1>2, <1>5
  <2> QED
    BY <1>1, <1>3, <1>5, <2>1 DEF Handed, Blank
<1> QED
  BY <1>4, <1>5

\* Racing commands stay in order.
LEMMA ClearStep ==
    ASSUME NEW V, NEW U, NEW Q, NEW N, NEW P, Picture(V, U, Q, N), Clearing(V, U, Q, N, P),
           NEW V2, NEW U2, NEW Q2, Picture(V2, U2, Q2, N),
           NEW e \in Device, NEW x \in FrameSet, NEW from \in Device,
           x \in Afoot(U, Q), from # e => <<from, e>> \in Ends /\ x \in U[<<from, e>>],
           Hands(V, U, V2, U2, e, x, from),
           Q2 \subseteq Q, \A y \in Q : y \in Q2 \/ y = x
    PROVE  Clearing(V2, U2, Q2, N, P)
<1>0. /\ x.file \in N /\ N \subseteq FileId /\ x.file \in FileId /\ Clears(x)
      /\ \A d \in Device : V[<<d, x.file>>].is # "unknown"
  BY DEF Clearing, OnlyClears, Clears, Picture
<1>1. ASSUME NEW d \in Device, NEW f \in FileId
      PROVE  /\ ~(d = e /\ f = x.file) => V2[<<d, f>>] = V[<<d, f>>]
             /\ V2[<<d, f>>].is = "unknown" => V[<<d, f>>].is = "unknown"
             /\ V2[<<d, f>>].is = "live" <=> V[<<d, f>>].is = "live" /\ ~(d = e /\ f = x.file /\ Removes(x))
             /\ V2[<<d, f>>].is = "deleted" => V[<<d, f>>].is \in {"live", "deleted"}
             /\ V2[<<d, f>>].is = "purged" <=>
                    V[<<d, f>>].is = "purged" \/ (d = e /\ f = x.file /\ x.change.kind = "FilePurged")
             /\ V2[<<d, f>>].is # "purged" => V2[<<d, f>>].path = V[<<d, f>>].path
             /\ V2[<<d, f>>].is # "purged" =>
                    V2[<<d, f>>].tags = V[<<d, f>>].tags
                        \cup (IF d = e /\ f = x.file /\ x.change.kind = "FileTagged" THEN {x.change.tag} ELSE {})
             /\ V2[<<d, f>>].is = "purged" => V2[<<d, f>>].tags = {}
  <2>1. Handed(V[<<d, f>>], V2[<<d, f>>], d = e /\ f = x.file, x)
    BY <1>0, HandedViews
  <2> QED
    BY <2>1 DEF Handed
<1>2. /\ \A y \in Afoot(U2, Q2) : y \in Afoot(U, Q)
      /\ \A y \in Afoot(U, Q) : y \in Afoot(U2, Q2) \/ y = x
  BY DEF Hands, Afoot
<1>3. ASSUME NEW l \in Ends
      PROVE  /\ l[1] \in Device /\ l[2] \in Device /\ l[1] # l[2] /\ l = <<l[1], l[2]>>
             /\ \A y \in U2[l] : y \in U[l] \/ (y = x /\ l[1] = e /\ l[2] # from)
             /\ \A y \in U[l] : y \in U2[l] \/ (y = x /\ l[1] = from /\ l[2] = e)
             /\ l[1] = e /\ l[2] # from => V2[<<e, x.file>>] = V[<<e, x.file>>] \/ x \in U2[l]
  BY EndsDistinct DEF Hands
<1>4. from # e =>
          /\ x.change.kind = "FileDeleted" => V[<<from, x.file>>].is # "live"
          /\ x.change.kind = "FilePurged" => V[<<from, x.file>>].is = "purged"
          /\ x.change.kind = "FileTagged" =>
                 V[<<from, x.file>>].is = "purged" \/ x.change.tag \in V[<<from, x.file>>].tags
  <2> SUFFICES ASSUME from # e
               PROVE  /\ x.change.kind = "FileDeleted" => V[<<from, x.file>>].is # "live"
                      /\ x.change.kind = "FilePurged" => V[<<from, x.file>>].is = "purged"
                      /\ x.change.kind = "FileTagged" =>
                             V[<<from, x.file>>].is = "purged" \/ x.change.tag \in V[<<from, x.file>>].tags
    OBVIOUS
  <2>1. PICK k \in Ends : k[1] = from /\ x \in U[k]
    OBVIOUS
  <2>2. PICK v \in ViewSet : v = V[<<from, x.file>>] /\ Blank(v)
    BY <1>0 DEF Picture
  <2>3. Turn(v, x) = v
    BY <2>1, <2>2 DEF Clearing, SenderFirst
  <2> QED
    BY <1>0, <2>2, <2>3, ClearKnown
<1>5. /\ Removes(x) <=> x.change.kind \in {"FileDeleted", "FilePurged"}
      /\ x.change.kind \in {"FileDeleted", "FilePurged", "FileTagged"}
  BY <1>0 DEF Removes, Clears
<1>6. ASSUME NEW f \in FileId PROVE Solid(V2, U2, Q2, f) <=> Solid(V, U, Q, f)
  <2>1. CASE Removes(x) /\ f = x.file
    BY <1>1, <2>1 DEF Solid
  <2>2. CASE ~(Removes(x) /\ f = x.file)
    <3>1. (\A d \in Device : V2[<<d, f>>].is = "live") <=> (\A d \in Device : V[<<d, f>>].is = "live")
      BY <1>1, <2>2
    <3>2. (\A y \in Afoot(U2, Q2) : y.file = f => ~Removes(y)) <=> (\A y \in Afoot(U, Q) : y.file = f => ~Removes(y))
      BY <1>2, <2>2
    <3> QED
      BY <3>1, <3>2 DEF Solid
  <2> QED
    BY <2>1, <2>2
<1>7. ASSUME NEW f \in FileId, Solid(V, U, Q, f), NEW d \in Device
      PROVE  V2[<<d, f>>].is = "live" /\ V[<<d, f>>].is = "live" /\ V2[<<d, f>>].path = V[<<d, f>>].path
  BY <1>1, <1>6, <1>7 DEF Solid
<1>8. ASSUME NEW f \in FileId, Anchor(V, U, Q, f)
      PROVE  Anchor(V2, U2, Q2, f)
  <2>1. Solid(V2, U2, Q2, f)
    BY <1>6, <1>8 DEF Anchor
  <2>2. ASSUME NEW g \in FileId, Older(g, f), Solid(V2, U2, Q2, g), Beside(V2, g, f)
        PROVE  FALSE
    <3>1. PICK d \in Device : V2[<<d, g>>].path = V2[<<d, f>>].path
      BY <2>2 DEF Beside
    <3>2. Solid(V, U, Q, f) /\ Solid(V, U, Q, g)
      BY <1>6, <2>1, <2>2
    <3>3. V[<<d, g>>].path = V[<<d, f>>].path
      BY <1>7, <3>1, <3>2
    <3> QED
      BY <1>8, <2>2, <3>2, <3>3 DEF Anchor, Beside
  <2> QED
    BY <2>1, <2>2 DEF Anchor
<1>11. ASSUME NEW y \in Afoot(U2, Q2)
       PROVE  /\ y.file \in N /\ y.change.kind \in {"FileDeleted", "FilePurged", "FileTagged"}
              /\ \A d \in Device : V2[<<d, y.file>>].is # "unknown"
  BY <1>0, <1>1, <1>2 DEF Clearing, OnlyClears
<1>12. ASSUME NEW l \in Ends, NEW y \in U2[l]
       PROVE  Turn(V2[<<l[1], y.file>>], y) = V2[<<l[1], y.file>>]
  <2>1. y \in Afoot(U2, Q2) /\ y \in FrameSet
    BY DEF Afoot, Picture
  <2>2. y.file \in N /\ y.file \in FileId /\ Clears(y)
    BY <1>0, <1>11, <2>1 DEF Clears
  <2>3. CASE y = x /\ l[1] = e
    <3>1. PICK v \in ViewSet : v = V[<<e, x.file>>]
      BY <1>0 DEF Picture
    <3>2. V2[<<e, x.file>>] = Turn(v, x)
      BY <1>0, <3>1 DEF Hands
    <3> QED
      BY <2>3, <3>2, TurnTwice
  <2>4. CASE y \in U[l]
    <3>1. PICK v \in ViewSet : v = V[<<l[1], y.file>>] /\ Blank(v)
      BY <1>3, <2>2 DEF Picture
    <3>2. Turn(v, y) = v
      BY <2>4, <3>1 DEF Clearing, SenderFirst
    <3>3. CASE l[1] = e /\ y.file = x.file
      <4>1. V2[<<l[1], y.file>>] = Turn(v, x)
        BY <1>0, <3>1, <3>3 DEF Hands
      <4>2. Blank(V2[<<l[1], y.file>>])
        BY <1>3, <2>2 DEF Picture
      <4> QED
        BY <1>0, <2>1, <2>2, <3>1, <3>2, <4>1, <4>2, ClearStays
    <3>4. CASE ~(l[1] = e /\ y.file = x.file)
      BY <1>1, <1>3, <2>2, <3>1, <3>2, <3>4
    <3> QED
      BY <3>3, <3>4
  <2> QED
    BY <1>3, <2>3, <2>4
<1>13. ASSUME NEW f \in N, NEW d \in Device, NEW c \in Device, V2[<<d, f>>].is = "unknown"
       PROVE  V2[<<c, f>>].is = "unknown"
  <2>1. f \in FileId /\ V[<<d, f>>].is = "unknown"
    BY <1>0, <1>1, <1>13
  <2>2. f # x.file
    BY <1>0, <2>1
  <2>3. V[<<c, f>>].is = "unknown"
    BY <2>1 DEF Clearing, KnownAlike
  <2> QED
    BY <1>1, <2>1, <2>2, <2>3
<1>14. ASSUME NEW f \in N, NEW d \in Device, NEW c \in Device,
              V2[<<d, f>>].is \in {"live", "deleted"}, V2[<<c, f>>].is \in {"live", "deleted"}
       PROVE  V2[<<d, f>>].path = V2[<<c, f>>].path
  <2>1. f \in FileId
    BY <1>0
  <2>2. V[<<d, f>>].is \in {"live", "deleted"} /\ V[<<c, f>>].is \in {"live", "deleted"}
    BY <1>1, <1>14, <2>1
  <2>3. V[<<d, f>>].path = V[<<c, f>>].path
    BY <2>2 DEF Clearing, PathsAlike
  <2>4. V2[<<d, f>>].path = V[<<d, f>>].path /\ V2[<<c, f>>].path = V[<<c, f>>].path
    BY <1>1, <1>14, <2>1
  <2> QED
    BY <2>3, <2>4
<1>15. ASSUME NEW f \in N, NEW l \in Ends, V2[<<l[1], f>>].is # "live", V2[<<l[2], f>>].is = "live"
       PROVE  \E y \in U2[l] : y.file = f /\ Removes(y)
  <2>1. f \in FileId /\ V[<<l[2], f>>].is = "live"
    BY <1>0, <1>1, <1>3, <1>15
  <2>2. CASE V[<<l[1], f>>].is # "live"
    <3>1. PICK y \in U[l] : y.file = f /\ Removes(y)
      BY <2>1, <2>2 DEF Clearing, LinksOwe, Owes
    <3>2. y = x /\ l[2] = e => V2[<<l[2], f>>].is # "live"
      BY <1>1, <1>3, <2>1, <3>1
    <3> QED
      BY <1>3, <1>15, <3>1, <3>2
  <2>3. CASE V[<<l[1], f>>].is = "live"
    <3>1. l[1] = e /\ f = x.file /\ Removes(x)
      BY <1>1, <1>3, <1>15, <2>1, <2>3
    <3>2. V2[<<e, x.file>>] # V[<<e, x.file>>]
      BY <1>15, <2>3, <3>1
    <3>3. l[2] # from
      BY <1>3, <1>4, <1>5, <2>1, <3>1
    <3> QED
      BY <1>3, <3>1, <3>2, <3>3
  <2> QED
    BY <2>2, <2>3
<1>16. ASSUME NEW f \in N, NEW l \in Ends, V2[<<l[1], f>>].is = "purged", V2[<<l[2], f>>].is # "purged"
       PROVE  \E y \in U2[l] : y.file = f /\ y.change.kind = "FilePurged"
  <2>1. f \in FileId /\ V[<<l[2], f>>].is # "purged"
    BY <1>0, <1>1, <1>3, <1>16
  <2>2. CASE V[<<l[1], f>>].is = "purged"
    <3>1. PICK y \in U[l] : y.file = f /\ y.change.kind = "FilePurged"
      BY <2>1, <2>2 DEF Clearing, LinksOwe, Owes
    <3>2. y = x /\ l[2] = e => V2[<<l[2], f>>].is = "purged"
      BY <1>1, <1>3, <2>1, <3>1
    <3> QED
      BY <1>3, <1>16, <3>1, <3>2
  <2>3. CASE V[<<l[1], f>>].is # "purged"
    <3>1. l[1] = e /\ f = x.file /\ x.change.kind = "FilePurged"
      BY <1>1, <1>3, <1>16, <2>1, <2>3
    <3>2. V2[<<e, x.file>>] # V[<<e, x.file>>]
      BY <1>16, <2>3, <3>1
    <3>3. l[2] # from
      BY <1>3, <1>4, <2>1, <3>1
    <3> QED
      BY <1>3, <3>1, <3>2, <3>3
  <2> QED
    BY <2>2, <2>3
<1>17. ASSUME NEW f \in N, NEW l \in Ends, NEW t \in V2[<<l[1], f>>].tags,
              V2[<<l[2], f>>].is # "purged", t \notin V2[<<l[2], f>>].tags
       PROVE  \E y \in U2[l] : y.file = f /\ y.change.kind = "FileTagged" /\ y.change.tag = t
  <2>1. f \in FileId /\ V[<<l[2], f>>].is # "purged" /\ t \notin V[<<l[2], f>>].tags
    BY <1>0, <1>1, <1>3, <1>17
  <2>2. CASE t \in V[<<l[1], f>>].tags
    <3>1. PICK y \in U[l] : y.file = f /\ y.change.kind = "FileTagged" /\ y.change.tag = t
      BY <2>1, <2>2 DEF Clearing, LinksOwe, Owes
    <3>2. y = x /\ l[2] = e => t \in V2[<<l[2], f>>].tags
      BY <1>1, <1>3, <1>17, <2>1, <3>1
    <3> QED
      BY <1>3, <1>17, <3>1, <3>2
  <2>3. CASE t \notin V[<<l[1], f>>].tags
    <3>0. V2[<<l[1], f>>].is # "purged"
      BY <1>1, <1>3, <1>17, <2>1
    <3>1. l[1] = e /\ f = x.file /\ x.change.kind = "FileTagged" /\ x.change.tag = t
      BY <1>1, <1>3, <1>17, <2>1, <2>3, <3>0
    <3>2. V2[<<e, x.file>>] # V[<<e, x.file>>]
      BY <1>17, <2>3, <3>1
    <3>3. l[2] # from
      BY <1>3, <1>4, <2>1, <3>1
    <3> QED
      BY <1>3, <3>1, <3>2, <3>3
  <2> QED
    BY <2>2, <2>3
<1>18. ASSUME NEW f \in N, NEW d \in Device, V2[<<d, f>>].is = "live", ~Solid(V2, U2, Q2, f)
       PROVE  \E g \in N : Older(g, f) /\ Solid(V2, U2, Q2, g) /\ V2[<<d, g>>].path = V2[<<d, f>>].path
  <2>1. f \in FileId /\ V[<<d, f>>].is = "live" /\ ~Solid(V, U, Q, f) /\ V2[<<d, f>>].path = V[<<d, f>>].path
    BY <1>0, <1>1, <1>6, <1>18
  <2>2. PICK g \in N : Older(g, f) /\ Solid(V, U, Q, g) /\ V[<<d, g>>].path = V[<<d, f>>].path
    BY <2>1 DEF Clearing, Covered
  <2> QED
    BY <1>0, <1>6, <1>7, <2>1, <2>2
<1>19. ASSUME NEW r \in P
       PROVE  Follows(V2, U2, Q2, N, r)
  <2>1. PICK f \in N : /\ Hash[f] = r[1]
                       /\ \/ Solid(V, U, Q, f) /\ Bears(V, f, r[2])
                          \/ Anchor(V, U, Q, f) /\ Brought(V, U, Q, f, r[2])
    BY DEF Clearing, Follows
  <2>2. f \in FileId
    BY <1>0
  <2>3. CASE Solid(V, U, Q, f) /\ Bears(V, f, r[2])
    <3>1. Solid(V2, U2, Q2, f)
      BY <1>6, <2>2, <2>3
    <3>2. Bears(V2, f, r[2])
      BY <1>1, <1>7, <2>2, <2>3 DEF Bears
    <3> QED
      BY <2>1, <3>1, <3>2 DEF Follows
  <2>4. CASE Anchor(V, U, Q, f) /\ Brought(V, U, Q, f, r[2])
    <3>0. Solid(V, U, Q, f)
      BY <2>4 DEF Anchor
    <3>1. CASE \E d \in Device : r[2] \in V[<<d, f>>].tags
      <4>1. PICK d \in Device : r[2] \in V[<<d, f>>].tags
        BY <3>1
      <4>2. V2[<<d, f>>].is = "live"
        BY <1>7, <2>2, <3>0
      <4>3. r[2] \in V2[<<d, f>>].tags
        BY <1>1, <2>2, <4>1, <4>2
      <4> QED
        BY <1>8, <2>1, <2>2, <2>4, <4>3 DEF Brought, Follows
    <3>2. CASE \E y \in Afoot(U, Q) : y.file = f /\ y.change.kind = "FileTagged" /\ y.change.tag = r[2]
      <4>1. PICK y \in Afoot(U, Q) : y.file = f /\ y.change.kind = "FileTagged" /\ y.change.tag = r[2]
        BY <3>2
      <4>2. CASE y \in Afoot(U2, Q2)
        BY <1>8, <2>1, <2>2, <2>4, <4>1, <4>2 DEF Brought, Follows
      <4>3. CASE y = x
        <5>1. V2[<<e, f>>].is = "live"
          BY <1>7, <2>2, <3>0
        <5>2. r[2] \in V2[<<e, f>>].tags
          BY <1>1, <2>2, <4>1, <4>3, <5>1
        <5> QED
          BY <1>8, <2>1, <2>2, <2>4, <5>2 DEF Brought, Follows
      <4> QED
        BY <1>2, <4>2, <4>3
    <3> QED
      BY <2>4, <3>1, <3>2 DEF Brought
  <2> QED
    BY <2>1, <2>3, <2>4
<1>20. OnlyClears(V2, U2, Q2, N) /\ SenderFirst(V2, U2)
  BY <1>11, <1>12 DEF OnlyClears, SenderFirst
<1>21. KnownAlike(V2, N) /\ PathsAlike(V2, N)
  BY <1>13, <1>14 DEF KnownAlike, PathsAlike
<1>22. LinksOwe(V2, U2, N)
  <2> SUFFICES ASSUME NEW f \in N, NEW l \in Ends
               PROVE  Owes(V2, U2, f, l)
    BY DEF LinksOwe
  <2> QED
    BY <1>15, <1>16, <1>17 DEF Owes
<1>23. Covered(V2, U2, Q2, N)
  BY <1>18 DEF Covered
<1> QED
  BY <1>19, <1>20, <1>21, <1>22, <1>23 DEF Clearing

\* A user's change sets out.
LEMMA SpreadStart ==
    ASSUME NEW V, NEW U, NEW Q, NEW N, NEW P, Picture(V, U, Q, N), Settled(V, N, P),
           \A l \in Ends : U[l] = {}, Q = {},
           NEW V2, NEW U2, NEW P2, NEW e \in Device, NEW x \in FrameSet, x.file \in N,
           Hands(V, U, V2, U2, e, x, e),
           NEW v, v = V[<<e, x.file>>], NEW w, w = Turn(v, x),
           Adds(x) => v.is # "deleted" /\ w.is # "deleted",
           \A r \in P2 : \/ r[1] = Hash[x.file] /\ w.is = "live" /\ r[2] \in w.tags
                         \/ /\ r \in P
                            /\ r[1] = Hash[x.file] /\ v.is = "live" /\ r[2] \in v.tags =>
                                   w.is = "live" /\ r[2] \in w.tags
    PROVE  Spreading(V2, U2, Q, N, P2, x, v, w)
<1>1. x.file \in FileId /\ v \in ViewSet /\ Turn(w, x) = w /\ N \subseteq FileId
  <2>1. x.file \in FileId /\ N \subseteq FileId
    BY DEF Picture
  <2>2. v \in ViewSet
    BY <2>1 DEF Picture
  <2> QED
    BY <2>1, <2>2, TurnTwice
<1>2. \A d \in Device : V[<<d, x.file>>] = v
  BY DEF Settled
<1>3. \A d \in Device : V2[<<d, x.file>>] = IF d = e THEN w ELSE v
  BY <1>1, <1>2 DEF Hands
<1>4. ASSUME NEW f \in N \ {x.file}, NEW d \in Device PROVE V2[<<d, f>>] = V[<<d, f>>]
  BY <1>1 DEF Hands
<1>5. ASSUME NEW f \in N \ {x.file}, NEW c \in Device, NEW d \in Device
      PROVE  V2[<<c, f>>] = V2[<<d, f>>]
  BY <1>4 DEF Settled
<1>6. ASSUME NEW l \in Ends
      PROVE  /\ U2[l] \subseteq {x}
             /\ x \in U2[l] => V2[<<l[1], x.file>>] = w
             /\ V2[<<l[1], x.file>>] = w /\ V2[<<l[2], x.file>>] # w => x \in U2[l]
  <2>1. l[1] \in Device /\ l[2] \in Device /\ l[1] # l[2]
    BY EndsDistinct
  <2>2. U2[l] \subseteq {x} /\ (x \in U2[l] => l[1] = e)
    BY DEF Hands
  <2>3. l[1] = e => V2[<<e, x.file>>] = V[<<e, x.file>>] \/ x \in U2[l]
    BY <2>1 DEF Hands
  <2> QED
    BY <1>2, <1>3, <2>1, <2>2, <2>3
<1>7. ASSUME NEW r \in P2
      PROVE  \E f \in N : /\ Hash[f] = r[1]
                          /\ IF f = x.file THEN w.is = "live" /\ r[2] \in w.tags
                             ELSE Bears(V2, f, r[2])
  <2>1. CASE r[1] = Hash[x.file] /\ w.is = "live" /\ r[2] \in w.tags
    BY <2>1
  <2>2. CASE /\ r \in P
             /\ r[1] = Hash[x.file] /\ v.is = "live" /\ r[2] \in v.tags =>
                    w.is = "live" /\ r[2] \in w.tags
    <3>1. PICK f \in N : Hash[f] = r[1] /\ Bears(V, f, r[2])
      BY <2>2 DEF Settled
    <3>2. CASE f = x.file
      BY <2>2, <3>1, <3>2 DEF Bears
    <3>3. CASE f # x.file
      <4>1. Bears(V2, f, r[2])
        BY <1>4, <3>1, <3>3 DEF Bears
      <4> QED
        BY <3>1, <3>3, <4>1
    <3> QED
      BY <3>2, <3>3
  <2> QED
    BY <2>1, <2>2
<1> QED
  BY <1>1, <1>3, <1>5, <1>6, <1>7 DEF Spreading

\* It comes to a device.
LEMMA SpreadStep ==
    ASSUME NEW V, NEW U, NEW Q, NEW N, NEW P, NEW x, NEW v, NEW w, Picture(V, U, Q, N),
           Spreading(V, U, Q, N, P, x, v, w),
           NEW V2, NEW U2, NEW e \in Device, NEW from \in Device,
           <<from, e>> \in Ends, x \in U[<<from, e>>],
           Hands(V, U, V2, U2, e, x, from)
    PROVE  Spreading(V2, U2, Q, N, P, x, v, w)
<1>1. x.file \in N /\ x.file \in FileId /\ N \subseteq FileId /\ Turn(v, x) = w /\ Turn(w, x) = w
  BY DEF Picture, Spreading
<1>2. V[<<from, x.file>>] = w
  <2>1. PICK l \in Ends : l[1] = from /\ x \in U[l]
    OBVIOUS
  <2> QED
    BY <2>1 DEF Spreading
<1>3. /\ \A d \in Device : V[<<d, x.file>>] \in {v, w}
      /\ V2[<<e, x.file>>] = w
      /\ \A d \in Device : d # e => V2[<<d, x.file>>] = V[<<d, x.file>>]
  BY <1>1 DEF Hands, Spreading
<1>4. ASSUME NEW f \in N \ {x.file}, NEW d \in Device PROVE V2[<<d, f>>] = V[<<d, f>>]
  BY <1>1 DEF Hands
<1>5. ASSUME NEW f \in N \ {x.file}, NEW c \in Device, NEW d \in Device
      PROVE  V2[<<c, f>>] = V2[<<d, f>>]
  BY <1>4 DEF Spreading
<1>6. ASSUME NEW l \in Ends
      PROVE  /\ U2[l] \subseteq {x}
             /\ x \in U2[l] => V2[<<l[1], x.file>>] = w
             /\ V2[<<l[1], x.file>>] = w /\ V2[<<l[2], x.file>>] # w => x \in U2[l]
  <2>1. l[1] \in Device /\ l[2] \in Device /\ l[1] # l[2]
    BY EndsDistinct
  <2>2. /\ U[l] \subseteq {x} /\ (x \in U[l] => V[<<l[1], x.file>>] = w)
        /\ V[<<l[1], x.file>>] = w /\ V[<<l[2], x.file>>] # w => x \in U[l]
    BY DEF Spreading
  <2>3. /\ U2[l] \subseteq {x} /\ (x \in U2[l] => x \in U[l] \/ l[1] = e)
        /\ x \in U[l] => x \in U2[l] \/ l[2] = e
        /\ l[1] = e /\ l[2] # from => V2[<<e, x.file>>] = V[<<e, x.file>>] \/ x \in U2[l]
    BY <2>2 DEF Hands
  <2> QED
    BY <1>2, <1>3, <2>1, <2>2, <2>3
<1>7. ASSUME NEW r \in P
      PROVE  \E f \in N : /\ Hash[f] = r[1]
                          /\ IF f = x.file THEN w.is = "live" /\ r[2] \in w.tags
                             ELSE Bears(V2, f, r[2])
  <2>1. PICK f \in N : /\ Hash[f] = r[1]
                       /\ IF f = x.file THEN w.is = "live" /\ r[2] \in w.tags
                          ELSE Bears(V, f, r[2])
    BY DEF Spreading
  <2>2. f # x.file => Bears(V2, f, r[2])
    BY <1>4, <2>1 DEF Bears
  <2> QED
    BY <2>1, <2>2
<1>8. Q = {} /\ (Adds(x) => v.is # "deleted" /\ w.is # "deleted")
  BY DEF Spreading
<1> QED
  BY <1>1, <1>3, <1>5, <1>6, <1>7, <1>8 DEF Spreading

-----------------------------------------------------------------------------
(***************************************************************************)
(* Contents are given up.                                                  *)
(***************************************************************************)
\* The same of the files whose contents are still cared for.
Narrower(V, U, Q, N, P, V2, U2, Q2, N2, P2) ==
    /\ N2 \subseteq N /\ \A f \in N2, g \in FileId : Hash[g] = Hash[f] => g \in N2
    /\ \A f \in N2, d \in Device : V2[<<d, f>>] = V[<<d, f>>]
    /\ \A l \in Ends : U2[l] = {x \in U[l] : x.file \in N2}
    /\ Q2 = {x \in Q : x.file \in N2}
    /\ P2 \subseteq P /\ \A r \in P2, f \in N : Hash[f] = r[1] => f \in N2

\* If the file of the change is given up, the rest has settled.
LEMMA SpreadNarrows ==
    ASSUME NEW V, NEW U, NEW Q, NEW N, NEW P, NEW x, NEW v, NEW w,
           Spreading(V, U, Q, N, P, x, v, w),
           NEW V2, NEW U2, NEW Q2, NEW N2, NEW P2,
           Narrower(V, U, Q, N, P, V2, U2, Q2, N2, P2)
    PROVE  IF x.file \in N2 THEN Spreading(V2, U2, Q2, N2, P2, x, v, w)
           ELSE Clearing(V2, U2, Q2, N2, P2)
<1>1. Q2 = {} /\ \A l \in Ends : U2[l] \subseteq {x} /\ (x \in U2[l] <=> x \in U[l] /\ x.file \in N2)
  BY DEF Spreading, Narrower
<1>2. ASSUME NEW f \in N2 \ {x.file}, NEW c \in Device, NEW d \in Device
      PROVE  V2[<<c, f>>] = V2[<<d, f>>]
  BY DEF Spreading, Narrower
<1>3. ASSUME NEW r \in P2
      PROVE  \E f \in N2 : /\ Hash[f] = r[1]
                           /\ IF f = x.file THEN w.is = "live" /\ r[2] \in w.tags
                              ELSE Bears(V2, f, r[2])
  <2>1. PICK f \in N : /\ Hash[f] = r[1]
                       /\ IF f = x.file THEN w.is = "live" /\ r[2] \in w.tags
                          ELSE Bears(V, f, r[2])
    BY DEF Spreading, Narrower
  <2>2. f \in N2
    BY <2>1 DEF Narrower
  <2>3. Bears(V2, f, r[2]) <=> Bears(V, f, r[2])
    BY <2>2 DEF Narrower, Bears
  <2> QED
    BY <2>1, <2>2, <2>3
<1>4. CASE x.file \in N2
  <2>1. \A d \in Device : V2[<<d, x.file>>] = V[<<d, x.file>>]
    BY <1>4 DEF Narrower
  <2>2. \A l \in Ends : l[1] \in Device /\ l[2] \in Device
    BY EndsDistinct
  <2>3. /\ Turn(v, x) = w /\ Turn(w, x) = w /\ (Adds(x) => v.is # "deleted" /\ w.is # "deleted")
        /\ \A d \in Device : V2[<<d, x.file>>] \in {v, w}
        /\ \E d \in Device : V2[<<d, x.file>>] = w
    BY <2>1 DEF Spreading
  <2>4. /\ \A l \in Ends : x \in U2[l] => V2[<<l[1], x.file>>] = w
        /\ \A l \in Ends : V2[<<l[1], x.file>>] = w /\ V2[<<l[2], x.file>>] # w => x \in U2[l]
    BY <1>1, <1>4, <2>1, <2>2 DEF Spreading
  <2> QED
    BY <1>1, <1>2, <1>3, <1>4, <2>3, <2>4 DEF Spreading
<1>5. CASE x.file \notin N2
  <2>1. Settled(V2, N2, P2)
    <3>1. \A r \in P2 : \E f \in N2 : Hash[f] = r[1] /\ Bears(V2, f, r[2])
      BY <1>3, <1>5
    <3>2. ASSUME NEW f \in N2, NEW c \in Device, NEW d \in Device PROVE V2[<<c, f>>] = V2[<<d, f>>]
      BY <1>2, <1>5
    <3> QED
      BY <3>1, <3>2 DEF Settled
  <2>2. \A l \in Ends : U2[l] = {}
    BY <1>1, <1>5
  <2> QED
    BY <1>1, <1>5, <2>1, <2>2, SettledClears
<1> QED
  BY <1>4, <1>5

\* Racing commands go on when contents are given up.
LEMMA ClearNarrows ==
    ASSUME NEW V, NEW U, NEW Q, NEW N, NEW P, Picture(V, U, Q, N), Clearing(V, U, Q, N, P),
           NEW V2, NEW U2, NEW Q2, NEW N2, NEW P2,
           Narrower(V, U, Q, N, P, V2, U2, Q2, N2, P2)
    PROVE  Clearing(V2, U2, Q2, N2, P2)
<1>0. /\ N2 \subseteq N /\ N2 \subseteq FileId
      /\ \A l \in Ends : l[1] \in Device /\ l[2] \in Device
  BY EndsDistinct DEF Narrower, Picture
<1>1. Afoot(U2, Q2) = {x \in Afoot(U, Q) : x.file \in N2}
  BY DEF Narrower, Afoot
<1>2. ASSUME NEW f \in N2, NEW d \in Device PROVE V2[<<d, f>>] = V[<<d, f>>]
  BY DEF Narrower
<1>3. ASSUME NEW f \in N2 PROVE Solid(V2, U2, Q2, f) <=> Solid(V, U, Q, f)
  <2>1. (\A x \in Afoot(U2, Q2) : x.file = f => ~Removes(x)) <=> (\A x \in Afoot(U, Q) : x.file = f => ~Removes(x))
    BY <1>1
  <2> QED
    BY <1>2, <2>1 DEF Solid
<1>4. ASSUME NEW f \in N2, NEW g \in FileId, Older(g, f)
      PROVE  g \in N2 /\ (Beside(V2, g, f) <=> Beside(V, g, f))
  <2>1. g \in N2
    BY <1>4 DEF Narrower, Older
  <2> QED
    BY <1>2, <2>1 DEF Beside
<1>5. ASSUME NEW f \in N2, Anchor(V, U, Q, f) PROVE Anchor(V2, U2, Q2, f)
  BY <1>3, <1>4, <1>5 DEF Anchor
<1>6. OnlyClears(V2, U2, Q2, N2)
  BY <1>1, <1>2 DEF Clearing, OnlyClears
<1>7. SenderFirst(V2, U2)
  <2>1. ASSUME NEW l \in Ends, NEW x \in U2[l]
        PROVE  Turn(V2[<<l[1], x.file>>], x) = V2[<<l[1], x.file>>]
    <3>1. x \in U[l] /\ x.file \in N2
      BY DEF Narrower
    <3>2. V2[<<l[1], x.file>>] = V[<<l[1], x.file>>]
      BY <1>0, <1>2, <3>1
    <3> QED
      BY <3>1, <3>2 DEF Clearing, SenderFirst
  <2> QED
    BY <2>1, Zenon DEF SenderFirst
<1>8. KnownAlike(V2, N2)
  BY <1>0, <1>2 DEF Clearing, KnownAlike
<1>9. PathsAlike(V2, N2)
  BY <1>0, <1>2 DEF Clearing, PathsAlike
<1>10. LinksOwe(V2, U2, N2)
  <2> SUFFICES ASSUME NEW f \in N2, NEW l \in Ends
               PROVE  Owes(V2, U2, f, l)
    BY DEF LinksOwe
  <2>1. Owes(V, U, f, l)
    BY <1>0 DEF Clearing, LinksOwe
  <2>2. V2[<<l[1], f>>] = V[<<l[1], f>>] /\ V2[<<l[2], f>>] = V[<<l[2], f>>]
    BY <1>0, <1>2
  <2>3. \A x \in U[l] : x.file = f => x \in U2[l]
    BY DEF Narrower
  <2> QED
    BY <2>1, <2>2, <2>3 DEF Owes
<1>11. Covered(V2, U2, Q2, N2)
  <2> SUFFICES ASSUME NEW f \in N2, NEW d \in Device, V2[<<d, f>>].is = "live", ~Solid(V2, U2, Q2, f)
               PROVE  \E g \in N2 : Older(g, f) /\ Solid(V2, U2, Q2, g) /\ V2[<<d, g>>].path = V2[<<d, f>>].path
    BY DEF Covered
  <2>1. V[<<d, f>>].is = "live" /\ ~Solid(V, U, Q, f)
    BY <1>2, <1>3
  <2>2. PICK g \in N : Older(g, f) /\ Solid(V, U, Q, g) /\ V[<<d, g>>].path = V[<<d, f>>].path
    BY <1>0, <2>1 DEF Clearing, Covered
  <2>3. g \in N2
    BY <1>4, <2>2 DEF Picture
  <2> QED
    BY <1>2, <1>3, <2>2, <2>3
<1>12. ASSUME NEW r \in P2 PROVE Follows(V2, U2, Q2, N2, r)
  <2>1. Follows(V, U, Q, N, r)
    BY DEF Clearing, Narrower
  <2>2. PICK f \in N : /\ Hash[f] = r[1]
                       /\ \/ Solid(V, U, Q, f) /\ Bears(V, f, r[2])
                          \/ Anchor(V, U, Q, f) /\ Brought(V, U, Q, f, r[2])
    BY <2>1 DEF Follows
  <2>3. f \in N2
    BY <2>2 DEF Narrower
  <2>4. Bears(V, f, r[2]) => Bears(V2, f, r[2])
    BY <1>2, <2>3 DEF Bears
  <2>5. Brought(V, U, Q, f, r[2]) => Brought(V2, U2, Q2, f, r[2])
    BY <1>1, <1>2, <2>3 DEF Brought
  <2> QED
    BY <1>3, <1>5, <2>2, <2>3, <2>4, <2>5 DEF Follows
<1> QED
  BY <1>6, <1>7, <1>8, <1>9, <1>10, <1>11, <1>12 DEF Clearing

-----------------------------------------------------------------------------
(***************************************************************************)
(* Commands plan.                                                          *)
(***************************************************************************)
\* A live file of a set of duplicates with no solid one before it is an anchor.
LEMMA AnchorLowest ==
    ASSUME NEW V, NEW U, NEW Q, NEW N, NEW P, Picture(V, U, Q, N), Clearing(V, U, Q, N, P),
           NEW m \in N, Anchor(V, U, Q, m), NEW d \in Device,
           NEW h \in FileId, Older(h, m), V[<<d, h>>].is = "live", V[<<d, h>>].path = V[<<d, m>>].path
    PROVE  FALSE
<1>1. h \in N /\ m \in FileId /\ FileId \subseteq Nat
  BY MaintenanceAssumption DEF Picture, Older, MaintenanceAssumption
<1>2. CASE Solid(V, U, Q, h)
  BY <1>2 DEF Anchor, Beside
<1>3. CASE ~Solid(V, U, Q, h)
  <2>1. PICK g \in N : Older(g, h) /\ Solid(V, U, Q, g) /\ V[<<d, g>>].path = V[<<d, h>>].path
    BY <1>1, <1>3 DEF Clearing, Covered
  <2>2. g \in FileId
    BY <2>1 DEF Picture
  <2>3. g < h /\ h < m /\ Hash[g] = Hash[h] /\ Hash[h] = Hash[m]
    BY <2>1 DEF Older
  <2>4. g < m
    BY <1>1, <2>2, <2>3
  <2>5. Older(g, m)
    BY <2>3, <2>4 DEF Older
  <2> QED
    BY <2>1, <2>2, <2>5 DEF Anchor, Beside
<1> QED
  BY <1>2, <1>3

\* Where a file is live there is an anchor, it or an older one.
LEMMA LowestAnchor ==
    ASSUME NEW V, NEW U, NEW Q, NEW N, NEW P, Picture(V, U, Q, N), Clearing(V, U, Q, N, P),
           NEW f \in N, NEW d \in Device, V[<<d, f>>].is = "live"
    PROVE  \E m \in N : /\ Hash[m] = Hash[f] /\ m <= f /\ Anchor(V, U, Q, m)
                        /\ V[<<d, m>>].is = "live" /\ V[<<d, m>>].path = V[<<d, f>>].path
<1> DEFINE T == {g \in FileId : Hash[g] = Hash[f] /\ Solid(V, U, Q, g) /\ V[<<d, g>>].path = V[<<d, f>>].path}
<1>0. f \in FileId /\ FileId \subseteq Nat /\ \A g \in FileId : Hash[g] = Hash[f] => g \in N
  BY MaintenanceAssumption DEF Picture, MaintenanceAssumption
<1>1. PICK g \in T : g <= f
  <2>1. CASE Solid(V, U, Q, f)
    BY <1>0, <2>1
  <2>2. CASE ~Solid(V, U, Q, f)
    <3>1. PICK g \in N : Older(g, f) /\ Solid(V, U, Q, g) /\ V[<<d, g>>].path = V[<<d, f>>].path
      BY <2>2 DEF Clearing, Covered
    <3>2. g \in FileId /\ g < f /\ Hash[g] = Hash[f]
      BY <3>1 DEF Picture, Older
    <3>3. g \in T /\ g <= f
      BY <1>0, <3>1, <3>2
    <3> QED
      BY <3>3
  <2> QED
    BY <2>1, <2>2
<1>2. PICK m \in T : \A h \in T : m <= h
  BY <1>1, LowestId
<1>3. /\ m \in FileId /\ m \in N /\ Hash[m] = Hash[f] /\ Solid(V, U, Q, m)
      /\ V[<<d, m>>].path = V[<<d, f>>].path
  BY <1>0
<1>4. m <= f
  BY <1>0, <1>1, <1>2
<1>5. ASSUME NEW h \in FileId, Older(h, m), Solid(V, U, Q, h), Beside(V, h, m) PROVE FALSE
  <2>1. PICK e \in Device : V[<<e, h>>].path = V[<<e, m>>].path
    BY <1>5 DEF Beside
  <2>2. h < m /\ Hash[h] = Hash[f] /\ h \in N
    BY <1>0, <1>3, <1>5 DEF Older
  <2>3. \A c \in Device : V[<<c, h>>].is = "live" /\ V[<<c, m>>].is = "live"
    BY <1>3, <1>5 DEF Solid
  <2>4. V[<<d, h>>].path = V[<<e, h>>].path /\ V[<<d, m>>].path = V[<<e, m>>].path
    BY <1>3, <2>2, <2>3 DEF Clearing, PathsAlike
  <2>5. h \in T
    BY <1>3, <1>5, <2>1, <2>2, <2>4
  <2> QED
    BY <1>0, <1>2, <1>3, <1>5, <2>2, <2>5
<1>6. Anchor(V, U, Q, m)
  BY <1>3, <1>5 DEF Anchor
<1> QED
  BY <1>3, <1>4, <1>6 DEF Anchor, Solid

\* More is planned, and what was put somewhere follows still.
LEMMA PlanClears ==
    ASSUME NEW V, NEW U, NEW Q, NEW N, NEW P, Clearing(V, U, Q, N, P),
           NEW Q2, NEW P2, Q \subseteq Q2,
           \A y \in Q2 : y \in Q \/ (y.file \in N /\ Clears(y)),
           \A y \in Q2, d \in Device : y \in Q \/ V[<<d, y.file>>].is # "unknown",
           Covered(V, U, Q2, N), \A r \in P2 : Follows(V, U, Q2, N, r)
    PROVE  Clearing(V, U, Q2, N, P2)
<1>1. \A y \in Afoot(U, Q2) : y \in Afoot(U, Q) \/ y \in Q2
  BY DEF Afoot
<1>2. OnlyClears(V, U, Q2, N)
  <2> SUFFICES ASSUME NEW y \in Afoot(U, Q2)
               PROVE  /\ y.file \in N /\ y.change.kind \in {"FileDeleted", "FilePurged", "FileTagged"}
                      /\ \A d \in Device : V[<<d, y.file>>].is # "unknown"
    BY DEF OnlyClears
  <2>1. CASE y \in Afoot(U, Q)
    BY <2>1 DEF Clearing, OnlyClears
  <2>2. CASE y \in Q2 /\ y \notin Afoot(U, Q)
    <3>1. y \notin Q
      BY <2>2 DEF Afoot
    <3> QED
      BY <2>2, <3>1 DEF Clears
  <2> QED
    BY <1>1, <2>1, <2>2
<1> QED
  BY <1>2 DEF Clearing

\* If what is planned removes nothing solid, all that was there stays.
LEMMA MildPlan ==
    ASSUME NEW V, NEW U, NEW Q, NEW N, NEW P, Picture(V, U, Q, N), Clearing(V, U, Q, N, P),
           NEW Q2, Q \subseteq Q2,
           \A y \in Q2 : y \in Q \/ ~Removes(y) \/ ~Solid(V, U, Q, y.file)
    PROVE  /\ \A f : Solid(V, U, Q2, f) <=> Solid(V, U, Q, f)
           /\ \A f : Anchor(V, U, Q2, f) <=> Anchor(V, U, Q, f)
           /\ \A f, t : Brought(V, U, Q, f, t) => Brought(V, U, Q2, f, t)
           /\ Covered(V, U, Q2, N) /\ \A r \in P : Follows(V, U, Q2, N, r)
<1>1. /\ \A y \in Afoot(U, Q2) : y \in Afoot(U, Q) \/ y \in Q2
      /\ \A y \in Afoot(U, Q) : y \in Afoot(U, Q2)
      /\ \A y \in Q : y \in Afoot(U, Q)
  BY DEF Afoot
<1>2. ASSUME NEW f PROVE Solid(V, U, Q2, f) <=> Solid(V, U, Q, f)
  <2>1. ASSUME Solid(V, U, Q, f) PROVE Solid(V, U, Q2, f)
    <3>1. ASSUME NEW y \in Afoot(U, Q2), y.file = f PROVE ~Removes(y)
      <4>1. CASE y \in Afoot(U, Q)
        BY <2>1, <3>1, <4>1 DEF Solid
      <4>2. CASE y \in Q2 /\ y \notin Afoot(U, Q)
        BY <1>1, <2>1, <3>1, <4>2
      <4> QED
        BY <1>1, <4>1, <4>2
    <3> QED
      BY <2>1, <3>1 DEF Solid
  <2>2. ASSUME Solid(V, U, Q2, f) PROVE Solid(V, U, Q, f)
    BY <1>1, <2>2 DEF Solid
  <2> QED
    BY <2>1, <2>2
<1>3. ASSUME NEW f PROVE Anchor(V, U, Q2, f) <=> Anchor(V, U, Q, f)
  BY <1>2 DEF Anchor
<1>4. ASSUME NEW f, NEW t, Brought(V, U, Q, f, t) PROVE Brought(V, U, Q2, f, t)
  BY <1>1, <1>4 DEF Brought
<1>5. Covered(V, U, Q2, N)
  BY <1>2 DEF Clearing, Covered
<1>6. ASSUME NEW r \in P PROVE Follows(V, U, Q2, N, r)
  <2>1. Follows(V, U, Q, N, r)
    BY DEF Clearing
  <2> QED
    BY <1>2, <1>3, <1>4, <2>1 DEF Follows
<1> QED
  BY <1>2, <1>3, <1>4, <1>5, <1>6

\* Retag gives the anchor of a file the same tags, since it has the same path.
LEMMA RetagFollows ==
    ASSUME NEW V, NEW U, NEW Q, NEW N, NEW P, Picture(V, U, Q, N), Clearing(V, U, Q, N, P),
           NEW Q2, Q \subseteq Q2, \A y \in Q2 : y \in Q \/ ~Removes(y),
           NEW d \in Device, NEW f \in N, V[<<d, f>>].is = "live", NEW t,
           \A m \in N : V[<<d, m>>].is = "live" /\ V[<<d, m>>].path = V[<<d, f>>].path =>
               \/ t \in V[<<d, m>>].tags
               \/ \E y \in Q2 : y.file = m /\ y.change.kind = "FileTagged" /\ y.change.tag = t
    PROVE  Follows(V, U, Q2, N, <<Hash[f], t>>)
<1>1. PICK m \in N : /\ Hash[m] = Hash[f] /\ Anchor(V, U, Q, m)
                     /\ V[<<d, m>>].is = "live" /\ V[<<d, m>>].path = V[<<d, f>>].path
  BY LowestAnchor
<1>2. Anchor(V, U, Q2, m)
  BY <1>1, MildPlan
<1>3. \A y \in Q2 : y \in Afoot(U, Q2)
  BY DEF Afoot
<1>4. Brought(V, U, Q2, m, t)
  BY <1>1, <1>3 DEF Brought
<1> QED
  BY <1>1, <1>2, <1>4 DEF Follows

\* D: the duplicates of a device but the survivors; the survivors get their tags.
Merges(V, Q, Q2, N, d, D) ==
    /\ \A y \in Q2 : \/ y \in Q
                     \/ y.file \in N /\ y.change.kind = "FileDeleted" /\ y.file \in D
                     \/ y.file \in N /\ y.change.kind = "FileTagged" /\ V[<<d, y.file>>].is = "live"
    /\ \A f \in D : /\ V[<<d, f>>].is = "live"
                    /\ \E h \in FileId : /\ Older(h, f) /\ V[<<d, h>>].is = "live"
                                         /\ V[<<d, h>>].path = V[<<d, f>>].path
    /\ \A f \in D, m \in N :
           (/\ Hash[m] = Hash[f] /\ V[<<d, m>>].is = "live" /\ V[<<d, m>>].path = V[<<d, f>>].path
            /\ \A h \in FileId : ~(/\ Older(h, m) /\ V[<<d, h>>].is = "live"
                                   /\ V[<<d, h>>].path = V[<<d, m>>].path))
           => \A t \in V[<<d, f>>].tags :
                  \/ t \in V[<<d, m>>].tags
                  \/ \E y \in Q2 : y.file = m /\ y.change.kind = "FileTagged" /\ y.change.tag = t

\* Such a plan clears.
LEMMA MergeClears ==
    ASSUME NEW V, NEW U, NEW Q, NEW N, NEW P, Picture(V, U, Q, N), Clearing(V, U, Q, N, P),
           NEW Q2, Q \subseteq Q2, NEW d \in Device, NEW D,
           Merges(V, Q, Q2, N, d, D)
    PROVE  Clearing(V, U, Q2, N, P)
<1> USE DEF Merges
<1>0. /\ \A y \in Afoot(U, Q2) : y \in Afoot(U, Q) \/ y \in Q2
      /\ \A y \in Afoot(U, Q) : y \in Afoot(U, Q2)
      /\ \A y \in Q2 : y \in Afoot(U, Q2)
      /\ \A y \in Q : y \in Afoot(U, Q)
      /\ N \subseteq FileId /\ FileId \subseteq Nat
      /\ \A f \in N, g \in FileId : Hash[g] = Hash[f] => g \in N
  BY MaintenanceAssumption DEF Afoot, Picture, MaintenanceAssumption
<1>1. ASSUME NEW f, f \notin D, Solid(V, U, Q, f) PROVE Solid(V, U, Q2, f)
  <2>1. ASSUME NEW y \in Afoot(U, Q2), y.file = f, Removes(y) PROVE FALSE
    <3>1. y \notin Afoot(U, Q)
      BY <1>1, <2>1 DEF Solid
    <3>2. y \in Q2 /\ y \notin Q
      BY <1>0, <3>1
    <3>3. y.file \in D
      BY <2>1, <3>2 DEF Removes
    <3> QED
      BY <1>1, <2>1, <3>3
  <2> QED
    BY <1>1, <2>1 DEF Solid
<1>2. ASSUME NEW f, Solid(V, U, Q2, f) PROVE Solid(V, U, Q, f)
  BY <1>0, <1>2 DEF Solid
<1>3. ASSUME NEW m \in N, Anchor(V, U, Q, m) PROVE m \notin D /\ Anchor(V, U, Q2, m)
  <2>1. m \notin D
    <3>1. SUFFICES ASSUME m \in D PROVE FALSE
      OBVIOUS
    <3>2. PICK h \in FileId : Older(h, m) /\ V[<<d, h>>].is = "live" /\ V[<<d, h>>].path = V[<<d, m>>].path
      BY <3>1
    <3> QED
      BY <1>3, <3>2, AnchorLowest
  <2>2. Solid(V, U, Q2, m)
    BY <1>1, <1>3, <2>1 DEF Anchor
  <2> QED
    BY <1>2, <1>3, <2>1, <2>2 DEF Anchor
<1>4. Covered(V, U, Q2, N)
  <2> SUFFICES ASSUME NEW f \in N, NEW e \in Device, V[<<e, f>>].is = "live", ~Solid(V, U, Q2, f)
               PROVE  \E g \in N : Older(g, f) /\ Solid(V, U, Q2, g) /\ V[<<e, g>>].path = V[<<e, f>>].path
    BY DEF Covered
  <2>1. CASE ~Solid(V, U, Q, f)
    <3>1. PICK g \in N : Older(g, f) /\ Solid(V, U, Q, g) /\ V[<<e, g>>].path = V[<<e, f>>].path
      BY <2>1 DEF Clearing, Covered
    <3>2. V[<<e, g>>].is = "live"
      BY <3>1 DEF Solid
    <3>3. PICK m \in N : /\ Hash[m] = Hash[g] /\ m <= g /\ Anchor(V, U, Q, m)
                         /\ V[<<e, m>>].path = V[<<e, g>>].path
      BY <3>2, LowestAnchor
    <3>4. Older(m, f)
      BY <1>0, <3>1, <3>3 DEF Older
    <3>5. Solid(V, U, Q2, m)
      BY <1>3, <3>3 DEF Anchor
    <3> QED
      BY <3>1, <3>3, <3>4, <3>5
  <2>2. CASE Solid(V, U, Q, f)
    <3>1. f \in D
      BY <1>1, <2>2
    <3>2. PICK h \in FileId : Older(h, f) /\ V[<<d, h>>].is = "live" /\ V[<<d, h>>].path = V[<<d, f>>].path
      BY <3>1
    <3>3. h \in N
      BY <1>0, <3>2 DEF Older
    <3>4. PICK m \in N : /\ Hash[m] = Hash[h] /\ m <= h /\ Anchor(V, U, Q, m)
                         /\ V[<<d, m>>].path = V[<<d, h>>].path
      BY <3>2, <3>3, LowestAnchor
    <3>5. Older(m, f)
      BY <1>0, <3>2, <3>4 DEF Older
    <3>6. Solid(V, U, Q2, m)
      BY <1>3, <3>4 DEF Anchor
    <3>7. /\ \A c \in Device : V[<<c, f>>].is = "live"
          /\ \A c \in Device : V[<<c, m>>].is = "live"
      BY <2>2, <3>6 DEF Solid
    <3>8. V[<<d, f>>].path = V[<<e, f>>].path /\ V[<<d, m>>].path = V[<<e, m>>].path
      BY <3>7 DEF Clearing, PathsAlike
    <3> QED
      BY <3>2, <3>4, <3>5, <3>6, <3>8
  <2> QED
    BY <2>1, <2>2
<1>5. ASSUME NEW f, NEW t, Brought(V, U, Q, f, t) PROVE Brought(V, U, Q2, f, t)
  BY <1>0, <1>5 DEF Brought
<1>6. ASSUME NEW r \in P PROVE Follows(V, U, Q2, N, r)
  <2>1. Follows(V, U, Q, N, r)
    BY DEF Clearing
  <2>2. PICK f \in N : /\ Hash[f] = r[1]
                       /\ \/ Solid(V, U, Q, f) /\ Bears(V, f, r[2])
                          \/ Anchor(V, U, Q, f) /\ Brought(V, U, Q, f, r[2])
    BY <2>1 DEF Follows
  <2>3. CASE Anchor(V, U, Q, f) /\ Brought(V, U, Q, f, r[2])
    BY <1>3, <1>5, <2>2, <2>3 DEF Follows
  <2>4. CASE Solid(V, U, Q, f) /\ Bears(V, f, r[2]) /\ f \notin D
    BY <1>1, <2>2, <2>4 DEF Follows
  <2>5. CASE Solid(V, U, Q, f) /\ Bears(V, f, r[2]) /\ f \in D
    <3>1. PICK m \in N : /\ Hash[m] = Hash[f] /\ Anchor(V, U, Q, m)
                         /\ V[<<d, m>>].is = "live" /\ V[<<d, m>>].path = V[<<d, f>>].path
      BY <2>5, LowestAnchor
    <3>2. \A h \in FileId : ~(/\ Older(h, m) /\ V[<<d, h>>].is = "live"
                              /\ V[<<d, h>>].path = V[<<d, m>>].path)
      BY <3>1, AnchorLowest
    <3>3. r[2] \in V[<<d, f>>].tags
      BY <2>5 DEF Bears
    <3>4. \/ r[2] \in V[<<d, m>>].tags
          \/ \E y \in Q2 : y.file = m /\ y.change.kind = "FileTagged" /\ y.change.tag = r[2]
      BY <2>5, <3>1, <3>2, <3>3
    <3>5. Brought(V, U, Q2, m, r[2])
      BY <1>0, <3>4 DEF Brought
    <3> QED
      BY <1>3, <2>2, <3>1, <3>5 DEF Follows
  <2> QED
    BY <2>2, <2>3, <2>4, <2>5
<1>7. \A y \in Q2 : y \in Q \/ (y.file \in N /\ Clears(y))
  BY DEF Clears
<1>8. ASSUME NEW y \in Q2, NEW e \in Device
      PROVE  y \in Q \/ V[<<e, y.file>>].is # "unknown"
  <2>1. y \in Q \/ (y.file \in N /\ V[<<d, y.file>>].is = "live")
    OBVIOUS
  <2> QED
    BY <2>1 DEF Clearing, KnownAlike
<1> QED
  BY <1>4, <1>6, <1>7, <1>8, PlanClears

-----------------------------------------------------------------------------
(***************************************************************************)
(* Stamps.  A clock is ahead of all that was stamped.                      *)
(***************************************************************************)
FrameDated(x, n) == /\ x.change.kind # "FilePurged" => x.change.at <= n
                    /\ Adds(x) => x.change.pathAt <= n

RowDated(row, n) == /\ row.pathAt <= n /\ row.deletedAt <= n /\ row.restoredAt <= n
                    /\ \A i \in 1 .. Len(row.log) : row.log[i].at <= n

\* F, G: the rows of files and tags of all devices.
CatalogsOK(F, G) == /\ F \in [Device -> [FileId -> File]] /\ G \in [Device -> TagRows]
                    /\ \A d \in Device, f \in FileId : RowSound(f, F[d][f])

CatalogsDated(F, G, n) == /\ \A d \in Device, f \in FileId : RowDated(F[d][f], n)
                          /\ \A d \in Device, r \in FileId \X Tag : G[d][r].at <= n

\* What the writer makes of the catalogs.
Writes(F, G, d, x, F2, G2) == /\ F2 = RowsAfter(F, d, x)
                              /\ G2 = [G EXCEPT ![d] = TagsAfter(@, x, F[d][x.file])]

\* The newest version of a row is dated.
LEMMA LatestDated ==
    ASSUME NEW row \in File, NEW n \in Nat, RowDated(row, n)
    PROVE  LatestAt(row) \in Nat /\ LatestAt(row) <= n /\ AliveAt(row) \in Nat /\ AliveAt(row) <= n
<1>1. row.log \in Seq(Version) /\ row.restoredAt \in Nat /\ row.restoredAt <= n
  BY DEF File, RowDated
<1>2. LatestAt(row) \in Nat /\ LatestAt(row) <= n
  <2>1. CASE row.log = <<>>
    BY <2>1 DEF LatestAt
  <2>2. CASE row.log # <<>>
    <3>1. Len(row.log) \in 1 .. Len(row.log)
      BY <1>1, <2>2
    <3>2. row.log[Len(row.log)] \in Version /\ row.log[Len(row.log)].at <= n
      BY <1>1, <3>1 DEF RowDated
    <3> QED
      BY <2>2, <3>2 DEF LatestAt, Latest, Version
  <2> QED
    BY <2>1, <2>2
<1> QED
  BY <1>1, <1>2 DEF AliveAt, Later

\* A version appended is dated when its stamp is.
LEMMA AppendDated ==
    ASSUME NEW f \in FileId, NEW row \in File, NEW n \in Nat, RowDated(row, n),
           NEW at \in Nat, at <= n
    PROVE  RowDated(AppendVersion(row, Hash[f], at), n)
<1>1. PICK v : v = [hash |-> Hash[f], at |-> at]
  OBVIOUS
<1>2. PICK old \in Seq(Version) : old = row.log
  BY DEF File
<1>3. v \in Version /\ v.at = at
  BY <1>1, MaintenanceAssumption DEF MaintenanceAssumption, Version
<1>4. PICK log : log = Append(old, v)
  OBVIOUS
<1>5. \A i \in 1 .. Len(log) : log[i] = v \/ (i \in 1 .. Len(old) /\ log[i] = old[i])
  BY <1>3, <1>4
<1>6. \A i \in 1 .. Len(log) : log[i].at <= n
  BY <1>2, <1>3, <1>5 DEF RowDated
<1>7. PICK mid : mid = RecordVersion(row, Hash[f], at)
  OBVIOUS
<1>8. mid = [row EXCEPT !.log = log]
  BY <1>1, <1>2, <1>4, <1>7 DEF RecordVersion
<1>9. /\ mid.log = log /\ mid.pathAt = row.pathAt /\ mid.deletedAt = row.deletedAt
      /\ mid.restoredAt = row.restoredAt
  BY <1>8 DEF File
<1>10. RowDated(mid, n)
  BY <1>6, <1>9 DEF RowDated
<1>11. LET r == RestoreFile(mid)
       IN  /\ r.log = mid.log /\ r.pathAt = mid.pathAt /\ r.deletedAt = mid.deletedAt
           /\ r.restoredAt = mid.restoredAt
  BY <1>8 DEF RestoreFile, File
<1> QED
  BY <1>7, <1>10, <1>11 DEF AppendVersion, RowDated

\* A change dated leaves a row dated.
LEMMA RowDates ==
    ASSUME NEW x \in FrameSet, ~OfTag(x.change), NEW row, RowSound(x.file, row),
           NEW n \in Nat, RowDated(row, n), FrameDated(x, n)
    PROVE  RowDated(ApplyChange(row, x.change).file, n)
<1> DEFINE c == x.change
           new == ApplyChange(row, c).file
<1>0. /\ row \in File /\ x.file \in FileId /\ RowMade(x, row, ApplyChange(row, c))
  BY ChangeFields, RowFacts DEF RowSound, RowOK
<1>1. CASE row.purged
  BY <1>0, <1>1 DEF RowMade
<1>2. CASE ~row.purged /\ c.kind = "FileMetadataAdded"
  <2>1. /\ c.path \in Path /\ c.pathAt \in Nat /\ c.at \in Nat /\ c.hash = Hash[x.file]
        /\ c.at <= n /\ c.pathAt <= n
    BY <1>2, ChangeFields DEF FrameDated, Adds
  <2>2. ApplyChange(row, c) = ApplyAdded(row, c)
    BY <1>2 DEF ApplyChange
  <2>3. CASE row.known /\ ~SupersedesLatest(row, c.at)
    BY <2>2, <2>3 DEF ApplyAdded, Relayed, Outcome
  <2>4. CASE row.known /\ SupersedesLatest(row, c.at)
    <3>1. new = AppendVersion(row, Hash[x.file], c.at)
      BY <2>1, <2>2, <2>4 DEF ApplyAdded, Outcome
    <3> QED
      BY <1>0, <2>1, <3>1, AppendDated
  <2>5. CASE ~row.known
    <3>1. PICK mid : mid = AddFile(row, c.path, c.pathAt)
      OBVIOUS
    <3>2. new = AppendVersion(mid, Hash[x.file], c.at)
      BY <2>1, <2>2, <2>5, <3>1 DEF ApplyAdded, Outcome
    <3>3. mid = [row EXCEPT !.known = TRUE, !.path = c.path, !.pathAt = c.pathAt,
                            !.deletedAt = 0, !.restoredAt = 0, !.deleted = FALSE]
      BY <3>1 DEF AddFile
    <3>4. mid \in File
      BY <1>0, <2>1, <3>3 DEF File
    <3>5. /\ mid.log = row.log /\ mid.pathAt = c.pathAt /\ mid.deletedAt = 0 /\ mid.restoredAt = 0
      BY <1>0, <3>3 DEF File
    <3>6. RowDated(mid, n)
      BY <1>0, <2>1, <3>5 DEF RowDated
    <3> QED
      BY <1>0, <2>1, <3>2, <3>4, <3>6, AppendDated
  <2> QED
    BY <2>3, <2>4, <2>5
<1>3. CASE ~row.purged /\ c.kind = "FileMoved"
  <2>1. c.at <= n
    BY <1>3 DEF FrameDated
  <2>2. new \in {row, [row EXCEPT !.path = c.path, !.pathAt = c.at]}
    BY <1>0, <1>3 DEF RowMade
  <2> QED
    BY <1>0, <2>1, <2>2 DEF RowDated, File
<1>4. CASE ~row.purged /\ c.kind = "FileDeleted"
  <2>1. c.at <= n
    BY <1>4 DEF FrameDated
  <2>2. new \in {row, [row EXCEPT !.deleted = TRUE, !.deletedAt = c.at]}
    BY <1>0, <1>4 DEF RowMade
  <2> QED
    BY <1>0, <2>1, <2>2 DEF RowDated, File
<1>5. CASE ~row.purged /\ c.kind = "FileRestored"
  <2>1. c.at <= n /\ c.at \in Nat
    BY <1>5, ChangeFields DEF FrameDated
  <2>2. new \in {row, ApplyRestore(row, c.at)}
    BY <1>0, <1>5 DEF RowMade
  <2>3. LET r == ApplyRestore(row, c.at)
        IN  /\ r.log = row.log /\ r.pathAt = row.pathAt /\ r.deletedAt = row.deletedAt
            /\ r.restoredAt \in {row.restoredAt, Later(row.restoredAt, c.at)}
    BY <1>0 DEF ApplyRestore, File
  <2>4. Later(row.restoredAt, c.at) <= n
    BY <2>1 DEF Later, RowDated
  <2> QED
    BY <2>2, <2>3, <2>4 DEF RowDated
<1>6. CASE ~row.purged /\ c.kind = "FilePurged"
  <2>1. new = [Unknown EXCEPT !.purged = TRUE]
    BY <1>0, <1>6 DEF RowMade
  <2>2. new.pathAt = 0 /\ new.deletedAt = 0 /\ new.restoredAt = 0 /\ new.log = <<>>
    BY <2>1 DEF Unknown
  <2> QED
    BY <2>2 DEF RowDated
<1> QED
  BY <1>1, <1>2, <1>3, <1>4, <1>5, <1>6, ChangeFields DEF OfTag

\* So it leaves the tags.
LEMMA TagsDate ==
    ASSUME NEW x \in FrameSet, NEW rows \in TagRows, NEW old, NEW n \in Nat, FrameDated(x, n),
           NEW r \in FileId \X Tag, rows[r].at <= n
    PROVE  TagsAfter(rows, x, old)[r].at <= n
<1>1. TagsAfter(rows, x, old)[r] \in
          {rows[r], NoRow} \cup (IF OfTag(x.change) THEN {Written(rows[r], x.change.kind = "FileUntagged", x.change.at)} ELSE {})
                           \cup (IF Adds(x) THEN {Written(rows[r], FALSE, x.change.pathAt)} ELSE {})
  <2>1. PICK a, b, k : /\ a = Written(rows[r], x.change.kind = "FileUntagged", x.change.at)
                       /\ b = Written(rows[r], FALSE, x.change.pathAt)
                       /\ k = x.change.kind
    OBVIOUS
  <2>2. TagsAfter(rows, x, old)[r] =
            IF r[1] # x.file THEN rows[r]
            ELSE CASE OfTag(x.change) /\ r[2] = x.change.tag -> a
                   [] k = "FileMetadataAdded" /\ r[2] \in x.tags /\ ~old.known /\ ~old.purged -> b
                   [] k = "FilePurged" /\ (old.known \/ ~old.purged) -> NoRow
                   [] OTHER -> rows[r]
    BY <2>1 DEF TagsAfter
  <2>3. Adds(x) <=> k = "FileMetadataAdded"
    BY <2>1 DEF Adds
  <2> QED
    BY <2>1, <2>2, <2>3
<1>2. OfTag(x.change) => x.change.at <= n /\ x.change.at \in Nat
  BY ChangeFields DEF OfTag, FrameDated
<1>3. Adds(x) => x.change.pathAt <= n
  BY DEF FrameDated
<1>4. OfTag(x.change) => Written(rows[r], x.change.kind = "FileUntagged", x.change.at).at <= n
  BY <1>2 DEF Written
<1>5. Adds(x) => Written(rows[r], FALSE, x.change.pathAt).at <= n
  BY <1>3 DEF Written
<1>6. NoRow.at <= n
  BY DEF NoRow
<1> QED
  BY <1>1, <1>4, <1>5, <1>6

-----------------------------------------------------------------------------
(***************************************************************************)
(* One change is written on one device.                                    *)
(***************************************************************************)
\* What is on a wire after a frame was put on it or taken off.
LEMMA SentFacts ==
    ASSUME NEW s \in Seq(FrameSet), NEW x \in FrameSet
    PROVE  /\ \A i \in 1 .. Len(s) : s[i] \in FrameSet
           /\ s \o <<x>> \in Seq(FrameSet) /\ s \o <<>> = s
           /\ {(s \o <<x>>)[i] : i \in 1 .. Len(s \o <<x>>)} = {s[i] : i \in 1 .. Len(s)} \cup {x}
           /\ s # <<>> => /\ Tail(s) \in Seq(FrameSet) /\ Head(s) \in FrameSet
                          /\ Head(s) \in {s[i] : i \in 1 .. Len(s)}
                          /\ {s[i] : i \in 1 .. Len(s)} =
                                 {Head(s)} \cup {Tail(s)[i] : i \in 1 .. Len(Tail(s))}
<1>1. /\ \A i \in 1 .. Len(s) : s[i] \in FrameSet
      /\ s \o <<x>> \in Seq(FrameSet) /\ s \o <<>> = s
  OBVIOUS
<1>2. PICK u : u = s \o <<x>>
  OBVIOUS
<1>3. /\ Len(u) = Len(s) + 1 /\ u[Len(s) + 1] = x
      /\ \A i \in 1 .. Len(s) : u[i] = s[i]
  BY <1>2
<1>4. {u[i] : i \in 1 .. Len(u)} = {s[i] : i \in 1 .. Len(s)} \cup {x}
  <2>0. Len(s) \in Nat
    OBVIOUS
  <2>1. \A i \in 1 .. Len(u) : i \in 1 .. Len(s) \/ i = Len(s) + 1
    BY <1>3, <2>0
  <2>2. \A i \in 1 .. Len(s) : i \in 1 .. Len(u)
    BY <1>3, <2>0
  <2>3. Len(s) + 1 \in 1 .. Len(u)
    BY <1>3, <2>0
  <2> QED
    BY <1>3, <2>1, <2>2, <2>3
<1>5. ASSUME s # <<>>
      PROVE  /\ Tail(s) \in Seq(FrameSet) /\ Head(s) \in FrameSet
             /\ Head(s) \in {s[i] : i \in 1 .. Len(s)}
             /\ {s[i] : i \in 1 .. Len(s)} =
                    {Head(s)} \cup {Tail(s)[i] : i \in 1 .. Len(Tail(s))}
  <2>1. /\ Len(s) \in Nat \ {0} /\ Head(s) = s[1] /\ Tail(s) \in Seq(FrameSet)
        /\ Len(Tail(s)) = Len(s) - 1
        /\ \A i \in 1 .. Len(s) - 1 : Tail(s)[i] = s[i + 1]
    BY <1>5
  <2>2. 1 \in 1 .. Len(s)
    BY <2>1
  <2>3. \A i \in 1 .. Len(s) : i = 1 \/ (i - 1 \in 1 .. Len(s) - 1 /\ (i - 1) + 1 = i)
    BY <2>1
  <2>4. \A i \in 1 .. Len(s) - 1 : i + 1 \in 1 .. Len(s)
    BY <2>1
  <2>5. Head(s) \in {s[i] : i \in 1 .. Len(s)} /\ Head(s) \in FrameSet
    BY <1>1, <2>1, <2>2
  <2>6. ASSUME NEW i \in 1 .. Len(s)
        PROVE  s[i] = Head(s) \/ s[i] \in {Tail(s)[j] : j \in 1 .. Len(Tail(s))}
    <3>1. CASE i = 1
      BY <2>1, <3>1
    <3>2. CASE i - 1 \in 1 .. Len(s) - 1 /\ (i - 1) + 1 = i
      <4>1. Tail(s)[i - 1] = s[i]
        BY <2>1, <3>2
      <4> QED
        BY <2>1, <3>2, <4>1
    <3> QED
      BY <2>3, <3>1, <3>2
  <2>7. ASSUME NEW j \in 1 .. Len(Tail(s))
        PROVE  Tail(s)[j] \in {s[i] : i \in 1 .. Len(s)}
    BY <2>1, <2>4
  <2> QED
    BY <2>1, <2>5, <2>6, <2>7
<1> QED
  BY <1>1, <1>2, <1>4, <1>5

\* A frame, or nothing, is put on the wires.
PutOn(w, d, from, x, fs, w2) ==
    /\ w2 \in [Ends -> Seq(FrameSet)]
    /\ \A l \in Ends :
           Sent(w2, l) = Sent(w, l) \cup (IF fs = <<x>> /\ l[1] = d /\ l[2] # from THEN {x} ELSE {})

\* What forwarding adds to the links.
LEMMA ForwardedSent ==
    ASSUME NEW w \in [Ends -> Seq(FrameSet)], NEW d, NEW from, NEW x \in FrameSet,
           NEW fs, fs = <<>> \/ fs = <<x>>
    PROVE  PutOn(w, d, from, x, fs, Forwarded(w, d, fs, from))
<1>1. PICK w2 : w2 = Forwarded(w, d, fs, from)
  OBVIOUS
<1>2. w2 = [l \in Ends |-> IF l[1] = d /\ l[2] # from THEN w[l] \o fs ELSE w[l]]
  BY <1>1 DEF Forwarded
<1>3. ASSUME NEW l \in Ends
      PROVE  /\ w2[l] \in Seq(FrameSet)
             /\ Sent(w2, l) = Sent(w, l) \cup (IF fs = <<x>> /\ l[1] = d /\ l[2] # from THEN {x} ELSE {})
  <2>1. PICK s \in Seq(FrameSet) : s = w[l]
    OBVIOUS
  <2>2. /\ s \o <<x>> \in Seq(FrameSet) /\ s \o <<>> = s
        /\ {(s \o <<x>>)[i] : i \in 1 .. Len(s \o <<x>>)} = {s[i] : i \in 1 .. Len(s)} \cup {x}
    BY SentFacts
  <2>3. Sent(w, l) = {s[i] : i \in 1 .. Len(s)}
    BY <2>1 DEF Sent
  <2>4. CASE fs = <<x>> /\ l[1] = d /\ l[2] # from
    <3>1. w2[l] = s \o <<x>>
      BY <1>2, <2>1, <2>4
    <3>2. Sent(w2, l) = {(s \o <<x>>)[i] : i \in 1 .. Len(s \o <<x>>)}
      BY <3>1 DEF Sent
    <3> QED
      BY <2>2, <2>3, <2>4, <3>1, <3>2
  <2>5. CASE ~(fs = <<x>> /\ l[1] = d /\ l[2] # from)
    <3>1. w2[l] = s
      BY <1>2, <2>1, <2>2, <2>5
    <3>2. Sent(w2, l) = {s[i] : i \in 1 .. Len(s)}
      BY <3>1 DEF Sent
    <3> QED
      BY <2>3, <2>5, <3>1, <3>2
  <2> QED
    BY <2>4, <2>5
<1> QED
  BY <1>1, <1>2, <1>3 DEF PutOn

\* Taking the first frame off a wire.
TakenOff(w, l, x, w2) ==
    /\ w2 \in [Ends -> Seq(FrameSet)] /\ x \in FrameSet
    /\ Sent(w, l) = {x} \cup Sent(w2, l)
    /\ \A k \in Ends : k # l => Sent(w2, k) = Sent(w, k)

\* What is on the links when a frame was taken off one.
LEMMA TakenSent ==
    ASSUME NEW w \in [Ends -> Seq(FrameSet)], NEW l \in Ends, w[l] # <<>>
    PROVE  TakenOff(w, l, Head(w[l]), [w EXCEPT ![l] = Tail(@)])
<1>1. PICK s \in Seq(FrameSet) : s = w[l] /\ s # <<>>
  OBVIOUS
<1>2. PICK w2 : w2 = [w EXCEPT ![l] = Tail(s)]
  OBVIOUS
<1>3. /\ Tail(s) \in Seq(FrameSet) /\ Head(s) \in FrameSet
      /\ Head(s) \in {s[i] : i \in 1 .. Len(s)}
      /\ {s[i] : i \in 1 .. Len(s)} = {Head(s)} \cup {Tail(s)[i] : i \in 1 .. Len(Tail(s))}
  <2>1. Head(s) \in FrameSet
    BY <1>1
  <2> QED
    BY <1>1, <2>1, SentFacts
<1>4. w2 \in [Ends -> Seq(FrameSet)] /\ w2[l] = Tail(s) /\ \A k \in Ends : k # l => w2[k] = w[k]
  BY <1>2, <1>3
<1>5. Sent(w, l) = {s[i] : i \in 1 .. Len(s)} /\ Sent(w2, l) = {Tail(s)[i] : i \in 1 .. Len(Tail(s))}
  BY <1>1, <1>4 DEF Sent
<1>6. \A k \in Ends : k # l => Sent(w2, k) = Sent(w, k)
  BY <1>4 DEF Sent
<1> QED
  BY <1>1, <1>2, <1>3, <1>4, <1>5, <1>6 DEF TakenOff

\* A write leaves all other rows alone.
Apart(F, G, d, f, F2, G2) ==
    \A e \in Device, g \in FileId :
        e # d \/ g # f => /\ F2[e][g] = F[e][g]
                          /\ \A t \in Tag : G2[e][<<g, t>>] = G[e][<<g, t>>]

\* A write leaves sound catalogs and touches the rows of one file on one device.
LEMMA WriteRows ==
    ASSUME NEW F, NEW G, CatalogsOK(F, G), NEW d \in Device, NEW x \in FrameSet,
           NEW F2, NEW G2, Writes(F, G, d, x, F2, G2)
    PROVE  /\ x.file \in FileId /\ RowSound(x.file, F[d][x.file]) /\ G[d] \in TagRows
           /\ F2[d][x.file] = Result(F, d, x).file
           /\ G2[d] = TagsAfter(G[d], x, F[d][x.file])
           /\ CatalogsOK(F2, G2) /\ Apart(F, G, d, x.file, F2, G2)
<1>0. /\ x.file \in FileId /\ F \in [Device -> [FileId -> File]] /\ G \in [Device -> TagRows]
      /\ \A e \in Device, f \in FileId : RowSound(f, F[e][f])
  BY ChangeFields DEF CatalogsOK
<1>1. PICK row : row = F[d][x.file]
  OBVIOUS
<1>2. RowSound(x.file, row) /\ row \in File
  BY <1>0, <1>1
<1>3. RowSound(x.file, Result(F, d, x).file)
  <2>1. CASE OfTag(x.change)
    <3>1. Result(F, d, x) = Relayed(row, x.change)
      BY <1>1, <2>1 DEF Result
    <3>2. Result(F, d, x).file = row
      BY <3>1 DEF Relayed, Outcome
    <3> QED
      BY <1>2, <3>2
  <2>2. CASE ~OfTag(x.change)
    <3>1. Result(F, d, x) = ApplyChange(row, x.change)
      BY <1>1, <2>2 DEF Result
    <3>2. RowMade(x, row, ApplyChange(row, x.change))
      BY <1>2, <2>2, RowFacts
    <3> QED
      BY <3>1, <3>2 DEF RowMade
  <2> QED
    BY <2>1, <2>2
<1>4. PICK new : new = Result(F, d, x).file
  OBVIOUS
<1>5. new \in File /\ RowSound(x.file, new)
  BY <1>3, <1>4 DEF RowSound, RowOK
<1>6. F2 = [F EXCEPT ![d] = [F[d] EXCEPT ![x.file] = new]]
  BY <1>4 DEF Writes, RowsAfter
<1>7. F2 \in [Device -> [FileId -> File]] /\ F2[d][x.file] = new
  BY <1>0, <1>5, <1>6
<1>8. \A e \in Device, g \in FileId : e # d \/ g # x.file => F2[e][g] = F[e][g]
  BY <1>0, <1>6
<1>9. PICK rows : rows = TagsAfter(G[d], x, row)
  OBVIOUS
<1>10. TagsMade(x, row, G[d], rows)
  <2>1. row.known \in BOOLEAN /\ row.purged \in BOOLEAN /\ G[d] \in TagRows
    BY <1>0, <1>2 DEF File
  <2> QED
    BY <1>9, <2>1, TagsTurn
<1>11. G2 = [G EXCEPT ![d] = rows]
  BY <1>1, <1>9 DEF Writes
<1>12. G2 \in [Device -> TagRows] /\ G2[d] = rows
  BY <1>0, <1>10, <1>11 DEF TagsMade
<1>13. ASSUME NEW e \in Device, NEW g \in FileId, e # d \/ g # x.file, NEW t \in Tag
       PROVE  G2[e][<<g, t>>] = G[e][<<g, t>>]
  <2>1. CASE e # d
    BY <1>0, <1>11, <2>1
  <2>2. CASE e = d
    BY <1>10, <1>12, <1>13, <2>2 DEF TagsMade
  <2> QED
    BY <2>1, <2>2
<1>14. ASSUME NEW e \in Device, NEW f \in FileId PROVE RowSound(f, F2[e][f])
  <2>1. CASE e = d /\ f = x.file
    BY <1>5, <1>7, <2>1
  <2>2. CASE ~(e = d /\ f = x.file)
    BY <1>0, <1>8, <2>2
  <2> QED
    BY <2>1, <2>2
<1>15. CatalogsOK(F2, G2)
  BY <1>7, <1>12, <1>14 DEF CatalogsOK
<1>16. Apart(F, G, d, x.file, F2, G2)
  BY <1>8, <1>13 DEF Apart
<1> QED
  BY <1>0, <1>1, <1>4, <1>7, <1>9, <1>12, <1>15, <1>16

\* A write of a dated frame leaves the catalogs dated.
LEMMA WriteDates ==
    ASSUME NEW F, NEW G, CatalogsOK(F, G), NEW d \in Device, NEW x \in FrameSet,
           NEW F2, NEW G2, Writes(F, G, d, x, F2, G2),
           NEW n \in Nat, CatalogsDated(F, G, n), FrameDated(x, n)
    PROVE  CatalogsDated(F2, G2, n)
<1>1. /\ x.file \in FileId /\ RowSound(x.file, F[d][x.file]) /\ G[d] \in TagRows
      /\ F2[d][x.file] = Result(F, d, x).file
      /\ G2[d] = TagsAfter(G[d], x, F[d][x.file])
      /\ Apart(F, G, d, x.file, F2, G2)
  BY WriteRows
<1>2. PICK row : row = F[d][x.file]
  OBVIOUS
<1>3. RowDated(row, n)
  BY <1>1, <1>2 DEF CatalogsDated
<1>4. RowDated(F2[d][x.file], n)
  <2>1. CASE OfTag(x.change)
    <3>1. Result(F, d, x) = Relayed(row, x.change)
      BY <1>2, <2>1 DEF Result
    <3>2. Result(F, d, x).file = row
      BY <3>1 DEF Relayed, Outcome
    <3> QED
      BY <1>1, <1>3, <3>2
  <2>2. CASE ~OfTag(x.change)
    <3>1. Result(F, d, x) = ApplyChange(row, x.change)
      BY <1>2, <2>2 DEF Result
    <3>2. RowDated(ApplyChange(row, x.change).file, n)
      BY <1>1, <1>2, <1>3, <2>2, RowDates
    <3> QED
      BY <1>1, <3>1, <3>2
  <2> QED
    BY <2>1, <2>2
<1>5. ASSUME NEW e \in Device, NEW f \in FileId PROVE RowDated(F2[e][f], n)
  <2>1. CASE e = d /\ f = x.file
    BY <1>4, <2>1
  <2>2. CASE ~(e = d /\ f = x.file)
    BY <1>1, <2>2 DEF Apart, CatalogsDated
  <2> QED
    BY <2>1, <2>2
<1>6. ASSUME NEW e \in Device, NEW r \in FileId \X Tag PROVE G2[e][r].at <= n
  <2>0. G[e][r].at <= n
    BY DEF CatalogsDated
  <2>1. CASE e = d
    BY <1>1, <2>0, <2>1, TagsDate
  <2>2. CASE e # d
    <3>1. PICK g \in FileId, t \in Tag : r = <<g, t>>
      OBVIOUS
    <3> QED
      BY <1>1, <2>0, <2>2, <3>1 DEF Apart
  <2> QED
    BY <2>1, <2>2
<1> QED
  BY <1>5, <1>6 DEF CatalogsDated

\* What is shown depends on the rows of the file only.
LEMMA SameShown ==
    ASSUME NEW row, NEW rows, NEW rows2, NEW f \in FileId,
           \A t \in Tag : rows2[<<f, t>>] = rows[<<f, t>>]
    PROVE  Shown(row, rows2, f) = Shown(row, rows, f)
<1>1. \A t \in Tag : On(rows2, f, t) <=> On(rows, f, t)
  BY DEF On
<1>2. {t \in Tag : On(rows2, f, t)} = {t \in Tag : On(rows, f, t)}
  BY <1>1
<1> QED
  BY <1>2 DEF Shown

\* A write of a frame newer than what it changes turns what is shown.
LEMMA WriteTurns ==
    ASSUME NEW F, NEW G, CatalogsOK(F, G), NEW d \in Device, NEW x \in FrameSet,
           NEW F2, NEW G2, Writes(F, G, d, x, F2, G2),
           NEW V, V = ViewOf(F, G), NEW V2, V2 = ViewOf(F2, G2),
           Adds(x) => V[<<d, x.file>>].is # "deleted",
           Turn(V[<<d, x.file>>], x) = V[<<d, x.file>>] \/ NewerRow(F[d][x.file], G[d], x)
    PROVE  /\ \A e \in Device, f \in FileId :
                  V2[<<e, f>>] = IF e = d /\ f = x.file THEN Turn(V[<<e, f>>], x) ELSE V[<<e, f>>]
           /\ V2[<<d, x.file>>] # V[<<d, x.file>>] => Result(F, d, x).announce # {}
<1>1. /\ x.file \in FileId /\ RowSound(x.file, F[d][x.file]) /\ G[d] \in TagRows
      /\ F2[d][x.file] = Result(F, d, x).file
      /\ G2[d] = TagsAfter(G[d], x, F[d][x.file])
      /\ Apart(F, G, d, x.file, F2, G2)
  BY WriteRows
<1>2. PICK row, rows : row = F[d][x.file] /\ rows = G[d]
  OBVIOUS
<1>3. \A e \in Device, f \in FileId : /\ V[<<e, f>>] = Shown(F[e][f], G[e], f)
                                      /\ V2[<<e, f>>] = Shown(F2[e][f], G2[e], f)
  BY DEF ViewOf
<1>4. PICK o : o = IF OfTag(x.change) THEN Relayed(row, x.change) ELSE ApplyChange(row, x.change)
  OBVIOUS
<1>5. Result(F, d, x) = o
  BY <1>2, <1>4 DEF Result
<1>6. V[<<d, x.file>>] = Shown(row, rows, x.file)
  BY <1>1, <1>2, <1>3
<1>7. Turned(x, row, rows, o, TagsAfter(rows, x, row))
  BY <1>1, <1>2, <1>4, <1>6, RowTurns
<1>8. V2[<<d, x.file>>] = Shown(o.file, TagsAfter(rows, x, row), x.file)
  BY <1>1, <1>2, <1>3, <1>5
<1>9. /\ V2[<<d, x.file>>] = Turn(V[<<d, x.file>>], x)
      /\ V2[<<d, x.file>>] # V[<<d, x.file>>] => Result(F, d, x).announce # {}
  BY <1>5, <1>6, <1>7, <1>8 DEF Turned
<1>10. ASSUME NEW e \in Device, NEW f \in FileId, ~(e = d /\ f = x.file)
       PROVE  V2[<<e, f>>] = V[<<e, f>>]
  <2>1. F2[e][f] = F[e][f] /\ \A t \in Tag : G2[e][<<f, t>>] = G[e][<<f, t>>]
    BY <1>1, <1>10 DEF Apart
  <2> QED
    BY <1>3, <2>1, SameShown
<1> QED
  BY <1>9, <1>10

-----------------------------------------------------------------------------
(***************************************************************************)
(* Newer frames.                                                           *)
(***************************************************************************)
FrameFresh(x, n) == /\ x.change.kind # "FilePurged" => x.change.at > n
                    /\ Adds(x) => x.change.pathAt > n

\* A frame stamped later than all of a catalog is newer than any of its rows.
LEMMA FreshNewer ==
    ASSUME NEW x \in FrameSet, NEW n \in Nat, FrameFresh(x, n),
           NEW row, RowSound(x.file, row), RowDated(row, n),
           NEW rows \in TagRows, \A t \in Tag : rows[<<x.file, t>>].at <= n
    PROVE  NewerRow(row, rows, x)
<1>1. /\ x.file \in FileId /\ row \in File /\ x.tags \in SUBSET Tag
      /\ x.change.kind \in {"FileMetadataAdded", "FileMoved", "FileDeleted", "FileRestored",
                            "FilePurged", "FileTagged", "FileUntagged"}
  BY ChangeFields DEF RowSound, RowOK
<1>2. AliveAt(row) \in Nat /\ AliveAt(row) <= n
  BY <1>1, LatestDated
<1>3. row.pathAt \in Nat /\ row.deletedAt \in Nat /\ row.pathAt <= n /\ row.deletedAt <= n
  BY <1>1 DEF File, RowDated
<1>4. \A t \in Tag : rows[<<x.file, t>>].at \in Nat
  BY <1>1 DEF TagRows, TagRow
<1>5. CASE x.change.kind = "FileMetadataAdded"
  <2>1. x.change.pathAt > n /\ x.change.pathAt \in Nat
    BY <1>5, ChangeFields DEF FrameFresh, Adds
  <2>2. \A t \in x.tags : x.change.pathAt > rows[<<x.file, t>>].at
    BY <1>1, <1>4, <2>1
  <2> QED
    BY <1>5, <2>2 DEF NewerRow
<1>6. CASE x.change.kind = "FileMoved"
  <2>1. x.change.at > n /\ x.change.at \in Nat
    BY <1>6, ChangeFields DEF FrameFresh
  <2>2. x.change.at > row.pathAt
    BY <1>3, <2>1
  <2> QED
    BY <1>6, <2>2 DEF NewerRow
<1>7. CASE x.change.kind = "FileDeleted"
  <2>1. x.change.at > n /\ x.change.at \in Nat
    BY <1>7, ChangeFields DEF FrameFresh
  <2>2. x.change.at > AliveAt(row)
    BY <1>2, <2>1
  <2> QED
    BY <1>7, <2>2 DEF NewerRow
<1>8. CASE x.change.kind = "FileRestored"
  <2>1. x.change.at > n /\ x.change.at \in Nat
    BY <1>8, ChangeFields DEF FrameFresh
  <2>2. x.change.at > row.deletedAt
    BY <1>3, <2>1
  <2> QED
    BY <1>8, <2>2 DEF NewerRow
<1>9. CASE x.change.kind = "FilePurged"
  BY <1>9 DEF NewerRow
<1>10. CASE x.change.kind \in {"FileTagged", "FileUntagged"}
  <2>1. x.change.at > n /\ x.change.at \in Nat /\ x.change.tag \in Tag
    BY <1>10, ChangeFields DEF FrameFresh
  <2>2. x.change.at > rows[<<x.file, x.change.tag>>].at
    BY <1>4, <2>1
  <2> QED
    BY <1>10, <2>2 DEF NewerRow
<1> QED
  BY <1>1, <1>5, <1>6, <1>7, <1>8, <1>9, <1>10

\* The change of a command is newer than a row still after another was written.
LEMMA NewerStays ==
    ASSUME NEW x \in FrameSet, Clears(x), NEW y \in FrameSet, Clears(y), y.file = x.file,
           NEW row, RowSound(x.file, row), NEW rows \in TagRows,
           NEW o, o = (IF OfTag(x.change) THEN Relayed(row, x.change) ELSE ApplyChange(row, x.change)),
           NEW new, new = TagsAfter(rows, x, row),
           NEW v, v = Shown(row, rows, x.file), Turned(x, row, rows, o, new),
           Turn(v, y) # v => NewerRow(row, rows, y)
    PROVE  Turn(Turn(v, x), y) # Turn(v, x) => NewerRow(o.file, new, y)
<1> SUFFICES ASSUME Turn(Turn(v, x), y) # Turn(v, x)
             PROVE  NewerRow(o.file, new, y)
  OBVIOUS
<1>1. /\ x.file \in FileId /\ v \in ViewSet /\ Blank(v)
      /\ Turn(v, x) \in ViewSet /\ Blank(Turn(v, x))
  <2>1. x.file \in FileId
    BY ChangeFields
  <2>2. v \in ViewSet /\ Blank(v)
    BY <2>1, ShownIs, ShownBlank
  <2>3. RowSound(x.file, o.file) /\ new \in TagRows /\ Shown(o.file, new, x.file) = Turn(v, x)
    BY DEF Turned
  <2> QED
    BY <2>1, <2>2, <2>3, ShownIs, ShownBlank
<1>2. Turn(v, y) # v
  BY <1>1, ClearStays
<1>3. NewerRow(row, rows, y)
  BY <1>2
<1>4. CASE y.change.kind = "FilePurged"
  BY <1>4 DEF NewerRow
<1>5. CASE y.change.kind = "FileDeleted"
  <2>1. y.change.at > AliveAt(row)
    BY <1>3, <1>5 DEF NewerRow
  <2>2. Turn(v, x).is = "live"
    BY <1>1, <1>5, ClearKnown
  <2>3. ~Removes(x)
    BY <1>1, <2>2, ClearTurn
  <2>4. OfTag(x.change)
    BY <2>3 DEF Clears, Removes, OfTag
  <2>5. o.file = row
    BY <2>4 DEF Relayed, Outcome
  <2> QED
    BY <1>5, <2>1, <2>5 DEF NewerRow
<1>6. CASE y.change.kind = "FileTagged"
  <2>1. /\ y.change.at > rows[<<x.file, y.change.tag>>].at /\ y.change.tag \in Tag
    BY <1>3, <1>6, ChangeFields DEF NewerRow
  <2>2. Turn(v, x).is # "purged" /\ y.change.tag \notin Turn(v, x).tags
    BY <1>1, <1>6, ClearKnown
  <2>3. /\ x.change.kind # "FilePurged"
        /\ x.change.kind = "FileTagged" => x.change.tag # y.change.tag
    BY <1>1, <2>2, ClearTurn
  <2>4. TagsMade(x, row, rows, new)
    <3>1. row.known \in BOOLEAN /\ row.purged \in BOOLEAN
      BY DEF RowSound, RowOK, File
    <3> QED
      BY <3>1, TagsTurn
  <2>5. new[<<x.file, y.change.tag>>] = rows[<<x.file, y.change.tag>>]
    <3>1. CASE x.change.kind = "FileTagged"
      BY <2>1, <2>3, <2>4, <3>1 DEF TagsMade, OfTag
    <3>2. CASE x.change.kind = "FileDeleted"
      BY <2>1, <2>4, <3>2 DEF TagsMade
    <3> QED
      BY <2>3, <3>1, <3>2 DEF Clears
  <2> QED
    BY <1>6, <2>1, <2>5 DEF NewerRow
<1> QED
  BY <1>4, <1>5, <1>6 DEF Clears

-----------------------------------------------------------------------------
(***************************************************************************)
(* The invariant.                                                          *)
(***************************************************************************)
Sound == /\ setting \in Setting /\ now \in Nat /\ put \in SUBSET (Content \X Tag)
         /\ CatalogsOK(file, tag) /\ wire \in [Ends -> Seq(FrameSet)]
         /\ todo \in [Device -> SUBSET FrameSet] /\ queued \in [Device -> SUBSET FrameSet]

\* n: no clock is ahead of it.
Dated(n) == /\ CatalogsDated(file, tag, n)
            /\ \A l \in Ends : \A y \in Sent(wire, l) : FrameDated(y, n)
            /\ \A d \in Device : \A y \in todo[d] \cup queued[d] : FrameDated(y, n)

Racing == Clearing(View, Under, Waits, Cared, Wanted)

Calmly == \E x \in FrameSet, v \in ViewSet, w \in ViewSet :
              Spreading(View, Under, Waits, Cared, Wanted, x, v, w)

Ordered == AllNewer /\ (Racing \/ (~racing /\ Calmly))

TInv == Sound /\ Dated(now) /\ (Patiently => Ordered)

\* The invariant's views, links and frames.
LEMMA PictureOK == Sound => Picture(View, Under, Waits, Cared)
<1> SUFFICES ASSUME Sound
             PROVE  Picture(View, Under, Waits, Cared)
  OBVIOUS
<1>1. ASSUME NEW r \in Device \X FileId
      PROVE  View[r] \in ViewSet /\ Blank(View[r])
  <2>1. PICK d \in Device, f \in FileId : r = <<d, f>>
    OBVIOUS
  <2>2. View[r] = Shown(file[d][f], tag[d], f)
    BY <2>1 DEF View, ViewOf
  <2>3. RowSound(f, file[d][f]) /\ tag[d] \in TagRows
    BY DEF Sound, CatalogsOK
  <2> QED
    BY <2>2, <2>3, ShownIs, ShownBlank
<1>2. View \in [Device \X FileId -> ViewSet]
  BY <1>1 DEF View, ViewOf
<1>3. ASSUME NEW l \in Ends PROVE Under[l] \in SUBSET FrameSet
  <2>1. wire[l] \in Seq(FrameSet)
    BY DEF Sound
  <2>2. \A i \in 1 .. Len(wire[l]) : wire[l][i] \in FrameSet
    BY <2>1
  <2> QED
    BY <2>2 DEF Under, Sent
<1>4. Under \in [Ends -> SUBSET FrameSet]
  BY <1>3 DEF Under
<1>5. Waits \in SUBSET FrameSet
  BY DEF Waits, Sound
<1>6. Cared \in SUBSET FileId /\ \A f \in Cared, g \in FileId : Hash[g] = Hash[f] => g \in Cared
  BY DEF Cared
<1> QED
  BY <1>1, <1>2, <1>4, <1>5, <1>6 DEF Picture

\* The same after a step.
LEMMA PictureNext ==
    ASSUME Sound'
    PROVE  Picture(View', Under', Waits', Cared')
<1>1. Picture(View, Under, Waits, Cared)'
  BY PictureOK, PTL
<1> QED
  BY <1>1 DEF Picture, Blank

-----------------------------------------------------------------------------
(***************************************************************************)
(* A frame is written in a step.                                           *)
(***************************************************************************)
\* w: the wires before the frame is handed on.
Wrote(d, x, from, w) == /\ Writes(file, tag, d, x, file', tag')
                        /\ wire' = WiresAfter(file, w, d, x, from)

\* The frame was taken off the wire from the neighbour it came from, if any.
Taken(d, x, from, w) ==
    /\ w \in [Ends -> Seq(FrameSet)]
    /\ \A l \in Ends : /\ \A y \in Sent(w, l) : y \in Sent(wire, l)
                       /\ \A y \in Sent(wire, l) : y \in Sent(w, l) \/ (y = x /\ l[1] = from /\ l[2] = d)

\* Apply is a write.
LEMMA AppliedWrites ==
    ASSUME NEW d, NEW x, NEW from, NEW w, Apply(d, x, from, w)
    PROVE  Wrote(d, x, from, w)
BY DEF Apply, Wrote, Writes, RowsAfter, WiresAfter, Result

\* Nothing but the frame is put on the wires.
LEMMA WroteSent ==
    ASSUME NEW d \in Device, NEW from \in Device, NEW x \in FrameSet, NEW w,
           Taken(d, x, from, w), Wrote(d, x, from, w)
    PROVE  /\ wire' \in [Ends -> Seq(FrameSet)]
           /\ \A l \in Ends :
                  /\ \A y \in Sent(wire', l) : y \in Sent(wire, l) \/ (y = x /\ l[1] = d /\ l[2] # from)
                  /\ \A y \in Sent(wire, l) : y \in Sent(wire', l) \/ (y = x /\ l[1] = from /\ l[2] = d)
                  /\ Result(file, d, x).announce # {} /\ l[1] = d /\ l[2] # from => x \in Sent(wire', l)
<1>1. PICK fs : fs = IF Result(file, d, x).announce = {} THEN <<>> ELSE <<x>>
  OBVIOUS
<1>2. wire' = Forwarded(w, d, fs, from) /\ (fs = <<>> \/ fs = <<x>>)
  BY <1>1 DEF Wrote, WiresAfter
<1>3. PutOn(w, d, from, x, fs, wire')
  <2>1. w \in [Ends -> Seq(FrameSet)]
    BY DEF Taken
  <2>2. PutOn(w, d, from, x, fs, Forwarded(w, d, fs, from))
    BY <1>2, <2>1, ForwardedSent
  <2> QED
    BY <1>2, <2>2
<1> QED
  BY <1>1, <1>3 DEF Taken, PutOn

\* Time goes on.
LEMMA DatedLater ==
    ASSUME NEW n \in Nat, NEW m \in Nat, n <= m
    PROVE  /\ \A y \in FrameSet : FrameDated(y, n) => FrameDated(y, m)
           /\ CatalogsOK(file, tag) /\ CatalogsDated(file, tag, n) => CatalogsDated(file, tag, m)
<1>1. ASSUME NEW y \in FrameSet, FrameDated(y, n) PROVE FrameDated(y, m)
  <2>1. ASSUME y.change.kind # "FilePurged" PROVE y.change.at \in Nat /\ y.change.at <= n
    BY <1>1, <2>1, ChangeFields DEF FrameDated
  <2>2. ASSUME Adds(y) PROVE y.change.pathAt \in Nat /\ y.change.pathAt <= n
    BY <1>1, <2>2, ChangeFields DEF FrameDated, Adds
  <2> QED
    BY <2>1, <2>2 DEF FrameDated
<1>2. ASSUME CatalogsOK(file, tag), CatalogsDated(file, tag, n)
      PROVE  CatalogsDated(file, tag, m)
  <2>1. ASSUME NEW e \in Device, NEW f \in FileId PROVE RowDated(file[e][f], m)
    <3>1. file[e][f] \in File /\ RowDated(file[e][f], n)
      BY <1>2 DEF CatalogsOK, CatalogsDated
    <3>2. PICK log \in Seq(Version) : log = file[e][f].log
      BY <3>1 DEF File
    <3>3. \A i \in 1 .. Len(log) : log[i].at \in Nat /\ log[i].at <= n
      <4>1. \A i \in 1 .. Len(log) : log[i] \in Version
        OBVIOUS
      <4>2. \A i \in 1 .. Len(log) : log[i].at <= n
        BY <3>1, <3>2 DEF RowDated
      <4> QED
        BY <4>1, <4>2 DEF Version
    <3>4. \A i \in 1 .. Len(log) : log[i].at <= m
      BY <3>3
    <3> QED
      BY <3>1, <3>2, <3>4 DEF RowDated, File
  <2>2. ASSUME NEW e \in Device, NEW r \in FileId \X Tag PROVE tag[e][r].at <= m
    <3>1. tag[e][r].at \in Nat /\ tag[e][r].at <= n
      BY <1>2 DEF CatalogsOK, CatalogsDated, TagRows, TagRow
    <3> QED
      BY <3>1
  <2> QED
    BY <2>1, <2>2 DEF CatalogsDated
<1> QED
  BY <1>1, <1>2

\* So a dated frame leaves all dated.
LEMMA WroteSound ==
    ASSUME Sound, Dated(now), now' \in Nat, now <= now', NEW d \in Device, NEW from \in Device,
           NEW x \in FrameSet, FrameDated(x, now'), NEW w,
           Taken(d, x, from, w), Wrote(d, x, from, w),
           setting' = setting, put' \in SUBSET (Content \X Tag),
           todo' \in [Device -> SUBSET FrameSet], \A e \in Device : todo'[e] \subseteq todo[e],
           queued' \in [Device -> SUBSET FrameSet], \A e \in Device : queued'[e] \subseteq queued[e]
    PROVE  Sound' /\ Dated(now)'
<1>1. CatalogsOK(file, tag) /\ now \in Nat
  BY DEF Sound
<1>2. \A y \in FrameSet : FrameDated(y, now) => FrameDated(y, now')
  BY <1>1, DatedLater
<1>3. CatalogsDated(file, tag, now')
  BY <1>1, DatedLater DEF Dated
<1>4. CatalogsOK(file', tag') /\ CatalogsDated(file', tag', now')
  <2>1. Writes(file, tag, d, x, file', tag')
    BY DEF Wrote
  <2> QED
    BY <1>1, <1>3, <2>1, WriteRows, WriteDates
<1>5. /\ wire' \in [Ends -> Seq(FrameSet)]
      /\ \A l \in Ends : \A y \in Sent(wire', l) : y \in Sent(wire, l) \/ y = x
  BY WroteSent
<1>6. Sound'
  BY <1>4, <1>5 DEF Sound
<1>7. \A l \in Ends : Sent(wire, l) \subseteq FrameSet
  <2>1. ASSUME NEW l \in Ends PROVE Sent(wire, l) \subseteq FrameSet
    <3>1. wire[l] \in Seq(FrameSet)
      BY DEF Sound
    <3> QED
      BY <3>1 DEF Sent
  <2> QED
    BY <2>1
<1>8. \A l \in Ends : \A y \in Sent(wire', l) : FrameDated(y, now')
  BY <1>2, <1>5, <1>7 DEF Dated
<1>9. \A e \in Device : \A y \in todo'[e] \cup queued'[e] : FrameDated(y, now')
  <2>1. ASSUME NEW e \in Device, NEW y \in todo'[e] \cup queued'[e] PROVE FrameDated(y, now')
    <3>1. y \in todo[e] \cup queued[e] /\ y \in FrameSet
      BY <2>1
    <3> QED
      BY <1>2, <3>1 DEF Dated
  <2> QED
    BY <2>1
<1> QED
  BY <1>4, <1>6, <1>8, <1>9 DEF Dated, Sent

\* A frame of a file that is cared for is handed on when it changes the view.
LEMMA WroteHands ==
    ASSUME Sound, NEW d \in Device, NEW from \in Device, NEW x \in FrameSet, x.file \in Cared,
           NEW w, Taken(d, x, from, w), Wrote(d, x, from, w), lost' = lost,
           Adds(x) => View[<<d, x.file>>].is # "deleted",
           Turn(View[<<d, x.file>>], x) = View[<<d, x.file>>] \/ Newer(d, x)
    PROVE  Cared' = Cared /\ Hands(View, Under, View', Under', d, x, from)
<1>1. CatalogsOK(file, tag) /\ Writes(file, tag, d, x, file', tag')
  BY DEF Sound, Wrote
<1>2. PICK V, V2 : V = View /\ V2 = View'
  OBVIOUS
<1>3. V = ViewOf(file, tag) /\ V2 = ViewOf(file', tag')
  BY <1>2 DEF View
<1>4. Turn(V[<<d, x.file>>], x) = V[<<d, x.file>>] \/ NewerRow(file[d][x.file], tag[d], x)
  BY <1>2 DEF Newer
<1>5. /\ \A e \in Device, f \in FileId :
             V2[<<e, f>>] = IF e = d /\ f = x.file THEN Turn(V[<<e, f>>], x) ELSE V[<<e, f>>]
      /\ V2[<<d, x.file>>] # V[<<d, x.file>>] => Result(file, d, x).announce # {}
  BY <1>1, <1>2, <1>3, <1>4, WriteTurns
<1>6. Cared' = Cared
  BY DEF Cared
<1>7. \A l \in Ends : /\ Under[l] = {y \in Sent(wire, l) : y.file \in Cared}
                      /\ Under'[l] = {y \in Sent(wire', l) : y.file \in Cared}
  BY <1>6 DEF Under, Sent
<1>8. \A l \in Ends :
          /\ \A y \in Under'[l] : y \in Under[l] \/ (y = x /\ l[1] = d /\ l[2] # from)
          /\ \A y \in Under[l] : y \in Under'[l] \/ (y = x /\ l[1] = from /\ l[2] = d)
          /\ Result(file, d, x).announce # {} /\ l[1] = d /\ l[2] # from => x \in Under'[l]
  BY <1>7, WroteSent
<1> QED
  BY <1>2, <1>5, <1>6, <1>8 DEF Hands

\* A frame is as new as before where neither row nor tags of its file changed.
LEMMA SameNewer ==
    ASSUME NEW y \in FrameSet, NEW row, NEW rows, NEW rows2,
           \A t \in Tag : rows2[<<y.file, t>>] = rows[<<y.file, t>>]
    PROVE  NewerRow(row, rows2, y) <=> NewerRow(row, rows, y)
<1>1. /\ y.tags \in SUBSET Tag
      /\ y.change.kind \in {"FileMetadataAdded", "FileMoved", "FileDeleted", "FileRestored",
                            "FilePurged", "FileTagged", "FileUntagged"}
      /\ y.change.kind \in {"FileTagged", "FileUntagged"} => y.change.tag \in Tag
  BY ChangeFields
<1>2. CASE y.change.kind = "FileMetadataAdded"
  BY <1>1, <1>2 DEF NewerRow
<1>3. CASE y.change.kind \in {"FileMoved", "FileDeleted", "FileRestored", "FilePurged"}
  BY <1>3 DEF NewerRow
<1>4. CASE y.change.kind \in {"FileTagged", "FileUntagged"}
  BY <1>1, <1>4 DEF NewerRow
<1> QED
  BY <1>1, <1>2, <1>3, <1>4

\* So what a step does not write stays as it is, and as new.
LEMMA ApartNewer ==
    ASSUME NEW y \in FrameSet, NEW e \in Device,
           file'[e][y.file] = file[e][y.file],
           \A t \in Tag : tag'[e][<<y.file, t>>] = tag[e][<<y.file, t>>],
           Turn(View[<<e, y.file>>], y) # View[<<e, y.file>>] => Newer(e, y)
    PROVE  /\ View'[<<e, y.file>>] = View[<<e, y.file>>]
           /\ Turn(View'[<<e, y.file>>], y) # View'[<<e, y.file>>] => Newer(e, y)'
<1>1. y.file \in FileId
  BY ChangeFields
<1>2. View'[<<e, y.file>>] = View[<<e, y.file>>]
  <2>1. View'[<<e, y.file>>] = Shown(file'[e][y.file], tag'[e], y.file)
    <3>1. PICK F2, G2 : F2 = file' /\ G2 = tag'
      OBVIOUS
    <3>2. View' = ViewOf(F2, G2)
      BY <3>1 DEF View
    <3>3. ViewOf(F2, G2)[<<e, y.file>>] = Shown(F2[e][y.file], G2[e], y.file)
      BY <1>1 DEF ViewOf
    <3> QED
      BY <3>1, <3>2, <3>3
  <2>2. View[<<e, y.file>>] = Shown(file[e][y.file], tag[e], y.file)
    BY <1>1 DEF View, ViewOf
  <2> QED
    BY <1>1, <2>1, <2>2, SameShown
<1>3. NewerRow(file[e][y.file], tag'[e], y) <=> NewerRow(file[e][y.file], tag[e], y)
  BY SameNewer
<1>4. Newer(e, y) => NewerRow(file'[e][y.file], tag'[e], y)
  BY <1>3 DEF Newer
<1>5. Newer(e, y) => Newer(e, y)'
  BY <1>4 DEF Newer, NewerRow, AliveAt, Later, LatestAt, Latest
<1> QED
  BY <1>2, <1>5

\* A change of a command comes to a device, from a neighbour or from itself.
LEMMA RacingWrites ==
    ASSUME Sound, Sound', Racing, AllNewer,
           NEW d \in Device, NEW from \in Device, NEW x \in FrameSet,
           x \in Afoot(Under, Waits), from # d => <<from, d>> \in Ends /\ x \in Under[<<from, d>>],
           NEW w, Taken(d, x, from, w), Wrote(d, x, from, w),
           lost' = lost, put' = put, Waits' \subseteq Waits, \A y \in Waits : y \in Waits' \/ y = x
    PROVE  Racing' /\ AllNewer'
<1>1. /\ Picture(View, Under, Waits, Cared) /\ Picture(View', Under', Waits', Cared')
      /\ OnlyClears(View, Under, Waits, Cared)
  BY PictureOK, PictureNext DEF Racing, Clearing
<1>2. x.file \in Cared /\ Clears(x) /\ ~Adds(x)
  BY <1>1 DEF OnlyClears, Clears, Adds
<1>3. Turn(View[<<d, x.file>>], x) = View[<<d, x.file>>] \/ Newer(d, x)
  BY DEF AllNewer
<1>4. Cared' = Cared /\ Hands(View, Under, View', Under', d, x, from)
  BY <1>2, <1>3, WroteHands
<1>5. Wanted' = Wanted
  BY DEF Wanted
<1>6. Racing'
  <2>1. PICK V2, U2, Q2 : V2 = View' /\ U2 = Under' /\ Q2 = Waits'
    OBVIOUS
  <2>2. /\ Picture(View, Under, Waits, Cared) /\ Picture(V2, U2, Q2, Cared)
        /\ Clearing(View, Under, Waits, Cared, Wanted)
        /\ Hands(View, Under, V2, U2, d, x, from)
    BY <1>1, <1>4, <2>1 DEF Racing
  <2>3. Clearing(V2, U2, Q2, Cared, Wanted)
    BY <2>1, <2>2, ClearStep
  <2> QED
    BY <1>4, <1>5, <2>1, <2>3 DEF Racing
<1>7. Afoot(Under', Waits') \subseteq Afoot(Under, Waits)
  BY <1>4 DEF Hands, Afoot
<1>8. CatalogsOK(file, tag) /\ Writes(file, tag, d, x, file', tag')
  BY DEF Sound, Wrote
<1>9. /\ x.file \in FileId /\ RowSound(x.file, file[d][x.file]) /\ tag[d] \in TagRows
      /\ file'[d][x.file] = Result(file, d, x).file
      /\ tag'[d] = TagsAfter(tag[d], x, file[d][x.file])
      /\ Apart(file, tag, d, x.file, file', tag')
  BY <1>8, WriteRows
<1>10. ASSUME NEW y \in Afoot(Under, Waits), NEW e \in Device
       PROVE  Turn(View'[<<e, y.file>>], y) # View'[<<e, y.file>>] => Newer(e, y)'
  <2>1. y \in FrameSet /\ Clears(y)
    BY <1>1 DEF OnlyClears, Clears, Picture, Afoot
  <2>2. Turn(View[<<e, y.file>>], y) # View[<<e, y.file>>] => Newer(e, y)
    BY DEF AllNewer
  <2>3. CASE ~(e = d /\ y.file = x.file)
    <3>1. y.file \in FileId
      BY <2>1, ChangeFields
    <3>2. /\ file'[e][y.file] = file[e][y.file]
          /\ \A t \in Tag : tag'[e][<<y.file, t>>] = tag[e][<<y.file, t>>]
      BY <1>9, <2>3, <3>1 DEF Apart
    <3> QED
      BY <2>1, <2>2, <3>2, ApartNewer
  <2>4. CASE e = d /\ y.file = x.file
    <3>1. PICK row, rows : row = file[d][x.file] /\ rows = tag[d]
      OBVIOUS
    <3>2. PICK o : o = IF OfTag(x.change) THEN Relayed(row, x.change) ELSE ApplyChange(row, x.change)
      OBVIOUS
    <3>3. PICK new : new = TagsAfter(rows, x, row)
      OBVIOUS
    <3>4. PICK v : v = Shown(row, rows, x.file)
      OBVIOUS
    <3>5. View[<<d, x.file>>] = v /\ file'[d][x.file] = o.file /\ tag'[d] = new
      BY <1>9, <3>1, <3>2, <3>3, <3>4 DEF View, ViewOf, Result
    <3>6. RowSound(x.file, row) /\ rows \in TagRows
      BY <1>9, <3>1
    <3>7. Turn(v, x) = v \/ NewerRow(row, rows, x)
      BY <1>3, <3>1, <3>5 DEF Newer
    <3>8. Turned(x, row, rows, o, new)
      BY <1>2, <3>2, <3>3, <3>4, <3>6, <3>7, RowTurns
    <3>9. Turn(v, y) # v => NewerRow(row, rows, y)
      BY <2>2, <2>4, <3>1, <3>5 DEF Newer
    <3>10. Turn(Turn(v, x), y) # Turn(v, x) => NewerRow(o.file, new, y)
      BY <1>2, <2>1, <2>4, <3>2, <3>3, <3>4, <3>6, <3>8, <3>9, NewerStays
    <3>11. View'[<<d, x.file>>] = Turn(v, x)
      BY <1>4, <1>9, <3>5 DEF Hands
    <3>12. NewerRow(file'[d][x.file], tag'[d], y) => Newer(e, y)'
      BY <2>4 DEF Newer, NewerRow, AliveAt, Later, LatestAt, Latest
    <3> QED
      BY <2>4, <3>5, <3>10, <3>11, <3>12
  <2> QED
    BY <2>3, <2>4
<1>11. AllNewer'
  BY <1>7, <1>10 DEF AllNewer
<1> QED
  BY <1>6, <1>11

\* A frame that is under way or waits is one of the file's frames.
LEMMA AfootFrames ==
    ASSUME Sound, NEW y \in Afoot(Under, Waits)
    PROVE  y \in FrameSet /\ y.file \in Cared /\ y.file \in FileId
<1>1. y \in FrameSet
  BY PictureOK DEF Picture, Afoot
<1>2. y.file \in Cared
  BY DEF Afoot, Under, Waits
<1> QED
  BY <1>1, <1>2, ChangeFields

\* A user's change comes to a device.
LEMMA CalmWrites ==
    ASSUME Sound, Sound', AllNewer,
           NEW x \in FrameSet, NEW v \in ViewSet, NEW w \in ViewSet,
           Spreading(View, Under, Waits, Cared, Wanted, x, v, w),
           NEW d \in Device, NEW from \in Device, <<from, d>> \in Ends, x \in Under[<<from, d>>],
           NEW u, Taken(d, x, from, u), Wrote(d, x, from, u),
           lost' = lost, put' = put, Waits' = Waits
    PROVE  Spreading(View', Under', Waits', Cared', Wanted', x, v, w) /\ AllNewer'
<1>1. /\ x.file \in Cared /\ Waits = {} /\ \A l \in Ends : Under[l] \subseteq {x}
      /\ Turn(v, x) = w /\ Turn(w, x) = w
      /\ Adds(x) => v.is # "deleted" /\ w.is # "deleted"
      /\ \A e \in Device : View[<<e, x.file>>] \in {v, w}
  BY DEF Spreading
<1>2. Picture(View, Under, Waits, Cared)
  BY PictureOK
<1>3. x \in Afoot(Under, Waits) /\ x.file \in FileId
  BY ChangeFields DEF Afoot
<1>4. Turn(View[<<d, x.file>>], x) = View[<<d, x.file>>] \/ Newer(d, x)
  BY <1>3 DEF AllNewer
<1>5. Adds(x) => View[<<d, x.file>>].is # "deleted"
  BY <1>1
<1>6. Cared' = Cared /\ Hands(View, Under, View', Under', d, x, from)
  BY <1>1, <1>4, <1>5, WroteHands
<1>7. Wanted' = Wanted
  BY DEF Wanted
<1>8. PICK V2, U2 : V2 = View' /\ U2 = Under'
  OBVIOUS
<1>9. Hands(View, Under, V2, U2, d, x, from)
  BY <1>6, <1>8
<1>10. Spreading(V2, U2, Waits, Cared, Wanted, x, v, w)
  BY <1>2, <1>9, SpreadStep
<1>11. Spreading(View', Under', Waits', Cared', Wanted', x, v, w)
  BY <1>6, <1>7, <1>8, <1>10
<1>12. Afoot(Under', Waits') \subseteq {x}
  BY <1>1, <1>6 DEF Hands, Afoot
<1>13. CatalogsOK(file, tag) /\ Writes(file, tag, d, x, file', tag')
  BY DEF Sound, Wrote
<1>14. Apart(file, tag, d, x.file, file', tag')
  BY <1>13, WriteRows
<1>15. ASSUME NEW e \in Device
       PROVE  Turn(View'[<<e, x.file>>], x) # View'[<<e, x.file>>] => Newer(e, x)'
  <2>1. CASE e = d
    <3>1. View'[<<d, x.file>>] = Turn(View[<<d, x.file>>], x)
      BY <1>3, <1>6 DEF Hands
    <3>2. Turn(View'[<<d, x.file>>], x) = View'[<<d, x.file>>]
      BY <1>1, <3>1
    <3> QED
      BY <2>1, <3>2
  <2>2. CASE e # d
    <3>1. /\ file'[e][x.file] = file[e][x.file]
          /\ \A t \in Tag : tag'[e][<<x.file, t>>] = tag[e][<<x.file, t>>]
      BY <1>3, <1>14, <2>2 DEF Apart
    <3>2. Turn(View[<<e, x.file>>], x) # View[<<e, x.file>>] => Newer(e, x)
      BY <1>3 DEF AllNewer
    <3> QED
      BY <3>1, <3>2, ApartNewer
  <2> QED
    BY <2>1, <2>2
<1>16. AllNewer'
  BY <1>12, <1>15 DEF AllNewer
<1> QED
  BY <1>11, <1>16

-----------------------------------------------------------------------------
(***************************************************************************)
(* What is no longer cared for, and what never was.                        *)
(***************************************************************************)
\* A step that does nothing to what is still cared for.
Aside == /\ lost \subseteq lost'
         /\ \A d \in Device, f \in Cared' :
                /\ file'[d][f] = file[d][f]
                /\ \A t \in Tag : tag'[d][<<f, t>>] = tag[d][<<f, t>>]
         /\ \A l \in Ends : Under'[l] = {y \in Under[l] : y.file \in Cared'}
         /\ Waits' = {y \in Waits : y.file \in Cared'}
         /\ \A r \in put' : r \in put \/ r[1] \in lost'

\* What is cared for only becomes less.
LEMMA AsideNarrows ==
    ASSUME Sound, Sound', Aside
    PROVE  Narrower(View, Under, Waits, Cared, Wanted, View', Under', Waits', Cared', Wanted')
<1>1. PICK N2, P2 : N2 = Cared' /\ P2 = Wanted'
  OBVIOUS
<1>2. N2 \subseteq Cared /\ N2 \subseteq FileId /\ \A f \in N2, g \in FileId : Hash[g] = Hash[f] => g \in N2
  BY <1>1 DEF Aside, Cared
<1>3. ASSUME NEW f \in N2, NEW d \in Device
      PROVE  View'[<<d, f>>] = View[<<d, f>>]
  <2>1. f \in FileId
    BY <1>2
  <2>2. file'[d][f] = file[d][f] /\ \A t \in Tag : tag'[d][<<f, t>>] = tag[d][<<f, t>>]
    BY <1>1 DEF Aside
  <2>3. PICK F2, G2 : F2 = file' /\ G2 = tag'
    OBVIOUS
  <2>4. View' = ViewOf(F2, G2)
    BY <2>3 DEF View
  <2>5. ViewOf(F2, G2)[<<d, f>>] = Shown(F2[d][f], G2[d], f)
    BY <2>1 DEF ViewOf
  <2>6. View[<<d, f>>] = Shown(file[d][f], tag[d], f)
    BY <2>1 DEF View, ViewOf
  <2> QED
    BY <2>1, <2>2, <2>3, <2>4, <2>5, <2>6, SameShown
<1>4. P2 \subseteq Wanted
  BY <1>1 DEF Wanted, Aside
<1>5. \A r \in P2, f \in Cared : Hash[f] = r[1] => f \in N2
  BY <1>1 DEF Wanted, Cared
<1>6. \A l \in Ends : Under'[l] = {x \in Under[l] : x.file \in N2}
  BY <1>1 DEF Aside
<1>7. Waits' = {x \in Waits : x.file \in N2}
  BY <1>1 DEF Aside
<1> QED
  BY <1>1, <1>2, <1>3, <1>4, <1>5, <1>6, <1>7 DEF Narrower

\* When nothing is under way commands may begin.
LEMMA QuietSettles ==
    ASSUME Connected, Sound, Ordered, Quiet
    PROVE  /\ Settled(View, Cared, Wanted) /\ Racing
           /\ Waits = {} /\ \A l \in Ends : Under[l] = {}
<1>1. Waits = {} /\ \A l \in Ends : Under[l] = {}
  BY DEF Quiet, Waits, Under, Sent
<1>2. CASE Racing
  <2>1. Picture(View, Under, Waits, Cared) /\ Clearing(View, Under, Waits, Cared, Wanted)
    BY <1>2, PictureOK DEF Racing
  <2>2. Settled(View, Cared, Wanted)
    BY <1>1, <2>1, ClearSettles
  <2> QED
    BY <1>1, <1>2, <2>2
<1>3. CASE Calmly
  <2>1. PICK x, v, w : Spreading(View, Under, Waits, Cared, Wanted, x, v, w)
    BY <1>3 DEF Calmly
  <2>2. Settled(View, Cared, Wanted)
    BY <1>1, <2>1, SpreadSettles
  <2>3. Racing
    BY <1>1, <2>2, SettledClears DEF Racing
  <2> QED
    BY <1>1, <2>2, <2>3
<1> QED
  BY <1>2, <1>3 DEF Ordered

\* Then the order stays.
LEMMA AsideOrdered ==
    ASSUME Connected, Sound, Sound', Aside, Ordered, racing' => racing \/ Quiet
    PROVE  Ordered'
<1>1. Narrower(View, Under, Waits, Cared, Wanted, View', Under', Waits', Cared', Wanted')
  BY AsideNarrows
<1>2. PICK V2, U2, Q2, N2, P2 : V2 = View' /\ U2 = Under' /\ Q2 = Waits' /\ N2 = Cared' /\ P2 = Wanted'
  OBVIOUS
<1>3. Narrower(View, Under, Waits, Cared, Wanted, V2, U2, Q2, N2, P2)
  BY <1>1, <1>2
<1>4. Picture(View, Under, Waits, Cared)
  BY PictureOK
<1>5. ASSUME Racing PROVE Racing'
  <2>1. Clearing(V2, U2, Q2, N2, P2)
    BY <1>3, <1>4, <1>5, ClearNarrows DEF Racing
  <2> QED
    BY <1>2, <2>1 DEF Racing
<1>6. ASSUME Calmly PROVE Racing' \/ Calmly'
  <2>1. PICK x \in FrameSet, v \in ViewSet, w \in ViewSet :
            Spreading(View, Under, Waits, Cared, Wanted, x, v, w)
    BY <1>6 DEF Calmly
  <2>2. IF x.file \in N2 THEN Spreading(V2, U2, Q2, N2, P2, x, v, w) ELSE Clearing(V2, U2, Q2, N2, P2)
    BY <1>3, <2>1, SpreadNarrows
  <2>3. Racing' \/ Spreading(View', Under', Waits', Cared', Wanted', x, v, w)
    BY <1>2, <2>2 DEF Racing
  <2> QED
    BY <1>6, <2>3 DEF Calmly
<1>7. Racing' \/ (~racing' /\ Calmly')
  BY <1>5, <1>6, QuietSettles DEF Ordered
<1>8. AllNewer'
  <2>1. Afoot(Under', Waits') \subseteq {y \in Afoot(Under, Waits) : y.file \in Cared'}
    BY DEF Aside, Afoot
  <2>2. ASSUME NEW y \in Afoot(Under', Waits'), NEW e \in Device
        PROVE  Turn(View'[<<e, y.file>>], y) # View'[<<e, y.file>>] => Newer(e, y)'
    <3>1. y \in Afoot(Under, Waits) /\ y.file \in Cared' /\ y \in FrameSet
      BY <2>1, AfootFrames
    <3>2. /\ file'[e][y.file] = file[e][y.file]
          /\ \A t \in Tag : tag'[e][<<y.file, t>>] = tag[e][<<y.file, t>>]
      BY <3>1 DEF Aside
    <3>3. Turn(View[<<e, y.file>>], y) # View[<<e, y.file>>] => Newer(e, y)
      BY <3>1 DEF Ordered, AllNewer
    <3> QED
      BY <3>1, <3>2, <3>3, ApartNewer
  <2> QED
    BY <2>2 DEF AllNewer
<1> QED
  BY <1>7, <1>8 DEF Ordered

-----------------------------------------------------------------------------
(***************************************************************************)
(* The writer's steps.                                                     *)
(***************************************************************************)
LEMMA FromHere ==
    ASSUME Sound, NEW d, NEW x
    PROVE  Taken(d, x, d, wire)
BY DEF Taken, Sound

\* A write to a file that is not cared for after the step.
LEMMA UncaredAside ==
    ASSUME Sound, NEW d \in Device, NEW from \in Device, NEW x \in FrameSet,
           NEW w, Taken(d, x, from, w), Wrote(d, x, from, w),
           lost \subseteq lost', x.file \notin Cared',
           Waits' = {y \in Waits : y.file \in Cared'},
           \A r \in put' : r \in put \/ r[1] \in lost'
    PROVE  Aside
<1>1. CatalogsOK(file, tag) /\ Writes(file, tag, d, x, file', tag')
  BY DEF Sound, Wrote
<1>2. Apart(file, tag, d, x.file, file', tag')
  BY <1>1, WriteRows
<1>3. Cared' \subseteq Cared /\ Cared' \subseteq FileId
  BY DEF Cared
<1>4. \A e \in Device, f \in Cared' :
          /\ file'[e][f] = file[e][f]
          /\ \A t \in Tag : tag'[e][<<f, t>>] = tag[e][<<f, t>>]
  BY <1>2, <1>3 DEF Apart
<1>5. ASSUME NEW l \in Ends
      PROVE  Under'[l] = {y \in Under[l] : y.file \in Cared'}
  <2>1. /\ Under[l] = {y \in Sent(wire, l) : y.file \in Cared}
        /\ Under'[l] = {y \in Sent(wire', l) : y.file \in Cared'}
    BY DEF Under, Sent
  <2>2. /\ \A y \in Sent(wire', l) : y \in Sent(wire, l) \/ y = x
        /\ \A y \in Sent(wire, l) : y \in Sent(wire', l) \/ y = x
    BY WroteSent
  <2>3. \A y : y \in Under'[l] => y \in Under[l] /\ y.file \in Cared'
    BY <1>3, <2>1, <2>2
  <2>4. \A y : y \in Under[l] /\ y.file \in Cared' => y \in Under'[l]
    BY <2>1, <2>2
  <2> QED
    BY <2>3, <2>4
<1> QED
  BY <1>4, <1>5 DEF Aside

\* A frame comes from a neighbour.
LEMMA TagsReceive ==
    ASSUME Connected, TInv, NEW l \in Ends, Receive(l[1], l[2])
    PROVE  TInv'
<1>1. /\ l[1] \in Device /\ l[2] \in Device /\ l = <<l[1], l[2]>> /\ l[1] # l[2]
  BY EndsDistinct
<1>2. PICK d, e : d = l[1] /\ e = l[2]
  OBVIOUS
<1>3. /\ d \in Device /\ e \in Device /\ d # e /\ l = <<d, e>> /\ wire[l] # <<>>
      /\ todo' = todo /\ queued' = queued /\ lost' = lost /\ put' = put /\ now' = now
      /\ setting' = setting /\ racing' = racing
      /\ Apply(e, Head(wire[l]), d, [wire EXCEPT ![l] = Tail(@)])
  BY <1>1, <1>2 DEF Receive, control
<1>4. PICK w : w = [wire EXCEPT ![l] = Tail(@)]
  OBVIOUS
<1>5. PICK x : x = Head(wire[l])
  OBVIOUS
<1>6. /\ Sound /\ Dated(now) /\ now \in Nat /\ wire \in [Ends -> Seq(FrameSet)]
      /\ put \in SUBSET (Content \X Tag)
      /\ todo \in [Device -> SUBSET FrameSet] /\ queued \in [Device -> SUBSET FrameSet]
  BY DEF TInv, Sound
<1>7. /\ x \in FrameSet /\ x \in Sent(wire, l) /\ w \in [Ends -> Seq(FrameSet)]
      /\ Sent(wire, l) = {x} \cup Sent(w, l)
      /\ \A k \in Ends : k # l => Sent(w, k) = Sent(wire, k)
  <2>1. TakenOff(wire, l, Head(wire[l]), [wire EXCEPT ![l] = Tail(@)])
    BY <1>3, <1>6, TakenSent
  <2>2. TakenOff(wire, l, x, w)
    BY <1>4, <1>5, <2>1
  <2> QED
    BY <2>2 DEF TakenOff
<1>8. Taken(e, x, d, w) /\ Wrote(e, x, d, w)
  BY <1>1, <1>2, <1>3, <1>4, <1>5, <1>7, AppliedWrites DEF Taken
<1>9. FrameDated(x, now)
  BY <1>6, <1>7 DEF Dated
<1>10. Sound' /\ Dated(now)'
  <2>1. /\ now' \in Nat /\ now <= now' /\ FrameDated(x, now')
        /\ setting' = setting /\ put' \in SUBSET (Content \X Tag)
    BY <1>3, <1>6, <1>9
  <2>2. /\ todo' \in [Device -> SUBSET FrameSet] /\ \A k \in Device : todo'[k] \subseteq todo[k]
        /\ queued' \in [Device -> SUBSET FrameSet] /\ \A k \in Device : queued'[k] \subseteq queued[k]
    BY <1>3, <1>6
  <2> QED
    BY <1>3, <1>6, <1>7, <1>8, <2>1, <2>2, WroteSound
<1>11. Cared' = Cared /\ Waits' = Waits
  BY <1>3 DEF Cared, Waits
<1>12. ASSUME Ordered PROVE Ordered'
  <2>1. CASE x.file \notin Cared
    <3>1. Waits' = {y \in Waits : y.file \in Cared'}
      BY <1>11 DEF Waits
    <3>2. Aside
      BY <1>3, <1>6, <1>7, <1>8, <1>11, <2>1, <3>1, UncaredAside
    <3> QED
      BY <1>3, <1>6, <1>10, <1>12, <3>2, AsideOrdered
  <2>2. CASE x.file \in Cared
    <3>1. x \in Under[<<d, e>>] /\ <<d, e>> \in Ends /\ x \in Afoot(Under, Waits)
      BY <1>3, <1>7, <2>2 DEF Under, Afoot
    <3>2. CASE Racing
      <4>1. Racing' /\ AllNewer'
        BY <1>3, <1>6, <1>7, <1>8, <1>10, <1>11, <1>12, <3>1, <3>2, RacingWrites DEF Ordered
      <4> QED
        BY <4>1 DEF Ordered
    <3>3. CASE ~racing /\ Calmly
      <4>1. PICK y \in FrameSet, v \in ViewSet, u \in ViewSet :
                Spreading(View, Under, Waits, Cared, Wanted, y, v, u)
        BY <3>3 DEF Calmly
      <4>2. y = x
        BY <3>1, <4>1 DEF Spreading
      <4>3. Spreading(View', Under', Waits', Cared', Wanted', x, v, u) /\ AllNewer'
        BY <1>3, <1>6, <1>7, <1>8, <1>10, <1>11, <1>12, <3>1, <4>1, <4>2, CalmWrites DEF Ordered
      <4>4. Calmly'
        BY <1>7, <4>1, <4>3 DEF Calmly
      <4> QED
        BY <1>3, <3>3, <4>3, <4>4 DEF Ordered
    <3> QED
      BY <1>12, <3>2, <3>3 DEF Ordered
  <2> QED
    BY <2>1, <2>2
<1>13. Patiently' => Patiently
  BY <1>3 DEF Patiently
<1> QED
  BY <1>10, <1>12, <1>13 DEF TInv

\* A frame that waited on this device is written: what is left of T is T2.
Left(T, T2, x) == /\ T2 \in [Device -> SUBSET FrameSet]
                  /\ \A e \in Device : /\ T2[e] \subseteq T[e]
                                       /\ \A y \in T[e] : y \in T2[e] \/ y = x

\* A frame that waits is written on its own device.
LEMMA WaitingWrites ==
    ASSUME Connected, TInv, NEW d \in Device, NEW x, x \in todo[d] \cup queued[d],
           Apply(d, x, d, wire), Left(todo, todo', x), Left(queued, queued', x), UNCHANGED control
    PROVE  TInv'
<1>1. /\ Sound /\ Dated(now) /\ now \in Nat /\ put \in SUBSET (Content \X Tag)
      /\ todo \in [Device -> SUBSET FrameSet] /\ queued \in [Device -> SUBSET FrameSet]
  BY DEF TInv, Sound
<1>2. /\ lost' = lost /\ put' = put /\ now' = now /\ setting' = setting /\ racing' = racing
  BY DEF control
<1>3. x \in FrameSet /\ FrameDated(x, now)
  BY <1>1 DEF Dated
<1>4. Taken(d, x, d, wire) /\ Wrote(d, x, d, wire)
  BY <1>1, FromHere, AppliedWrites
<1>5. Sound' /\ Dated(now)'
  BY <1>1, <1>2, <1>3, <1>4, WroteSound DEF Left
<1>6. Cared' = Cared
  BY <1>2 DEF Cared
<1>7. Waits' \subseteq Waits /\ \A y \in Waits : y \in Waits' \/ y = x
  <2>1. Waits = {y \in UNION {todo[e] \cup queued[e] : e \in Device} : y.file \in Cared}
    BY DEF Waits
  <2>2. Waits' = {y \in UNION {todo'[e] \cup queued'[e] : e \in Device} : y.file \in Cared}
    BY <1>6 DEF Waits
  <2> QED
    BY <2>1, <2>2 DEF Left
<1>8. ASSUME Ordered PROVE Ordered'
  <2>1. CASE x.file \notin Cared
    <3>1. Waits' = {y \in Waits : y.file \in Cared'}
      BY <1>6, <1>7, <2>1 DEF Waits
    <3>2. Aside
      BY <1>1, <1>2, <1>3, <1>4, <1>6, <2>1, <3>1, UncaredAside
    <3> QED
      BY <1>1, <1>2, <1>5, <1>8, <3>2, AsideOrdered
  <2>2. CASE x.file \in Cared
    <3>1. x \in Waits /\ x \in Afoot(Under, Waits)
      BY <2>2 DEF Waits, Afoot
    <3>2. Racing
      BY <1>8, <3>1 DEF Ordered, Calmly, Spreading
    <3>3. Racing' /\ AllNewer'
      BY <1>1, <1>2, <1>3, <1>4, <1>5, <1>7, <1>8, <3>1, <3>2, RacingWrites DEF Ordered
    <3> QED
      BY <3>3 DEF Ordered
  <2> QED
    BY <2>1, <2>2
<1>9. Patiently' => Patiently
  BY <1>2 DEF Patiently
<1> QED
  BY <1>5, <1>8, <1>9 DEF TInv

\* The next change of a command, or one that retag queued.
LEMMA TagsCarry ==
    ASSUME Connected, TInv, NEW d \in Device, Carry(d) \/ WriteQueued(d)
    PROVE  TInv'
<1>1. /\ todo \in [Device -> SUBSET FrameSet] /\ queued \in [Device -> SUBSET FrameSet]
  BY DEF TInv, Sound
<1>2. CASE Carry(d)
  <2>1. PICK x \in todo[d] : /\ Apply(d, x, d, wire) /\ todo' = [todo EXCEPT ![d] = @ \ {x}]
                             /\ queued' = queued /\ UNCHANGED control
    BY <1>2 DEF Carry
  <2>2. Left(todo, todo', x) /\ Left(queued, queued', x)
    BY <1>1, <2>1 DEF Left
  <2> QED
    BY <2>1, <2>2, WaitingWrites
<1>3. CASE WriteQueued(d)
  <2>1. PICK x \in queued[d] : /\ Apply(d, x, d, wire) /\ queued' = [queued EXCEPT ![d] = @ \ {x}]
                               /\ todo' = todo /\ UNCHANGED control
    BY <1>3 DEF WriteQueued
  <2>2. Left(todo, todo', x) /\ Left(queued, queued', x)
    BY <1>1, <2>1 DEF Left
  <2> QED
    BY <2>1, <2>2, WaitingWrites
<1> QED
  BY <1>2, <1>3

-----------------------------------------------------------------------------
(***************************************************************************)
(* What users do.                                                          *)
(***************************************************************************)
\* What was put on a file is still there after x turned the view v of it, and
\* what is put there x brings.
Keeps(v, x) ==
    \A r \in put' :
        \/ r[1] = Hash[x.file] /\ Turn(v, x).is = "live" /\ r[2] \in Turn(v, x).tags
        \/ /\ r \in put
           /\ r[1] = Hash[x.file] /\ v.is = "live" /\ r[2] \in v.tags =>
                  Turn(v, x).is = "live" /\ r[2] \in Turn(v, x).tags

\* A frame stamped by a clock that is ahead of all is newer than any row.
LEMMA FreshHere ==
    ASSUME Sound, Dated(now), NEW x \in FrameSet, FrameFresh(x, now), NEW e \in Device
    PROVE  Newer(e, x)
<1>1. x.file \in FileId /\ now \in Nat
  BY ChangeFields DEF Sound
<1>2. RowSound(x.file, file[e][x.file]) /\ tag[e] \in TagRows
  BY <1>1 DEF Sound, CatalogsOK
<1>3. RowDated(file[e][x.file], now) /\ \A t \in Tag : tag[e][<<x.file, t>>].at <= now
  BY <1>1 DEF Dated, CatalogsDated
<1> QED
  BY <1>1, <1>2, <1>3, FreshNewer DEF Newer

\* A user's change of a file that is cared for, while nothing is under way.
LEMMA UserSpreads ==
    ASSUME Connected, Sound, Dated(now), Ordered, Sound', Quiet,
           NEW d \in Device, NEW x \in FrameSet, x.file \in Cared, FrameFresh(x, now),
           Wrote(d, x, d, wire), todo' = todo, queued' = queued, lost' = lost, racing' = FALSE,
           NEW v, v = View[<<d, x.file>>], Adds(x) => v.is = "unknown", Keeps(v, x)
    PROVE  Ordered'
<1>1. /\ Settled(View, Cared, Wanted) /\ Waits = {} /\ \A l \in Ends : Under[l] = {}
      /\ Picture(View, Under, Waits, Cared)
  BY QuietSettles, PictureOK
<1>2. x.file \in FileId /\ v \in ViewSet
  BY <1>1, ChangeFields DEF Picture
<1>3. Turn(v, x) \in ViewSet /\ Turn(Turn(v, x), x) = Turn(v, x)
  BY <1>2, TurnTwice
<1>4. PICK w \in ViewSet : w = Turn(v, x)
  BY <1>3
<1>5. Adds(x) => v.is # "deleted" /\ w.is # "deleted"
  <2>1. ASSUME Adds(x) PROVE w.is = "live"
    <3>1. x.change.kind = "FileMetadataAdded" /\ v.is = "unknown"
      BY <2>1 DEF Adds
    <3>2. w = [is |-> "live", path |-> x.change.path, tags |-> v.tags \cup x.tags]
      BY <1>4, <3>1 DEF Turn
    <3> QED
      BY <3>2
  <2> QED
    BY <2>1
<1>6. Cared' = Cared /\ Hands(View, Under, View', Under', d, x, d)
  <2>1. Taken(d, x, d, wire) /\ Newer(d, x)
    BY FromHere, FreshHere
  <2> QED
    BY <1>5, <2>1, WroteHands
<1>7. Waits' = Waits
  BY <1>6 DEF Waits
<1>8. PICK V2, U2, P2 : V2 = View' /\ U2 = Under' /\ P2 = Wanted'
  OBVIOUS
<1>9. \A r \in P2 : \/ r[1] = Hash[x.file] /\ w.is = "live" /\ r[2] \in w.tags
                    \/ /\ r \in Wanted
                       /\ r[1] = Hash[x.file] /\ v.is = "live" /\ r[2] \in v.tags =>
                              w.is = "live" /\ r[2] \in w.tags
  BY <1>4, <1>8 DEF Wanted, Keeps
<1>10. Hands(View, Under, V2, U2, d, x, d)
  BY <1>6, <1>8
<1>11. Spreading(V2, U2, Waits, Cared, P2, x, v, w)
  BY <1>1, <1>4, <1>5, <1>9, <1>10, SpreadStart
<1>12. Calmly'
  BY <1>2, <1>6, <1>7, <1>8, <1>11 DEF Calmly
<1>13. Afoot(Under', Waits') \subseteq {x}
  BY <1>1, <1>6, <1>7 DEF Hands, Afoot
<1>14. Apart(file, tag, d, x.file, file', tag')
  <2>1. CatalogsOK(file, tag) /\ Writes(file, tag, d, x, file', tag')
    BY DEF Sound, Wrote
  <2> QED
    BY <2>1, WriteRows
<1>15. ASSUME NEW e \in Device
       PROVE  Turn(View'[<<e, x.file>>], x) # View'[<<e, x.file>>] => Newer(e, x)'
  <2>1. CASE e = d
    <3>1. View'[<<d, x.file>>] = Turn(v, x)
      BY <1>2, <1>6 DEF Hands
    <3> QED
      BY <1>3, <2>1, <3>1
  <2>2. CASE e # d
    <3>1. /\ file'[e][x.file] = file[e][x.file]
          /\ \A t \in Tag : tag'[e][<<x.file, t>>] = tag[e][<<x.file, t>>]
      BY <1>2, <1>14, <2>2 DEF Apart
    <3>2. Newer(e, x)
      BY FreshHere
    <3> QED
      BY <3>1, <3>2, ApartNewer
  <2> QED
    BY <2>1, <2>2
<1>16. AllNewer'
  BY <1>13, <1>15 DEF AllNewer
<1> QED
  BY <1>12, <1>16 DEF Ordered

\* A user's change.
LEMMA UserWrites ==
    ASSUME Connected, TInv, NEW d \in Device, NEW x \in FrameSet,
           FrameFresh(x, now), FrameDated(x, now + 1), Wrote(d, x, d, wire),
           now' = now + 1, racing' = FALSE, setting' = setting, todo' = todo, queued' = queued,
           lost \subseteq lost', put' \in SUBSET (Content \X Tag),
           NEW v, v = View[<<d, x.file>>], Adds(x) => v.is = "unknown",
           x.file \notin Cared' => \A r \in put' : r \in put \/ r[1] \in lost',
           Patiently /\ x.file \in Cared' => Quiet /\ lost' = lost /\ Keeps(v, x)
    PROVE  TInv'
<1>1. /\ Sound /\ Dated(now) /\ now \in Nat
      /\ todo \in [Device -> SUBSET FrameSet] /\ queued \in [Device -> SUBSET FrameSet]
  BY DEF TInv, Sound
<1>2. Taken(d, x, d, wire)
  BY <1>1, FromHere
<1>3. Sound' /\ Dated(now)'
  <2>1. now' \in Nat /\ now <= now' /\ FrameDated(x, now')
    BY <1>1
  <2>2. /\ todo' \in [Device -> SUBSET FrameSet] /\ \A k \in Device : todo'[k] \subseteq todo[k]
        /\ queued' \in [Device -> SUBSET FrameSet] /\ \A k \in Device : queued'[k] \subseteq queued[k]
    BY <1>1
  <2> QED
    BY <1>1, <1>2, <2>1, <2>2, WroteSound
<1>4. ASSUME Patiently, Ordered PROVE Ordered'
  <2>1. CASE x.file \in Cared'
    <3>1. Quiet /\ lost' = lost /\ Keeps(v, x)
      BY <1>4, <2>1
    <3>2. x.file \in Cared
      BY <2>1, <3>1 DEF Cared
    <3> QED
      BY <1>1, <1>3, <1>4, <3>1, <3>2, UserSpreads
  <2>2. CASE x.file \notin Cared'
    <3>1. Waits' = {y \in Waits : y.file \in Cared'}
      BY DEF Waits, Cared
    <3>2. Aside
      BY <1>1, <1>2, <2>2, <3>1, UncaredAside
    <3> QED
      BY <1>1, <1>3, <1>4, <3>2, AsideOrdered
  <2> QED
    BY <2>1, <2>2
<1>5. Patiently' => Patiently
  BY DEF Patiently
<1> QED
  BY <1>3, <1>4, <1>5 DEF TInv

\* Users wait, but for removing something.
LEMMA ActFacts ==
    ASSUME TInv, NEW d, NEW what, Act(d, what)
    PROVE  /\ now' = now + 1 /\ racing' = FALSE /\ setting' = setting
           /\ todo' = todo /\ queued' = queued /\ now \in Nat
           /\ Patiently /\ what \notin {"Delete", "Lose"} => Quiet
<1>1. now \in Nat
  BY DEF TInv, Sound
<1>2. Patiently /\ what \notin {"Delete", "Lose"} => Quiet
  BY DEF Act, May, Patiently, Rest
<1> QED
  BY <1>1, <1>2 DEF Act

\* What the view tells of a file.
LEMMA ViewTells ==
    ASSUME Sound, NEW d \in Device, NEW f \in FileId
    PROVE  LET v == View[<<d, f>>]
           IN  /\ v \in ViewSet
               /\ v.is = "purged" <=> file[d][f].purged
               /\ v.is = "unknown" <=> ~file[d][f].purged /\ ~file[d][f].known
               /\ v.is = "live" <=> Live(file[d][f])
               /\ v.is = "deleted" <=> file[d][f].known /\ file[d][f].deleted
               /\ v.is \in {"live", "deleted"} => v.path = file[d][f].path
               /\ \A t \in Tag : t \in v.tags <=> ~file[d][f].purged /\ On(tag[d], f, t)
<1>1. RowSound(f, file[d][f]) /\ tag[d] \in TagRows
  BY DEF Sound, CatalogsOK
<1>2. View[<<d, f>>] = Shown(file[d][f], tag[d], f)
  BY DEF View, ViewOf
<1> QED
  BY <1>1, <1>2, ShownIs

\* A user's change of a file that is there.
LEMMA UserChanges ==
    ASSUME Connected, TInv, NEW d \in Device, NEW f \in FileId, NEW c \in ChangeOf(f), NEW what,
           Change(d, what, f, c), c.kind \notin {"FileMetadataAdded", "FilePurged"}, c.at = now',
           what # "Lose", lost \subseteq lost', put' \in SUBSET (Content \X Tag),
           IF what = "Delete" THEN put' = put /\ f \notin Cared' ELSE lost' = lost,
           f \notin Cared' => \A r \in put' : r \in put \/ r[1] \in lost',
           NEW x \in FrameSet, x = Frame(f, c, {}),
           f \in Cared' => Keeps(View[<<d, f>>], x)
    PROVE  TInv'
<1>1. Act(d, what) /\ Apply(d, x, d, wire)
  BY DEF Change
<1>2. /\ now' = now + 1 /\ racing' = FALSE /\ setting' = setting
      /\ todo' = todo /\ queued' = queued /\ now \in Nat
      /\ Patiently /\ what # "Delete" => Quiet
  BY <1>1, ActFacts
<1>3. x.file = f /\ x.change = c /\ ~Adds(x)
  BY DEF Frame, Adds
<1>4. FrameFresh(x, now) /\ FrameDated(x, now + 1)
  BY <1>2, <1>3 DEF FrameFresh, FrameDated
<1>5. Wrote(d, x, d, wire)
  BY <1>1, AppliedWrites
<1>6. PICK v : v = View[<<d, x.file>>]
  OBVIOUS
<1>7. Patiently /\ x.file \in Cared' => Quiet /\ lost' = lost /\ Keeps(v, x)
  BY <1>2, <1>3, <1>6
<1> QED
  BY <1>2, <1>3, <1>4, <1>5, <1>6, <1>7, UserWrites

\* Move: the file keeps its tags.
LEMMA TagsMove ==
    ASSUME Connected, TInv, NEW d \in Device, NEW f \in FileId, NEW p \in setting.path, Move(d, f, p)
    PROVE  TInv'
<1>1. /\ Sound /\ now \in Nat /\ put \in SUBSET (Content \X Tag) /\ p \in Path
  BY MaintenanceAssumption DEF MaintenanceAssumption, TInv, Sound
<1>2. PICK c : c = Moved(p, now')
  OBVIOUS
<1>3. /\ Change(d, "Move", f, c) /\ Live(file[d][f]) /\ lost' = lost /\ put' = put
  BY <1>2 DEF Move
<1>4. now' \in Nat
  BY <1>1, <1>3 DEF Change, Act
<1>5. /\ c \in ChangeOf(f) /\ c.kind = "FileMoved" /\ c.at = now' /\ c.path = p
  BY <1>1, <1>2, <1>4, KindsOK DEF Moved
<1>6. PICK x \in FrameSet : x = Frame(f, c, {}) /\ x.file = f /\ x.change = c
  BY <1>5, FrameOK
<1>7. PICK v \in ViewSet : v = View[<<d, f>>] /\ v.is = "live"
  BY <1>1, <1>3, ViewTells
<1>8. Turn(v, x) = [v EXCEPT !.path = p]
  BY <1>5, <1>6, <1>7 DEF Turn
<1>9. Turn(v, x).is = v.is /\ Turn(v, x).tags = v.tags
  BY <1>8 DEF ViewSet
<1>10. Keeps(v, x)
  BY <1>3, <1>9 DEF Keeps
<1> QED
  BY <1>1, <1>3, <1>5, <1>6, <1>7, <1>10, UserChanges

\* Delete: the content is given up.
LEMMA TagsDelete ==
    ASSUME Connected, TInv, NEW d \in Device, NEW f \in FileId, Delete(d, f)
    PROVE  TInv'
<1>1. /\ Sound /\ now \in Nat /\ put \in SUBSET (Content \X Tag)
  BY DEF TInv, Sound
<1>2. PICK c : c = Deleted(now')
  OBVIOUS
<1>3. /\ Change(d, "Delete", f, c) /\ lost' = lost \cup {Hash[f]} /\ put' = put
  BY <1>2 DEF Delete
<1>4. now' \in Nat
  BY <1>1, <1>3 DEF Change, Act
<1>5. /\ c \in ChangeOf(f) /\ c.kind = "FileDeleted" /\ c.at = now'
  BY <1>1, <1>2, <1>4, KindsOK DEF Deleted
<1>6. PICK x \in FrameSet : x = Frame(f, c, {})
  BY <1>5, FrameOK
<1>7. f \notin Cared'
  BY <1>3 DEF Cared
<1> QED
  BY <1>1, <1>3, <1>5, <1>6, <1>7, UserChanges

\* Restore: the file comes back with its tags.
LEMMA TagsRestore ==
    ASSUME Connected, TInv, NEW d \in Device, NEW f \in FileId, Restore(d, f)
    PROVE  TInv'
<1>1. /\ Sound /\ now \in Nat /\ put \in SUBSET (Content \X Tag)
  BY DEF TInv, Sound
<1>2. PICK c : c = Restored(Hash[f], now')
  OBVIOUS
<1>3. /\ Change(d, "Restore", f, c) /\ file[d][f].known /\ file[d][f].deleted
      /\ lost' = lost /\ put' = put
  BY <1>2 DEF Restore
<1>4. now' \in Nat
  BY <1>1, <1>3 DEF Change, Act
<1>5. /\ c \in ChangeOf(f) /\ c.kind = "FileRestored" /\ c.at = now'
  BY <1>1, <1>2, <1>4, KindsOK DEF Restored
<1>6. PICK x \in FrameSet : x = Frame(f, c, {})
  BY <1>5, FrameOK
<1>7. PICK v \in ViewSet : v = View[<<d, f>>] /\ v.is = "deleted"
  BY <1>1, <1>3, ViewTells
<1>8. Keeps(v, x)
  BY <1>3, <1>7 DEF Keeps
<1> QED
  BY <1>1, <1>3, <1>5, <1>6, <1>7, <1>8, UserChanges

\* TagFile: the file bears the tag, which is now wanted.
LEMMA TagsTagFile ==
    ASSUME Connected, TInv, NEW d \in Device, NEW f \in FileId, NEW t \in Tag, TagFile(d, f, t)
    PROVE  TInv'
<1>1. /\ Sound /\ now \in Nat /\ put \in SUBSET (Content \X Tag) /\ Hash[f] \in Content
  BY MaintenanceAssumption DEF MaintenanceAssumption, TInv, Sound
<1>2. PICK c : c = Tagged(t, now')
  OBVIOUS
<1>3. /\ Change(d, "TagFile", f, c) /\ Live(file[d][f]) /\ lost' = lost
      /\ put' = put \cup {<<Hash[f], t>>}
  BY <1>2 DEF TagFile
<1>4. now' \in Nat
  BY <1>1, <1>3 DEF Change, Act
<1>5. /\ c \in ChangeOf(f) /\ c.kind = "FileTagged" /\ c.at = now' /\ c.tag = t
  BY <1>1, <1>2, <1>4, KindsOK DEF Tagged
<1>6. PICK x \in FrameSet : x = Frame(f, c, {}) /\ x.file = f /\ x.change = c
  BY <1>5, FrameOK
<1>7. PICK v \in ViewSet : v = View[<<d, f>>] /\ v.is = "live"
  BY <1>1, <1>3, ViewTells
<1>8. Turn(v, x) = [v EXCEPT !.tags = v.tags \cup {t}]
  BY <1>5, <1>6, <1>7 DEF Turn
<1>9. Turn(v, x).is = v.is /\ Turn(v, x).tags = v.tags \cup {t}
  BY <1>8 DEF ViewSet
<1>10. \A r \in put' : r \in put \/ (r[1] = Hash[f] /\ r[2] = t)
  BY <1>3
<1>11. Keeps(v, x)
  BY <1>6, <1>7, <1>9, <1>10 DEF Keeps
<1>12. put' \in SUBSET (Content \X Tag)
  BY <1>1, <1>3
<1>13. f \notin Cared' => \A r \in put' : r \in put \/ r[1] \in lost'
  BY <1>10 DEF Cared
<1> QED
  BY <1>1, <1>3, <1>5, <1>6, <1>7, <1>11, <1>12, <1>13, UserChanges

\* UntagFile: the tag is no longer wanted of the content.
LEMMA TagsUntagFile ==
    ASSUME Connected, TInv, NEW d \in Device, NEW f \in FileId, NEW t \in Tag, UntagFile(d, f, t)
    PROVE  TInv'
<1>1. /\ Sound /\ now \in Nat /\ put \in SUBSET (Content \X Tag)
  BY DEF TInv, Sound
<1>2. PICK c : c = Untagged(t, now')
  OBVIOUS
<1>3. /\ Change(d, "UntagFile", f, c) /\ file[d][f].known /\ lost' = lost
      /\ put' = put \ {<<Hash[f], t>>}
  BY <1>2 DEF UntagFile
<1>4. now' \in Nat
  BY <1>1, <1>3 DEF Change, Act
<1>5. /\ c \in ChangeOf(f) /\ c.kind = "FileUntagged" /\ c.at = now' /\ c.tag = t
  BY <1>1, <1>2, <1>4, KindsOK DEF Untagged
<1>6. PICK x \in FrameSet : x = Frame(f, c, {}) /\ x.file = f /\ x.change = c
  BY <1>5, FrameOK
<1>7. PICK v \in ViewSet : v = View[<<d, f>>] /\ v.is # "purged"
  <2>1. RowSound(f, file[d][f])
    BY <1>1 DEF Sound, CatalogsOK
  <2>2. ~file[d][f].purged
    BY <1>3, <2>1 DEF RowSound
  <2> QED
    BY <1>1, <2>2, ViewTells
<1>8. Turn(v, x) = [v EXCEPT !.tags = v.tags \ {t}]
  BY <1>5, <1>6, <1>7 DEF Turn
<1>9. Turn(v, x).is = v.is /\ Turn(v, x).tags = v.tags \ {t}
  BY <1>8 DEF ViewSet
<1>10. ASSUME NEW r \in put' PROVE r \in put /\ (r[1] = Hash[f] => r[2] # t)
  <2>1. r \in put /\ r # <<Hash[f], t>> /\ r = <<r[1], r[2]>>
    BY <1>1, <1>3
  <2> QED
    BY <2>1
<1>11. Keeps(v, x)
  BY <1>6, <1>9, <1>10 DEF Keeps
<1>12. put' \in SUBSET (Content \X Tag)
  BY <1>1, <1>3
<1> QED
  BY <1>1, <1>3, <1>5, <1>6, <1>7, <1>10, <1>11, <1>12, UserChanges

\* Create: the file comes with the tags of the rules.
LEMMA TagsCreate ==
    ASSUME Connected, TInv, NEW d \in Device, NEW f \in FileId, NEW p \in setting.path, Create(d, f, p)
    PROVE  TInv'
<1>1. /\ Sound /\ now \in Nat /\ put \in SUBSET (Content \X Tag) /\ Hash[f] \in Content
      /\ p \in Path /\ Rules[p] \in SUBSET Tag
  BY MaintenanceAssumption DEF MaintenanceAssumption, TInv, Sound
<1>2. /\ now' = now + 1 /\ racing' = FALSE /\ setting' = setting
      /\ todo' = todo /\ queued' = queued /\ lost' = lost
      /\ put' = put \cup {<<Hash[f], t>> : t \in Rules[p]}
      /\ file[d][f] = Unknown /\ (Patiently => Quiet)
  <2>1. PICK what : what = "Create" /\ what \notin {"Delete", "Lose"} /\ Act(d, what)
    BY DEF Create
  <2>2. /\ now' = now + 1 /\ racing' = FALSE /\ setting' = setting
        /\ todo' = todo /\ queued' = queued /\ (Patiently => Quiet)
    BY <2>1, ActFacts
  <2> QED
    BY <2>2 DEF Create
<1>3. PICK c : c = Added(p, now', Hash[f], now')
  OBVIOUS
<1>4. PICK x : x = Frame(f, c, Rules[p])
  OBVIOUS
<1>5. /\ x \in FrameSet /\ x.file = f /\ x.change = c
  <2>1. now' \in Nat
    BY <1>1, <1>2
  <2>2. c \in ChangeOf(f)
    BY <1>1, <1>3, <2>1, KindsOK
  <2> QED
    BY <1>1, <1>4, <2>2, FrameOK
<1>6. x.tags = Rules[p]
  BY <1>4 DEF Frame
<1>7. /\ c.kind = "FileMetadataAdded" /\ c.path = p /\ c.pathAt = now' /\ c.hash = Hash[f] /\ c.at = now'
  BY <1>3 DEF Added
<1>8. Adds(x) /\ ~OfTag(x.change)
  BY <1>5, <1>7 DEF Adds, OfTag
<1>9. FrameFresh(x, now) /\ FrameDated(x, now + 1)
  BY <1>1, <1>2, <1>5, <1>7 DEF FrameFresh, FrameDated
<1>10. Wrote(d, x, d, wire)
  <2>1. PICK row : row = RecordVersion(AddFile(Unknown, p, now'), Hash[f], now')
    OBVIOUS
  <2>2. ~AddFile(Unknown, p, now').deleted /\ ~Unknown.known /\ ~Unknown.purged
    BY DEF AddFile, Unknown
  <2>3. ~row.deleted
    BY <2>1, <2>2 DEF RecordVersion, AddFile, Unknown
  <2>4. AppendVersion(AddFile(Unknown, p, now'), Hash[f], now') = row
    BY <2>1, <2>3 DEF AppendVersion, RestoreFile
  <2>5. Result(file, d, x) = ApplyAdded(Unknown, c)
    BY <1>2, <1>5, <1>7, <1>8, <2>2 DEF Result, ApplyChange
  <2>6. Result(file, d, x).file = row /\ Result(file, d, x).announce = {c}
    BY <1>7, <2>2, <2>4, <2>5 DEF ApplyAdded, Outcome
  <2>7. LocalAdd(Unknown, p, now', Hash[f], now').file = row
    BY <2>1 DEF LocalAdd, Outcome
  <2>8. /\ file' = RowsAfter(file, d, x)
        /\ wire' = WiresAfter(file, wire, d, x, d)
    BY <1>3, <1>4, <1>5, <2>6, <2>7 DEF Create, RowsAfter, WiresAfter
  <2>9. tag' = [tag EXCEPT ![d] = TagsAfter(@, x, file[d][f])]
    BY <1>2, <1>3, <1>4 DEF Create
  <2> QED
    BY <1>5, <2>8, <2>9 DEF Wrote, Writes
<1>11. PICK v \in ViewSet : v = View[<<d, f>>] /\ v.is = "unknown"
  <2>1. ~file[d][f].known /\ ~file[d][f].purged
    BY <1>2 DEF Unknown
  <2> QED
    BY <1>1, <2>1, ViewTells
<1>12. Turn(v, x) = [is |-> "live", path |-> p, tags |-> v.tags \cup x.tags]
  BY <1>5, <1>7, <1>11 DEF Turn
<1>13. \A r \in put' : r \in put \/ (r[1] = Hash[f] /\ r[2] \in x.tags)
  BY <1>2, <1>6
<1>14. Keeps(v, x)
  BY <1>5, <1>11, <1>12, <1>13 DEF Keeps
<1>15. put' \in SUBSET (Content \X Tag)
  BY <1>1, <1>2
<1>16. x.file \notin Cared' => \A r \in put' : r \in put \/ r[1] \in lost'
  BY <1>5, <1>13 DEF Cared
<1> QED
  BY <1>2, <1>5, <1>9, <1>10, <1>11, <1>14, <1>15, <1>16, UserWrites

\* Whatever a user does.
LEMMA TagsUser ==
    ASSUME Connected, TInv, NEW d \in Device, UserStep(d)
    PROVE  TInv'
BY TagsCreate, TagsMove, TagsDelete, TagsRestore, TagsTagFile, TagsUntagFile DEF UserStep

-----------------------------------------------------------------------------
(***************************************************************************)
(* What commands plan.                                                     *)
(***************************************************************************)
\* Commands begin at rest, or race.
LEMMA CommandFacts ==
    ASSUME Connected, TInv, NEW d, NEW what, what \notin {"Delete", "Lose"}, Command(d, what)
    PROVE  /\ now' = now + 1 /\ setting' = setting
           /\ file' = file /\ tag' = tag /\ wire' = wire
           /\ Patiently => Racing /\ (what = "PurgeBroken" => Rest)
<1>1. ASSUME Patiently PROVE Racing /\ (what = "PurgeBroken" => Rest)
  <2>1. Sound /\ Ordered
    BY <1>1 DEF TInv
  <2>2. CASE May(what)
    <3>1. Rest
      BY <1>1, <2>2 DEF May, Patiently
    <3> QED
      BY <2>1, <3>1, QuietSettles DEF Rest
  <2>3. CASE racing /\ what # "PurgeBroken"
    BY <2>1, <2>3 DEF Ordered
  <2> QED
    BY <2>2, <2>3 DEF Command
<1> QED
  BY <1>1 DEF Command

\* The frames are left to the writer.
Planned(d, frames) ==
    \/ todo[d] = {} /\ todo' = [todo EXCEPT ![d] = frames] /\ queued' = queued
    \/ queued' = [queued EXCEPT ![d] = @ \cup frames] /\ todo' = todo

CaredOf(frames) == {y \in frames : y.file \in Cared}

\* What a command planned waits with the rest.
LEMMA PlannedWaits ==
    ASSUME Sound, NEW d \in Device, NEW frames \in SUBSET FrameSet, Planned(d, frames), lost' = lost
    PROVE  /\ todo' \in [Device -> SUBSET FrameSet] /\ queued' \in [Device -> SUBSET FrameSet]
           /\ \A e \in Device : todo'[e] \cup queued'[e] =
                  todo[e] \cup queued[e] \cup (IF e = d THEN frames ELSE {})
           /\ Cared' = Cared /\ Waits' = Waits \cup CaredOf(frames)
<1>1. /\ todo \in [Device -> SUBSET FrameSet] /\ queued \in [Device -> SUBSET FrameSet]
  BY DEF Sound
<1>2. /\ todo' \in [Device -> SUBSET FrameSet] /\ queued' \in [Device -> SUBSET FrameSet]
      /\ \A e \in Device : todo'[e] \cup queued'[e] =
             todo[e] \cup queued[e] \cup (IF e = d THEN frames ELSE {})
  <2>1. CASE todo[d] = {} /\ todo' = [todo EXCEPT ![d] = frames] /\ queued' = queued
    BY <1>1, <2>1
  <2>2. CASE queued' = [queued EXCEPT ![d] = @ \cup frames] /\ todo' = todo
    BY <1>1, <2>2
  <2> QED
    BY <2>1, <2>2 DEF Planned
<1>3. Cared' = Cared
  BY DEF Cared
<1>4. Waits' = {y \in UNION {todo'[e] \cup queued'[e] : e \in Device} : y.file \in Cared}
  BY <1>3 DEF Waits
<1>5. \A y : y \in Waits' <=> y.file \in Cared /\ \E e \in Device : y \in todo'[e] \cup queued'[e]
  BY <1>4
<1>6. \A y : y \in Waits <=> y.file \in Cared /\ \E e \in Device : y \in todo[e] \cup queued[e]
  BY DEF Waits
<1>7. \A y : y \in CaredOf(frames) <=> y.file \in Cared /\ y \in frames
  BY DEF CaredOf
<1>8. \A y : y \in Waits' <=> y \in Waits \cup CaredOf(frames)
  BY <1>2, <1>5, <1>6, <1>7
<1> QED
  BY <1>2, <1>3, <1>8

\* A command keeps the invariant if what it plans clears.
LEMMA CommandPlans ==
    ASSUME Connected, TInv, NEW d \in Device, NEW what, what \notin {"Delete", "Lose"}, Command(d, what),
           NEW frames \in SUBSET FrameSet, Planned(d, frames),
           \A y \in frames : FrameFresh(y, now) /\ FrameDated(y, now'),
           lost' = lost, put' \in SUBSET (Content \X Tag),
           Patiently /\ Racing /\ (what = "PurgeBroken" => Rest) =>
               Clearing(View, Under, Waits \cup CaredOf(frames), Cared, Wanted')
    PROVE  TInv'
<1>1. /\ Sound /\ Dated(now) /\ now \in Nat
      /\ now' = now + 1 /\ setting' = setting
      /\ file' = file /\ tag' = tag /\ wire' = wire
      /\ Patiently => Racing /\ (what = "PurgeBroken" => Rest)
  BY CommandFacts DEF TInv, Sound
<1>2. /\ todo' \in [Device -> SUBSET FrameSet] /\ queued' \in [Device -> SUBSET FrameSet]
      /\ \A e \in Device : todo'[e] \cup queued'[e] =
             todo[e] \cup queued[e] \cup (IF e = d THEN frames ELSE {})
      /\ Cared' = Cared /\ Waits' = Waits \cup CaredOf(frames)
  BY <1>1, PlannedWaits
<1>3. Sound'
  BY <1>1, <1>2 DEF Sound
<1>4. Dated(now)'
  <2>1. now' \in Nat /\ now <= now'
    BY <1>1
  <2>2. /\ \A y \in FrameSet : FrameDated(y, now) => FrameDated(y, now')
        /\ CatalogsDated(file, tag, now')
    BY <1>1, <2>1, DatedLater DEF Sound, Dated
  <2>3. \A l \in Ends : Sent(wire, l) \subseteq FrameSet
    <3>1. ASSUME NEW l \in Ends PROVE Sent(wire, l) \subseteq FrameSet
      <4>1. wire[l] \in Seq(FrameSet)
        BY <1>1 DEF Sound
      <4> QED
        BY <4>1 DEF Sent
    <3> QED
      BY <3>1
  <2>4. \A l \in Ends : \A y \in Sent(wire, l) : FrameDated(y, now')
    BY <1>1, <2>2, <2>3 DEF Dated
  <2>5. ASSUME NEW e \in Device, NEW y \in todo'[e] \cup queued'[e] PROVE FrameDated(y, now')
    <3>1. y \in frames \/ (y \in todo[e] \cup queued[e] /\ y \in FrameSet)
      BY <1>1, <1>2 DEF Sound
    <3> QED
      BY <1>1, <2>2, <3>1 DEF Dated
  <2> QED
    BY <1>1, <2>2, <2>4, <2>5 DEF Dated
<1>5. View' = View /\ Under' = Under
  BY <1>1, <1>2 DEF View, Under
<1>6. ASSUME Patiently PROVE Ordered'
  <2>1. Racing /\ AllNewer /\ Clearing(View, Under, Waits \cup CaredOf(frames), Cared, Wanted')
    BY <1>1, <1>6 DEF TInv, Ordered
  <2>2. Racing'
    BY <1>2, <1>5, <2>1 DEF Racing
  <2>3. ASSUME NEW y \in Afoot(Under', Waits'), NEW e \in Device
        PROVE  Turn(View'[<<e, y.file>>], y) # View'[<<e, y.file>>] => Newer(e, y)'
    <3>1. y \in Afoot(Under, Waits) \/ y \in frames
      BY <1>2, <1>5 DEF Afoot, CaredOf
    <3>2. y \in FrameSet
      BY <1>1, <3>1, AfootFrames
    <3>3. Turn(View[<<e, y.file>>], y) # View[<<e, y.file>>] => Newer(e, y)
      <4>1. CASE y \in Afoot(Under, Waits)
        BY <2>1, <4>1 DEF AllNewer
      <4>2. CASE y \in frames
        BY <1>1, <3>2, <4>2, FreshHere
      <4> QED
        BY <3>1, <4>1, <4>2
    <3> QED
      BY <1>1, <3>2, <3>3, ApartNewer
  <2>4. AllNewer'
    BY <2>3 DEF AllNewer
  <2> QED
    BY <2>2, <2>4 DEF Ordered
<1>7. Patiently' => Patiently
  BY <1>1 DEF Patiently
<1> QED
  BY <1>3, <1>4, <1>6, <1>7 DEF TInv

\* Frames of a command have their kinds and are new.
NewDeletion(x, f, n) ==
    /\ x \in FrameSet /\ x.file = f /\ x.change.kind = "FileDeleted"
    /\ FrameFresh(x, n) /\ FrameDated(x, n + 1)

NewTagging(x, f, t, n) ==
    /\ x \in FrameSet /\ x.file = f /\ x.change.kind = "FileTagged" /\ x.change.tag = t
    /\ FrameFresh(x, n) /\ FrameDated(x, n + 1)

\* The frame of a deletion.
LEMMA DeletionFrame ==
    ASSUME NEW n \in Nat, NEW f \in FileId
    PROVE  NewDeletion(Frame(f, Deleted(n + 1), {}), f, n)
<1>1. n + 1 \in Nat
  OBVIOUS
<1>2. /\ Deleted(n + 1) \in ChangeOf(f) /\ Deleted(n + 1).kind = "FileDeleted"
      /\ Deleted(n + 1).at = n + 1
  BY <1>1, KindsOK DEF Deleted
<1>3. PICK x : x = Frame(f, Deleted(n + 1), {})
  OBVIOUS
<1>4. x \in FrameSet /\ x.file = f /\ x.change = Deleted(n + 1)
  BY <1>2, <1>3, FrameOK
<1>5. FrameFresh(x, n) /\ FrameDated(x, n + 1)
  BY <1>2, <1>4 DEF FrameFresh, FrameDated, Adds
<1> QED
  BY <1>2, <1>3, <1>4, <1>5 DEF NewDeletion

\* The frame of a tag that is put on a file.
LEMMA TaggingFrame ==
    ASSUME NEW n \in Nat, NEW f \in FileId, NEW t \in Tag
    PROVE  NewTagging(Frame(f, Tagged(t, n + 1), {}), f, t, n)
<1>1. n + 1 \in Nat
  OBVIOUS
<1>2. /\ Tagged(t, n + 1) \in ChangeOf(f) /\ Tagged(t, n + 1).kind = "FileTagged"
      /\ Tagged(t, n + 1).tag = t /\ Tagged(t, n + 1).at = n + 1
  BY <1>1, KindsOK DEF Tagged
<1>3. PICK x : x = Frame(f, Tagged(t, n + 1), {})
  OBVIOUS
<1>4. x \in FrameSet /\ x.file = f /\ x.change = Tagged(t, n + 1)
  BY <1>2, <1>3, FrameOK
<1>5. FrameFresh(x, n) /\ FrameDated(x, n + 1)
  BY <1>2, <1>4 DEF FrameFresh, FrameDated, Adds
<1> QED
  BY <1>2, <1>3, <1>4, <1>5 DEF NewTagging

\* The frame of a purge.
LEMMA PurgeFrame ==
    ASSUME NEW n \in Nat, NEW f \in FileId
    PROVE  LET x == Frame(f, Purged, {})
           IN  /\ x \in FrameSet /\ x.file = f /\ x.change.kind = "FilePurged"
               /\ FrameFresh(x, n) /\ FrameDated(x, n + 1)
<1>1. Purged \in ChangeOf(f) /\ Purged.kind = "FilePurged"
  BY DEF ChangeOf, Purged
<1>2. PICK x : x = Frame(f, Purged, {})
  OBVIOUS
<1>3. x \in FrameSet /\ x.file = f /\ x.change = Purged
  BY <1>1, <1>2, FrameOK
<1> QED
  BY <1>1, <1>2, <1>3 DEF FrameFresh, FrameDated, Adds

\* Purging files plans a frame for each.
LEMMA Purges ==
    ASSUME Connected, TInv, NEW d \in Device, NEW what, what \notin {"Delete", "Lose"},
           NEW F \in SUBSET FileId, Plan(d, what, {Frame(f, Purged, {}) : f \in F}),
           Patiently /\ Racing /\ (what = "PurgeBroken" => Rest) =>
               \A f \in F : f \in Cared => View[<<d, f>>].is = "deleted"
    PROVE  TInv'
<1>1. Sound /\ now \in Nat /\ put \in SUBSET (Content \X Tag)
  BY DEF TInv, Sound
<1>2. PICK frames : frames = {Frame(f, Purged, {}) : f \in F}
  OBVIOUS
<1>3. /\ Command(d, what) /\ todo[d] = {} /\ todo' = [todo EXCEPT ![d] = frames]
      /\ queued' = queued /\ put' = put /\ lost' = lost /\ now' = now + 1
  BY <1>2 DEF Plan, Free, Command
<1>4. Planned(d, frames)
  BY <1>3 DEF Planned
<1>5. ASSUME NEW y \in frames
      PROVE  /\ y \in FrameSet /\ y.file \in F /\ y.change.kind = "FilePurged"
             /\ FrameFresh(y, now) /\ FrameDated(y, now')
  <2>1. PICK f \in F : y = Frame(f, Purged, {})
    BY <1>2
  <2> QED
    BY <1>1, <1>3, <2>1, PurgeFrame
<1>6. frames \in SUBSET FrameSet
  BY <1>5
<1>7. Wanted' = Wanted
  BY <1>3 DEF Wanted
<1>8. ASSUME Patiently, Racing, what = "PurgeBroken" => Rest
      PROVE  Clearing(View, Under, Waits \cup CaredOf(frames), Cared, Wanted')
  <2>1. PICK Q2 : Q2 = Waits \cup CaredOf(frames)
    OBVIOUS
  <2>2. /\ Picture(View, Under, Waits, Cared) /\ Clearing(View, Under, Waits, Cared, Wanted)
    BY <1>1, <1>8, PictureOK DEF Racing
  <2>3. KnownAlike(View, Cared)
    BY <2>2 DEF Clearing
  <2>4. ASSUME NEW y \in Q2
        PROVE  \/ y \in Waits
               \/ /\ y.file \in Cared /\ y.file \in FileId /\ y.change.kind = "FilePurged"
                  /\ View[<<d, y.file>>].is = "deleted"
    BY <1>5, <1>8, <2>1 DEF CaredOf
  <2>5. \A y \in Q2 : y \in Waits \/ (y.file \in Cared /\ Clears(y))
    BY <2>4 DEF Clears
  <2>6. \A y \in Q2, e \in Device : y \in Waits \/ View[<<e, y.file>>].is # "unknown"
    BY <2>3, <2>4 DEF KnownAlike
  <2>7. \A y \in Q2 : y \in Waits \/ ~Removes(y) \/ ~Solid(View, Under, Waits, y.file)
    BY <2>4 DEF Solid
  <2>8. Waits \subseteq Q2
    BY <2>1
  <2>9. Covered(View, Under, Q2, Cared) /\ \A r \in Wanted : Follows(View, Under, Q2, Cared, r)
    BY <2>2, <2>7, <2>8, MildPlan
  <2>10. Clearing(View, Under, Q2, Cared, Wanted)
    BY <2>2, <2>5, <2>6, <2>8, <2>9, PlanClears
  <2> QED
    BY <1>7, <2>1, <2>10
<1> QED
  BY <1>1, <1>3, <1>4, <1>5, <1>6, <1>8, CommandPlans

\* purge-deleted purges what is deleted where it runs.
LEMMA TagsPurgeDeleted ==
    ASSUME Connected, TInv, NEW d \in Device, PurgeDeleted(d)
    PROVE  TInv'
<1> DEFINE F == {f \in FileId : file[d][f].known /\ file[d][f].deleted}
<1>1. Plan(d, "PurgeDeleted", {Frame(f, Purged, {}) : f \in F})
  BY DEF PurgeDeleted
<1>2. \A f \in F : View[<<d, f>>].is = "deleted"
  <2>1. Sound
    BY DEF TInv
  <2> QED
    BY <2>1, ViewTells
<1> HIDE DEF F
<1>3. F \in SUBSET FileId
  BY DEF F
<1>4. PICK what : what = "PurgeDeleted" /\ what \notin {"Delete", "Lose"}
  OBVIOUS
<1> QED
  BY <1>1, <1>2, <1>3, <1>4, Purges

\* purge-broken waits until the bytes that are missing were lost.
LEMMA TagsPurgeBroken ==
    ASSUME Connected, TInv, NEW d \in Device, PurgeBroken(d)
    PROVE  TInv'
<1> DEFINE F == LiveFiles(d) \ held[d]
<1>1. Plan(d, "PurgeBroken", {Frame(f, Purged, {}) : f \in F})
  BY DEF PurgeBroken
<1>2. Rest => \A f \in F : f \notin Cared
  BY DEF Rest, Cared
<1>3. F \in SUBSET FileId
  BY DEF LiveFiles
<1> HIDE DEF F
<1>4. PICK what : what = "PurgeBroken" /\ what \notin {"Delete", "Lose"}
  OBVIOUS
<1> QED
  BY <1>1, <1>2, <1>3, <1>4, Purges

\* retag: every file of the path gets the same tags, the one that stays included.
LEMMA TagsRetag ==
    ASSUME Connected, TInv, NEW d \in Device, Retag(d)
    PROVE  TInv'
<1>1. Sound /\ now \in Nat /\ put \in SUBSET (Content \X Tag)
  BY DEF TInv, Sound
<1>2. PICK frames : frames = {Frame(r[1], Tagged(r[2], now'), {}) : r \in ToTag(d)}
  OBVIOUS
<1>3. /\ Command(d, "Retag") /\ queued' = [queued EXCEPT ![d] = @ \cup frames]
      /\ todo' = todo /\ lost' = lost /\ now' = now + 1
      /\ put' = put \cup {<<Hash[r[1]], r[2]>> : r \in ToTag(d)}
  BY <1>2 DEF Retag, Command
<1>4. Planned(d, frames)
  BY <1>3 DEF Planned
<1>5. \A r \in ToTag(d) : r[1] \in FileId /\ r[2] \in Tag /\ Live(file[d][r[1]])
                          /\ r[2] \in Rules[file[d][r[1]].path]
  BY DEF ToTag, LiveFiles
<1>6. ASSUME NEW y \in frames
      PROVE  /\ y \in FrameSet /\ y.change.kind = "FileTagged"
             /\ y.file \in FileId /\ Live(file[d][y.file])
             /\ FrameFresh(y, now) /\ FrameDated(y, now')
  <2>1. PICK r \in ToTag(d) : y = Frame(r[1], Tagged(r[2], now'), {})
    BY <1>2
  <2>2. PICK f \in FileId, t \in Tag : f = r[1] /\ t = r[2]
    BY <1>5
  <2>3. y = Frame(f, Tagged(t, now + 1), {})
    BY <1>3, <2>1, <2>2
  <2>4. NewTagging(y, f, t, now)
    BY <1>1, <2>3, TaggingFrame
  <2> QED
    BY <1>3, <1>5, <2>2, <2>4 DEF NewTagging
<1>7. frames \in SUBSET FrameSet
  BY <1>6
<1>8. put' \in SUBSET (Content \X Tag)
  <2>1. ASSUME NEW r \in ToTag(d) PROVE <<Hash[r[1]], r[2]>> \in Content \X Tag
    BY <1>5, MaintenanceAssumption DEF MaintenanceAssumption
  <2> QED
    BY <1>1, <1>3, <2>1
<1>9. ASSUME NEW m \in FileId, Live(file[d][m]), NEW t \in Tag, t \in Rules[file[d][m].path]
      PROVE  \/ On(tag[d], m, t)
             \/ \E y \in frames : y.file = m /\ y.change.kind = "FileTagged" /\ y.change.tag = t
  <2>1. CASE On(tag[d], m, t)
    BY <2>1
  <2>2. CASE ~On(tag[d], m, t)
    <3>0. PICK r : r = <<m, t>>
      OBVIOUS
    <3>1. r[1] = m /\ r[2] = t
      BY <3>0
    <3>2. r \in ToTag(d)
      BY <1>9, <2>2, <3>0, <3>1 DEF ToTag, LiveFiles
    <3>3. PICK y : y = Frame(m, Tagged(t, now + 1), {})
      OBVIOUS
    <3>4. y \in frames
      BY <1>2, <1>3, <3>1, <3>2, <3>3
    <3>5. y.file = m /\ y.change.kind = "FileTagged" /\ y.change.tag = t
      <4>1. NewTagging(y, m, t, now)
        BY <1>1, <3>3, TaggingFrame
      <4> QED
        BY <4>1 DEF NewTagging
    <3> QED
      BY <3>4, <3>5
  <2> QED
    BY <2>1, <2>2
<1>10. ASSUME Patiently, Racing
       PROVE  Clearing(View, Under, Waits \cup CaredOf(frames), Cared, Wanted')
  <2>1. PICK Q2 : Q2 = Waits \cup CaredOf(frames)
    OBVIOUS
  <2>2. PICK P2 : P2 = Wanted'
    OBVIOUS
  <2>3. /\ Picture(View, Under, Waits, Cared) /\ Clearing(View, Under, Waits, Cared, Wanted)
    BY <1>1, <1>10, PictureOK DEF Racing
  <2>4. KnownAlike(View, Cared) /\ Waits \subseteq Q2
    BY <2>1, <2>3 DEF Clearing
  <2>5. ASSUME NEW y \in Q2
        PROVE  \/ y \in Waits
               \/ /\ y.file \in Cared /\ y.file \in FileId /\ y.change.kind = "FileTagged"
                  /\ View[<<d, y.file>>].is = "live"
    <3>1. CASE y \in Waits
      BY <3>1
    <3>2. CASE y \in frames /\ y.file \in Cared
      BY <1>1, <1>6, <3>2, ViewTells
    <3> QED
      BY <2>1, <3>1, <3>2 DEF CaredOf
  <2>6. \A y \in Q2 : y \in Waits \/ (y.file \in Cared /\ Clears(y))
    BY <2>5 DEF Clears
  <2>7. \A y \in Q2, e \in Device : y \in Waits \/ View[<<e, y.file>>].is # "unknown"
    BY <2>4, <2>5 DEF KnownAlike
  <2>8. \A y \in Q2 : y \in Waits \/ ~Removes(y)
    BY <2>5 DEF Removes
  <2>9. Covered(View, Under, Q2, Cared) /\ \A r \in Wanted : Follows(View, Under, Q2, Cared, r)
    BY <2>3, <2>4, <2>8, MildPlan
  <2>10. ASSUME NEW r \in P2 PROVE Follows(View, Under, Q2, Cared, r)
    <3>1. CASE r \in Wanted
      BY <2>9, <3>1
    <3>2. CASE r \notin Wanted
      <4>1. r \in put' /\ r[1] \notin lost /\ r \notin put
        BY <1>3, <2>2, <3>2 DEF Wanted
      <4>2. PICK q \in ToTag(d) : r = <<Hash[q[1]], q[2]>>
        BY <1>3, <4>1
      <4>3. PICK f \in FileId, t \in Tag : f = q[1] /\ t = q[2]
        BY <1>5
      <4>4. /\ r = <<Hash[f], t>> /\ Live(file[d][f]) /\ t \in Rules[file[d][f].path]
        BY <1>5, <4>2, <4>3
      <4>5. f \in Cared
        BY <4>1, <4>4 DEF Cared
      <4>6. View[<<d, f>>].is = "live" /\ View[<<d, f>>].path = file[d][f].path
        BY <1>1, <4>4, ViewTells
      <4>7. ASSUME NEW m \in Cared, View[<<d, m>>].is = "live", View[<<d, m>>].path = View[<<d, f>>].path
            PROVE  \/ t \in View[<<d, m>>].tags
                   \/ \E y \in Q2 : y.file = m /\ y.change.kind = "FileTagged" /\ y.change.tag = t
        <5>1. m \in FileId
          BY DEF Cared
        <5>2. Live(file[d][m]) /\ file[d][m].path = file[d][f].path /\ ~file[d][m].purged
          BY <1>1, <4>6, <4>7, <5>1, ViewTells
        <5>3. \/ On(tag[d], m, t)
              \/ \E y \in frames : y.file = m /\ y.change.kind = "FileTagged" /\ y.change.tag = t
          BY <1>9, <4>4, <5>1, <5>2
        <5>4. On(tag[d], m, t) => t \in View[<<d, m>>].tags
          BY <1>1, <5>1, <5>2, ViewTells
        <5> QED
          BY <2>1, <5>3, <5>4 DEF CaredOf
      <4>8. Follows(View, Under, Q2, Cared, <<Hash[f], t>>)
        BY <2>3, <2>4, <2>8, <4>5, <4>6, <4>7, RetagFollows
      <4> QED
        BY <4>4, <4>8
    <3> QED
      BY <3>1, <3>2
  <2>11. Clearing(View, Under, Q2, Cared, P2)
    BY <2>3, <2>4, <2>6, <2>7, <2>9, <2>10, PlanClears
  <2> QED
    BY <2>1, <2>2, <2>11
<1>11. PICK what : what = "Retag" /\ what \notin {"Delete", "Lose"} /\ Command(d, what)
  BY <1>3
<1> QED
  BY <1>1, <1>3, <1>4, <1>6, <1>7, <1>8, <1>10, <1>11, CommandPlans

\* The survivor of a set of duplicates is its lowest.
LEMMA KeptLowest ==
    ASSUME Sound, NEW d \in Device, NEW f \in LiveFiles(d)
    PROVE  /\ Kept(d, f) \in LiveFiles(d) /\ Kept(d, f) <= f
           /\ file[d][Kept(d, f)].path = file[d][f].path /\ Hash[Kept(d, f)] = Hash[f]
           /\ \A m \in LiveFiles(d) :
                  file[d][m].path = file[d][f].path /\ Hash[m] = Hash[f] => Kept(d, f) <= m
<1>1. LiveFiles(d) \subseteq FileId
  BY DEF LiveFiles
<1>2. ASSUME NEW h \in LiveFiles(d) PROVE Latest(file[d][h]).hash = Hash[h]
  <2>1. h \in FileId /\ file[d][h].known
    BY DEF LiveFiles, Live
  <2>2. RowOK(h, file[d][h])
    BY <2>1 DEF Sound, CatalogsOK, RowSound
  <2>3. file[d][h].log \in Seq(Version) /\ file[d][h].log # <<>>
    BY <2>1, <2>2 DEF RowOK, File
  <2>4. Len(file[d][h].log) \in 1 .. Len(file[d][h].log)
    BY <2>3
  <2> QED
    BY <2>2, <2>4 DEF RowOK, Latest
<1>3. \A m \in LiveFiles(d) :
          m \in DuplicateSet(d, f) <=> file[d][m].path = file[d][f].path /\ Hash[m] = Hash[f]
  BY <1>2 DEF DuplicateSet
<1>4. f \in DuplicateSet(d, f) /\ DuplicateSet(d, f) \subseteq LiveFiles(d)
  BY <1>3 DEF DuplicateSet
<1>5. \E g \in DuplicateSet(d, f) : \A h \in DuplicateSet(d, f) : g <= h
  BY <1>1, <1>4, LowestId
<1>6. PICK g : g = Kept(d, f)
  OBVIOUS
<1>7. g \in DuplicateSet(d, f) /\ \A h \in DuplicateSet(d, f) : g <= h
  BY <1>5, <1>6 DEF Kept
<1>8. /\ g \in LiveFiles(d) /\ g <= f
      /\ file[d][g].path = file[d][f].path /\ Hash[g] = Hash[f]
  BY <1>3, <1>4, <1>7
<1>9. \A m \in LiveFiles(d) : file[d][m].path = file[d][f].path /\ Hash[m] = Hash[f] => g <= m
  BY <1>3, <1>7
<1> QED
  BY <1>6, <1>8, <1>9

\* delete-duplicates: the survivor gains the tags of those that go.
LEMMA TagsDeleteDuplicates ==
    ASSUME Connected, TInv, NEW d \in Device, DeleteDuplicates(d)
    PROVE  TInv'
<1>1. Sound /\ now \in Nat /\ put \in SUBSET (Content \X Tag) /\ FileId \subseteq Nat
  BY MaintenanceAssumption DEF MaintenanceAssumption, TInv, Sound
<1>2. PICK doomed : doomed = {Frame(f, Deleted(now'), {}) : f \in Doomed(d)}
  OBVIOUS
<1>3. PICK merged : merged = UNION {{Frame(g, Tagged(t, now'), {}) : t \in TagsMerged(d, g)} : g \in LiveFiles(d)}
  OBVIOUS
<1>4. PICK frames : frames = doomed \cup merged
  OBVIOUS
<1>5. Plan(d, "DeleteDuplicates", frames)
  BY <1>2, <1>3, <1>4 DEF DeleteDuplicates
<1>6. /\ Command(d, "DeleteDuplicates") /\ todo[d] = {} /\ todo' = [todo EXCEPT ![d] = frames]
      /\ queued' = queued /\ put' = put /\ lost' = lost /\ now' = now + 1
  BY <1>5 DEF Plan, Free, Command
<1>7. Planned(d, frames)
  BY <1>6 DEF Planned
<1>8. Doomed(d) \subseteq LiveFiles(d) /\ LiveFiles(d) \subseteq FileId
  BY DEF Doomed, LiveFiles
<1>9. ASSUME NEW y \in doomed
      PROVE  /\ y \in FrameSet /\ y.file \in Doomed(d) /\ y.change.kind = "FileDeleted"
             /\ FrameFresh(y, now) /\ FrameDated(y, now')
  <2>1. PICK f \in Doomed(d) : y = Frame(f, Deleted(now + 1), {})
    BY <1>2, <1>6
  <2>2. f \in FileId
    BY <1>8
  <2>3. NewDeletion(y, f, now)
    BY <1>1, <2>1, <2>2, DeletionFrame
  <2> QED
    BY <1>6, <2>3 DEF NewDeletion
<1>10. ASSUME NEW y \in merged
       PROVE  /\ y \in FrameSet /\ y.file \in LiveFiles(d) /\ y.change.kind = "FileTagged"
              /\ FrameFresh(y, now) /\ FrameDated(y, now')
  <2>1. PICK g \in LiveFiles(d) : \E t \in TagsMerged(d, g) : y = Frame(g, Tagged(t, now + 1), {})
    BY <1>3, <1>6
  <2>2. PICK t \in Tag : y = Frame(g, Tagged(t, now + 1), {})
    BY <2>1 DEF TagsMerged
  <2>3. g \in FileId
    BY <1>8
  <2>4. NewTagging(y, g, t, now)
    BY <1>1, <2>2, <2>3, TaggingFrame
  <2> QED
    BY <1>6, <2>4 DEF NewTagging
<1>11. frames \in SUBSET FrameSet /\ \A y \in frames : FrameFresh(y, now) /\ FrameDated(y, now')
  BY <1>4, <1>9, <1>10
<1>12. Wanted' = Wanted
  BY <1>6 DEF Wanted
<1>13. ASSUME NEW m \in LiveFiles(d), NEW t \in TagsMerged(d, m)
       PROVE  \E y \in frames : y.file = m /\ y.change.kind = "FileTagged" /\ y.change.tag = t
  <2>1. PICK y : y = Frame(m, Tagged(t, now + 1), {})
    OBVIOUS
  <2>2. y \in merged
    BY <1>3, <1>6, <2>1
  <2>3. m \in FileId /\ t \in Tag
    BY <1>8 DEF TagsMerged
  <2>4. NewTagging(y, m, t, now)
    BY <1>1, <2>1, <2>3, TaggingFrame
  <2> QED
    BY <1>4, <2>2, <2>4 DEF NewTagging
<1>14. \A f \in FileId : View[<<d, f>>].is = "live" <=> f \in LiveFiles(d)
  BY <1>1, ViewTells DEF LiveFiles
<1>15. ASSUME NEW f \in LiveFiles(d)
       PROVE  /\ View[<<d, f>>].path = file[d][f].path
              /\ \A t \in Tag : t \in View[<<d, f>>].tags <=> On(tag[d], f, t)
  <2>1. RowSound(f, file[d][f]) /\ Live(file[d][f]) /\ f \in FileId
    BY <1>1 DEF LiveFiles, Sound, CatalogsOK
  <2>2. ~file[d][f].purged
    BY <2>1 DEF RowSound, Live
  <2> QED
    BY <1>1, <2>1, <2>2, ViewTells
<1>16. ASSUME Patiently, Racing
       PROVE  Clearing(View, Under, Waits \cup CaredOf(frames), Cared, Wanted')
  <2>1. PICK Q2 : Q2 = Waits \cup CaredOf(frames)
    OBVIOUS
  <2>2. PICK D : D = Doomed(d)
    OBVIOUS
  <2>3. /\ Picture(View, Under, Waits, Cared) /\ Clearing(View, Under, Waits, Cared, Wanted)
        /\ Waits \subseteq Q2
    BY <1>1, <1>16, <2>1, PictureOK DEF Racing
  <2>4. ASSUME NEW y \in Q2
        PROVE  \/ y \in Waits
               \/ y.file \in Cared /\ y.change.kind = "FileDeleted" /\ y.file \in D
               \/ y.file \in Cared /\ y.change.kind = "FileTagged" /\ View[<<d, y.file>>].is = "live"
    <3>1. CASE y \in Waits
      BY <3>1
    <3>2. CASE y \in doomed /\ y.file \in Cared
      BY <1>9, <2>2, <3>2
    <3>3. CASE y \in merged /\ y.file \in Cared
      BY <1>8, <1>10, <1>14, <3>3
    <3> QED
      BY <1>4, <2>1, <3>1, <3>2, <3>3 DEF CaredOf
  <2>5. ASSUME NEW f \in D
        PROVE  /\ View[<<d, f>>].is = "live"
               /\ \E h \in FileId : /\ Older(h, f) /\ View[<<d, h>>].is = "live"
                                    /\ View[<<d, h>>].path = View[<<d, f>>].path
    <3>1. PICK h : h = Kept(d, f)
      OBVIOUS
    <3>2. f \in LiveFiles(d) /\ h # f
      BY <2>2, <3>1 DEF Doomed
    <3>3. /\ h \in LiveFiles(d) /\ h <= f /\ file[d][h].path = file[d][f].path /\ Hash[h] = Hash[f]
      BY <1>1, <3>1, <3>2, KeptLowest
    <3>4. h \in FileId /\ f \in FileId /\ h < f
      <4>1. h \in FileId /\ f \in FileId
        BY <1>8, <3>2, <3>3
      <4>2. h \in Nat /\ f \in Nat /\ h <= f /\ h # f
        BY <1>1, <3>2, <3>3, <4>1
      <4> QED
        BY <4>1, <4>2
    <3> QED
      BY <1>14, <1>15, <3>2, <3>3, <3>4 DEF Older
  <2>6. ASSUME NEW f \in D, NEW m \in Cared, Hash[m] = Hash[f], View[<<d, m>>].is = "live",
               View[<<d, m>>].path = View[<<d, f>>].path,
               \A h \in FileId : ~(/\ Older(h, m) /\ View[<<d, h>>].is = "live"
                                   /\ View[<<d, h>>].path = View[<<d, m>>].path),
               NEW t \in View[<<d, f>>].tags
        PROVE  \/ t \in View[<<d, m>>].tags
               \/ \E y \in Q2 : y.file = m /\ y.change.kind = "FileTagged" /\ y.change.tag = t
    <3>1. m \in FileId /\ m \in LiveFiles(d) /\ f \in LiveFiles(d) /\ f \in FileId
      BY <1>8, <1>14, <2>2, <2>6 DEF Cared
    <3>2. PICK h : h = Kept(d, f)
      OBVIOUS
    <3>3. file[d][m].path = file[d][f].path
      BY <1>15, <2>6, <3>1
    <3>4. /\ h \in LiveFiles(d) /\ h <= m /\ file[d][h].path = file[d][f].path /\ Hash[h] = Hash[f]
      BY <1>1, <2>6, <3>1, <3>2, <3>3, KeptLowest
    <3>5. View[<<d, h>>].is = "live" /\ View[<<d, h>>].path = View[<<d, m>>].path /\ h \in FileId
      BY <1>8, <1>14, <1>15, <3>1, <3>3, <3>4
    <3>6. ~Older(h, m)
      BY <2>6, <3>5
    <3>7. h = m
      BY <1>1, <2>6, <3>1, <3>4, <3>5, <3>6 DEF Older
    <3>8. t \in Tag
      BY <2>3, <3>1 DEF Picture, ViewSet
    <3>9. On(tag[d], f, t)
      BY <1>15, <3>1, <3>8
    <3>10. CASE On(tag[d], m, t)
      BY <1>15, <3>1, <3>8, <3>10
    <3>11. CASE ~On(tag[d], m, t)
      <4>1. t \in TagsMerged(d, m)
        BY <2>2, <3>2, <3>7, <3>8, <3>9, <3>11 DEF TagsMerged
      <4>2. PICK y \in frames : y.file = m /\ y.change.kind = "FileTagged" /\ y.change.tag = t
        BY <1>13, <3>1, <4>1
      <4>3. y \in Q2
        BY <2>1, <4>2 DEF CaredOf
      <4> QED
        BY <4>2, <4>3
    <3> QED
      BY <3>10, <3>11
  <2>7. Merges(View, Waits, Q2, Cared, d, D)
    BY <2>3, <2>4, <2>5, <2>6 DEF Merges
  <2>8. Clearing(View, Under, Q2, Cared, Wanted)
    BY <2>3, <2>7, MergeClears
  <2> QED
    BY <1>12, <2>1, <2>8
<1>17. PICK what : what = "DeleteDuplicates" /\ what \notin {"Delete", "Lose"} /\ Command(d, what)
  BY <1>6
<1> QED
  BY <1>1, <1>6, <1>7, <1>11, <1>16, <1>17, CommandPlans

-----------------------------------------------------------------------------
(***************************************************************************)
(* The theorem.                                                            *)
(***************************************************************************)
\* Init: nothing is known, nothing is under way, nothing is wanted.
LEMMA TagsInit ==
    ASSUME Init
    PROVE  TInv
<1>1. /\ file = [d \in Device |-> [f \in FileId |-> Unknown]]
      /\ tag = [d \in Device |-> [r \in FileId \X Tag |-> NoRow]]
      /\ wire = [l \in Ends |-> <<>>] /\ todo = [d \in Device |-> {}]
      /\ queued = [d \in Device |-> {}] /\ now = 0 /\ setting \in Setting
      /\ put = {} /\ racing = FALSE
  BY DEF Init
<1>2. <<>> \in Seq(Version)
  OBVIOUS
<1>3. /\ Unknown \in File /\ Unknown.log = <<>> /\ ~Unknown.known /\ ~Unknown.purged
      /\ Unknown.pathAt = 0 /\ Unknown.deletedAt = 0 /\ Unknown.restoredAt = 0
  BY <1>2 DEF Unknown, File
<1>4. /\ NoRow \in TagRow /\ NoRow.at = 0
  BY DEF NoRow, TagRow
<1>5. \A f \in FileId : RowSound(f, Unknown)
  BY <1>3 DEF RowSound, RowOK
<1>6. CatalogsOK(file, tag)
  BY <1>1, <1>3, <1>4, <1>5 DEF CatalogsOK, TagRows
<1>7. Sound
  BY <1>1, <1>6 DEF Sound
<1>8. RowDated(Unknown, 0)
  BY <1>3 DEF RowDated
<1>9. CatalogsDated(file, tag, 0)
  BY <1>1, <1>4, <1>8 DEF CatalogsDated
<1>10. \A l \in Ends : Sent(wire, l) = {}
  BY <1>1 DEF Sent
<1>11. Dated(now)
  BY <1>1, <1>9, <1>10 DEF Dated
<1>12. Waits = {} /\ \A l \in Ends : Under[l] = {}
  BY <1>1, <1>10 DEF Waits, Under
<1>13. AllNewer
  BY <1>12 DEF AllNewer, Afoot
<1>14. ASSUME NEW f \in Cared, NEW d \in Device, NEW e \in Device
       PROVE  View[<<d, f>>] = View[<<e, f>>]
  <2>1. f \in FileId
    BY DEF Cared
  <2>2. file[d][f] = file[e][f] /\ tag[d] = tag[e]
    BY <1>1, <2>1
  <2> QED
    BY <2>1, <2>2 DEF View, ViewOf
<1>15. Settled(View, Cared, Wanted)
  BY <1>1, <1>14 DEF Settled, Wanted
<1>16. Racing
  BY <1>12, <1>15, SettledClears DEF Racing
<1> QED
  BY <1>7, <1>11, <1>13, <1>16 DEF TInv, Ordered

\* Bytes come: the invariant does not speak of them.
LEMMA TagsPull ==
    ASSUME TInv, UNCHANGED <<file, tag, wire, todo, queued, control>>
    PROVE  TInv'
<1>1. /\ file' = file /\ tag' = tag /\ wire' = wire /\ todo' = todo /\ queued' = queued
      /\ now' = now /\ setting' = setting /\ racing' = racing /\ put' = put /\ lost' = lost
  BY DEF control
<1>2. View' = View /\ Under' = Under /\ Waits' = Waits /\ Cared' = Cared /\ Wanted' = Wanted
  BY <1>1 DEF View, Under, Sent, Waits, Cared, Wanted
<1>3. Sound' /\ Dated(now)'
  BY <1>1 DEF TInv, Sound, Dated, Sent
<1>4. Patiently' = Patiently
  BY <1>1 DEF Patiently
<1>5. Racing' = Racing /\ Calmly' = Calmly
  BY <1>2 DEF Racing, Calmly
<1>6. AllNewer' = AllNewer
  BY <1>1, <1>2 DEF AllNewer, Newer
<1> QED
  BY <1>1, <1>3, <1>4, <1>5, <1>6 DEF TInv, Ordered

\* A disk loses bytes: their content is given up.
LEMMA TagsLose ==
    ASSUME Connected, TInv, NEW d \in Device, NEW f \in FileId, Lose(d, f)
    PROVE  TInv'
<1>1. /\ file' = file /\ tag' = tag /\ wire' = wire /\ todo' = todo /\ queued' = queued
      /\ now' = now /\ setting' = setting /\ racing' = racing /\ put' = put
      /\ lost' = lost \cup {Hash[f]}
  BY DEF Lose
<1>2. Sound' /\ Dated(now)'
  BY <1>1 DEF TInv, Sound, Dated, Sent
<1>3. Cared' \subseteq Cared
  BY <1>1 DEF Cared
<1>4. ASSUME NEW l \in Ends PROVE Under'[l] = {y \in Under[l] : y.file \in Cared'}
  BY <1>1, <1>3 DEF Under, Sent
<1>5. Waits' = {y \in Waits : y.file \in Cared'}
  BY <1>1, <1>3 DEF Waits
<1>6. Aside
  BY <1>1, <1>4, <1>5 DEF Aside
<1>7. Patiently' = Patiently
  BY <1>1 DEF Patiently
<1>8. Patiently => Ordered'
  BY <1>1, <1>2, <1>6, AsideOrdered DEF TInv
<1> QED
  BY <1>2, <1>7, <1>8 DEF TInv

\* Every step keeps the invariant.
LEMMA TagsNext ==
    ASSUME Connected, TInv, [Next]_vars
    PROVE  TInv'
<1>1. CASE UNCHANGED vars
  BY <1>1, TagsPull DEF vars
<1>2. CASE Next
  <2>1. ASSUME NEW d \in Device, CommandStep(d) PROVE TInv'
    BY <2>1, TagsDeleteDuplicates, TagsPurgeDeleted, TagsPurgeBroken, TagsRetag DEF CommandStep
  <2>2. ASSUME NEW d \in Device, NEW f \in FileId, Pull(d, f) PROVE TInv'
    BY <2>2, TagsPull DEF Pull
  <2> QED
    BY <1>2, <2>1, <2>2, TagsUser, TagsCarry, TagsReceive, TagsLose DEF Next
<1> QED
  BY <1>1, <1>2

\* TagsKept: on connected devices, once all is quiet, every device finds a content
\* that no user deleted and no disk lost under every tag that was put on a file of
\* it, though delete-duplicates, the purges and retag raced on several devices
\* (tags_merged), as long as users wait for commands and commands for users.
THEOREM TagsAreKept ==
    ASSUME Connected
    PROVE  Spec => []TagsKept
<1>1. TInv => TagsKept
  <2> SUFFICES ASSUME TInv, Patiently, Quiet, NEW d \in Device, NEW r \in put, r[1] \notin lost
               PROVE  \E f \in LiveFiles(d) : Hash[f] = r[1] /\ On(tag[d], f, r[2])
    BY DEF TagsKept, TagsFollow, Patiently
  <2>1. Sound /\ Ordered
    BY DEF TInv
  <2>2. Settled(View, Cared, Wanted)
    BY <2>1, QuietSettles
  <2>3. r \in Wanted /\ r[2] \in Tag
    BY <2>1 DEF Wanted, Sound
  <2>4. PICK f \in Cared : Hash[f] = r[1] /\ Bears(View, f, r[2])
    BY <2>2, <2>3 DEF Settled
  <2>5. f \in FileId /\ View[<<d, f>>].is = "live" /\ r[2] \in View[<<d, f>>].tags
    BY <2>4 DEF Cared, Bears
  <2>6. Live(file[d][f]) /\ On(tag[d], f, r[2])
    BY <2>1, <2>3, <2>5, ViewTells
  <2> QED
    BY <2>4, <2>5, <2>6 DEF LiveFiles
<1> QED
  BY <1>1, TagsInit, TagsNext, PTL DEF Spec
=============================================================================

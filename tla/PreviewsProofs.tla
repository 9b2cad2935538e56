--------------------------- MODULE PreviewsProofs ---------------------------
(***************************************************************************)
(* No preview of other bytes is shown for the file as long as its user     *)
(* writes no content it had before: for two devices, any contents,         *)
(* policies and permits, and however often the file is written, previews are asked  *)
(* for or purged, and devices restart.                                     *)
(*                                                                         *)
(* A job renders what the path holds after the file was hashed, so what it *)
(* files under a hash may show later bytes.  The argument is that this can *)
(* only happen to a hash the file has moved on from, and that the file of  *)
(* a device only moves on, the bytes placed there being told in order.     *)
(*                                                                         *)
(* Whoever waits for a preview is going to be answered, for the same       *)
(* parameters and any edits: each job and each list of askers has a next   *)
(* step of somebody's to wait for.                                         *)
(*                                                                         *)
(* An eager device at rest with the latest bytes in place has their        *)
(* preview, if the user goes back to no earlier content.                   *)
(***************************************************************************)
EXTENDS Previews, SequenceTheorems, TLAPS

\* The user's file had this content, and has another one now.
Superseded(c) == c \in Range(written) /\ c # disk[Author]

\* What may be kept as the preview of c.
Fits(c, p) == \/ p = Missing
              \/ c \in Range(written) /\ (p = Generate(c) \/ c # disk[Author])

Asker == {"client", "cache"} \cup Device
Shown == Content \cup {Missing, Blank}

Stages == {"waiting", "reading", "absent", "generating", "asking", "done"}

Jobs == [who : Asker, hash : Content, result : Shown, stage : Stages]

Commands == [op : {"preview"}, who : Asker] \cup [op : {"apply"}, job : Jobs]
              \cup [op : {"changed", "learned"}, version : Nat]
              \cup [op : {"placed"}, hash : Content] \cup [op : {"purge"}]

Orders == [op : {"place"}, hash : Content] \cup [op : {"read"}, job : Jobs]

\* The contents whose versions d has heard of.
Heard(d) == {versions[i] : i \in 1..latest[d]}

\* A job at work on what the file had: what it is going to render is that, or
\* the file has moved on.
GoodJob(d) == {j \in Jobs : /\ j.hash \in Range(written)
                            /\ j.stage = "generating" =>
                                   disk[d] = j.hash \/ Superseded(j.hash)
                            /\ j.stage = "done" => Fits(j.hash, j.result)}

GoodCommand(d) ==
    {k \in Commands : /\ k.op \in {"changed", "learned"} => k.version \in 1..Len(versions)
                      /\ k.op = "changed" => d = Author
                      /\ k.op = "placed" => d # Author
                      /\ k.op = "apply" => Fits(k.job.hash, k.job.result)}

GoodOrder(d) == {o \in Orders : o.op = "place" => d # Author /\ o.hash \in Heard(d)}

\* In the file of a device and in the places that are to come, only itself
\* comes after a content that is not in S.
Ordered(q, c, S) ==
    /\ c \notin S => \A i \in 1..Len(q) : q[i].op = "place" => q[i].hash = c
    /\ \A i, j \in 1..Len(q) :
           i < j /\ q[i].op = "place" /\ q[j].op = "place" /\ q[i].hash \notin S
               => q[j].hash = q[i].hash

Old == {c \in Content : Superseded(c)} \cup {Missing}

FilesOK ==
    /\ written \in Seq(Content) /\ versions \in Seq(Content)
    /\ Range(versions) \subseteq Range(written)
    /\ latest \in [Device -> Nat]
    /\ \A d \in Device : latest[d] \in 1..Len(versions)
    /\ \A i, j \in 1..Len(versions) :
           i < j /\ versions[i] # versions[j] => Superseded(versions[i])
    /\ disk \in [Device -> Content \cup {Missing}]
    /\ disk[Author] \in Range(written)
    /\ \A d \in Device \ {Author} : disk[d] \in Heard(d) \cup {Missing}

DirectoryOK ==
    /\ directory \in [Device -> Seq(Orders)]
    /\ \A d \in Device : directory[d] \in Seq(GoodOrder(d))
    /\ \A d \in Device : Ordered(directory[d], disk[d], Old)

CacheOK == /\ rows \in [Device -> [Content -> Shown]]
           /\ \A d \in Device, c \in Content : Fits(c, rows[d][c])

WriterOK == /\ writer \in [Device -> Seq(Commands)]
            /\ \A d \in Device : writer[d] \in Seq(GoodCommand(d))

JobsOK == /\ jobs \in [Device -> SUBSET Jobs]
          /\ \A d \in Device : jobs[d] \subseteq GoodJob(d)

RequestsOK == requests \subseteq Device \X Device \X Range(written)

IInv == FilesOK /\ DirectoryOK /\ CacheOK /\ WriterOK /\ JobsOK /\ RequestsOK

-----------------------------------------------------------------------------
(***************************************************************************)
(* The order of places.                                                    *)
(***************************************************************************)
LEMMA OrderGrows ==
    ASSUME NEW q, NEW c, NEW S, NEW T, S \subseteq T, Ordered(q, c, S)
    PROVE  Ordered(q, c, T)
  BY DEF Ordered

LEMMA OrderNone ==
    ASSUME NEW c, NEW S
    PROVE  Ordered(<<>>, c, S)
  BY DEF Ordered

LEMMA OrderTail ==
    ASSUME NEW q \in Seq(Orders), q # <<>>, NEW c, NEW S, Ordered(q, c, S)
    PROVE  /\ Head(q).op # "place" => Ordered(Tail(q), c, S)
           /\ Head(q).op = "place" => Ordered(Tail(q), Head(q).hash, S)
                                         /\ (c \in S \/ c = Head(q).hash)
  <1>1. /\ Len(Tail(q)) = Len(q) - 1 /\ Len(q) \in Nat /\ Len(q) > 0 /\ Head(q) = q[1]
        /\ \A i \in 1..Len(Tail(q)) : Tail(q)[i] = q[i + 1]
    BY HeadTailProperties, LenProperties, EmptySeq
  <1>2. \A i \in 1..Len(Tail(q)) : i + 1 \in 1..Len(q) /\ 1 < i + 1
    BY <1>1
  <1>3. \A i, j \in 1..Len(Tail(q)) : i < j => i + 1 < j + 1
    BY <1>1
  <1>4. 1 \in 1..Len(q)
    BY <1>1
  <1> QED  BY <1>1, <1>2, <1>3, <1>4 DEF Ordered

LEMMA OrderAppend ==
    ASSUME NEW q \in Seq(Orders), NEW o \in Orders, NEW c, NEW S, Ordered(q, c, S),
           o.op = "place" => /\ c \in S \cup {o.hash}
                             /\ \A i \in 1..Len(q) :
                                    q[i].op = "place" => q[i].hash \in S \cup {o.hash}
    PROVE  Ordered(Append(q, o), c, S)
  <1> DEFINE r == Append(q, o)
  <1>1. /\ Len(r) = Len(q) + 1 /\ Len(q) \in Nat /\ r[Len(q) + 1] = o
        /\ \A i \in 1..Len(q) : r[i] = q[i]
    BY AppendProperties, LenProperties
  <1>2. \A i \in 1..Len(r) : i \in 1..Len(q) \/ i = Len(q) + 1
    BY <1>1
  <1>3. \A i, j \in 1..Len(r) : i < j => i \in 1..Len(q)
    BY <1>1
  <1> HIDE DEF r
  <1>4. ASSUME c \notin S, NEW i \in 1..Len(r), r[i].op = "place"
        PROVE  r[i].hash = c
    BY <1>1, <1>2, <1>4 DEF Ordered
  <1>5. ASSUME NEW i \in 1..Len(r), NEW j \in 1..Len(r), i < j,
               r[i].op = "place", r[j].op = "place", r[i].hash \notin S
        PROVE  r[j].hash = r[i].hash
    <2>1. i \in 1..Len(q) /\ r[i] = q[i]
      BY <1>1, <1>3, <1>5
    <2>2. CASE j \in 1..Len(q)
      BY <1>1, <1>5, <2>1, <2>2 DEF Ordered
    <2>3. CASE j = Len(q) + 1
      BY <1>1, <1>5, <2>1, <2>3
    <2> QED  BY <1>2, <2>2, <2>3
  <1>6. Ordered(r, c, S)
    BY <1>4, <1>5 DEF Ordered
  <1> QED  BY <1>6 DEF r

-----------------------------------------------------------------------------
(***************************************************************************)
(* Jobs.                                                                   *)
(***************************************************************************)
LEMMA JobParts ==
    ASSUME NEW who \in Asker, NEW c \in Content, NEW stage \in Stages
    PROVE  /\ Job(who, c, stage) \in Jobs
           /\ Job(who, c, stage).hash = c /\ Job(who, c, stage).stage = stage
  BY DEF Job, Jobs, Shown, Stages

LEMMA ToParts ==
    ASSUME NEW j \in Jobs, NEW stage \in Stages
    PROVE  To(j, stage) \in Jobs /\ To(j, stage).hash = j.hash /\ To(j, stage).stage = stage
  BY DEF To, Jobs, Stages

LEMMA DoneParts ==
    ASSUME NEW j \in Jobs, NEW p \in Shown
    PROVE  /\ Done(j, p) \in Jobs /\ Done(j, p).hash = j.hash
           /\ Done(j, p).stage = "done" /\ Done(j, p).result = p
  BY DEF Done, Jobs, Stages

LEMMA GoodDone ==
    ASSUME NEW d \in Device, NEW j \in GoodJob(d), NEW p \in Shown, Fits(j.hash, p)
    PROVE  Done(j, p) \in GoodJob(d)
  BY DoneParts DEF GoodJob

LEMMA GoodTo ==
    ASSUME NEW d \in Device, NEW j \in GoodJob(d), NEW stage \in Stages \ {"done"},
           stage = "generating" => disk[d] = j.hash
    PROVE  To(j, stage) \in GoodJob(d)
  BY ToParts DEF GoodJob

LEMMA GoodMissed ==
    ASSUME NEW d \in Device, NEW T, T \subseteq GoodJob(d), NEW c
    PROVE  Missed(T, c) \subseteq GoodJob(d)
  BY GoodDone DEF Missed, Fits, Shown

-----------------------------------------------------------------------------
(***************************************************************************)
(* What is good stays good while the file moves on.                        *)
(***************************************************************************)
MovesOn == /\ Range(written) \subseteq Range(written')
           /\ \A c : Superseded(c) => Superseded(c)'
           /\ \A d \in Device : disk'[d] = disk[d] \/ disk[d] \in Old'
           /\ Len(versions) <= Len(versions')
           /\ \A d \in Device \ {Author} : Heard(d) \subseteq Heard(d)'

LEMMA FitsOn ==
    ASSUME MovesOn, NEW c, NEW p, Fits(c, p)
    PROVE  Fits(c, p)'
  BY DEF MovesOn, Fits, Superseded

LEMMA OldOn ==
    ASSUME MovesOn
    PROVE  Old \subseteq Old'
  BY DEF MovesOn, Old

LEMMA GoodOn ==
    ASSUME MovesOn, FilesOK, NEW d \in Device, versions' \in Seq(Content)
    PROVE  /\ GoodJob(d) \subseteq GoodJob(d)'
           /\ GoodCommand(d) \subseteq GoodCommand(d)'
           /\ GoodOrder(d) \subseteq GoodOrder(d)'
  <1>1. ASSUME NEW j \in GoodJob(d)  PROVE  j \in GoodJob(d)'
    <2>1. j \in Jobs /\ j.hash \in Range(written)'
      BY <1>1 DEF GoodJob, MovesOn
    <2>2. ASSUME j.stage = "generating"
          PROVE  disk'[d] = j.hash \/ Superseded(j.hash)'
      <3>1. disk[d] = j.hash \/ Superseded(j.hash)
        BY <1>1, <2>2 DEF GoodJob
      <3>2. CASE Superseded(j.hash)
        BY <3>2 DEF MovesOn
      <3>3. CASE disk[d] = j.hash
        <4>1. j.hash # Missing
          BY <2>1, PreviewsAssumption DEF Jobs
        <4> QED  BY <3>3, <4>1 DEF MovesOn, Old
      <3> QED  BY <3>1, <3>2, <3>3
    <2>3. j.stage = "done" => Fits(j.hash, j.result)'
      BY <1>1, FitsOn DEF GoodJob
    <2> QED  BY <2>1, <2>2, <2>3 DEF GoodJob
  <1>2. ASSUME NEW k \in GoodCommand(d)  PROVE  k \in GoodCommand(d)'
    <2>1. Len(versions) \in Nat /\ Len(versions') \in Nat
      BY LenProperties DEF FilesOK
    <2>2. 1..Len(versions) \subseteq 1..Len(versions')
      BY <2>1 DEF MovesOn
    <2>3. k.op = "apply" => Fits(k.job.hash, k.job.result)'
      BY <1>2, FitsOn DEF GoodCommand
    <2> QED  BY <1>2, <2>2, <2>3 DEF GoodCommand
  <1>3. GoodOrder(d) \subseteq GoodOrder(d)'
    BY DEF GoodOrder, MovesOn
  <1> QED  BY <1>1, <1>2, <1>3

\* A step that leaves the file alone.
LEMMA StaysPut ==
    ASSUME IInv, UNCHANGED files
    PROVE  FilesOK' /\ MovesOn /\ versions' \in Seq(Content)
  BY DEF IInv, FilesOK, MovesOn, files, Superseded, Heard, Old

-----------------------------------------------------------------------------
(***************************************************************************)
(* One part of the state at a time.                                        *)
(***************************************************************************)
LEMMA SameRows ==
    ASSUME CacheOK, MovesOn, UNCHANGED rows
    PROVE  CacheOK'
  BY FitsOn DEF CacheOK

LEMMA CommandsAre ==
    ASSUME NEW d
    PROVE  /\ Seq(GoodCommand(d)) \subseteq Seq(Commands)
           /\ Seq(GoodCommand(d)') \subseteq Seq(Commands)
  <1>1. GoodCommand(d) \subseteq Commands /\ GoodCommand(d)' \subseteq Commands
    BY DEF GoodCommand
  <1> QED  BY <1>1, SeqMonotonic

LEMMA OrdersAre ==
    ASSUME NEW d
    PROVE  /\ Seq(GoodOrder(d)) \subseteq Seq(Orders)
           /\ Seq(GoodOrder(d)') \subseteq Seq(Orders)
  <1>1. GoodOrder(d) \subseteq Orders /\ GoodOrder(d)' \subseteq Orders
    BY DEF GoodOrder
  <1> QED  BY <1>1, SeqMonotonic

LEMMA SameWriter ==
    ASSUME WriterOK, FilesOK, MovesOn, versions' \in Seq(Content), UNCHANGED writer
    PROVE  WriterOK'
  <1>1. \A d \in Device : Seq(GoodCommand(d)) \subseteq Seq(GoodCommand(d)')
    BY GoodOn, SeqMonotonic
  <1> QED  BY <1>1 DEF WriterOK

LEMMA NewWriter ==
    ASSUME WriterOK, FilesOK, MovesOn, versions' \in Seq(Content),
           NEW d \in Device, NEW s \in Seq(GoodCommand(d)'),
           writer' = [writer EXCEPT ![d] = s]
    PROVE  WriterOK'
  <1>1. \A e \in Device : Seq(GoodCommand(e)) \subseteq Seq(GoodCommand(e)')
    BY GoodOn, SeqMonotonic
  <1>2. s \in Seq(Commands)
    BY CommandsAre
  <1> QED  BY <1>1, <1>2 DEF WriterOK

LEMMA SameDirectory ==
    ASSUME DirectoryOK, FilesOK, MovesOn, versions' \in Seq(Content),
           UNCHANGED <<directory, disk>>
    PROVE  DirectoryOK'
  <1>1. \A d \in Device : Seq(GoodOrder(d)) \subseteq Seq(GoodOrder(d)')
    BY GoodOn, SeqMonotonic
  <1>2. \A d \in Device : Ordered(directory[d], disk[d], Old')
    BY OldOn, OrderGrows DEF DirectoryOK
  <1> QED  BY <1>1, <1>2 DEF DirectoryOK

LEMMA NewDirectory ==
    ASSUME DirectoryOK, FilesOK, MovesOn, versions' \in Seq(Content), UNCHANGED disk,
           NEW d \in Device, NEW q \in Seq(GoodOrder(d)'), Ordered(q, disk[d], Old'),
           directory' = [directory EXCEPT ![d] = q]
    PROVE  DirectoryOK'
  <1>1. \A e \in Device : Seq(GoodOrder(e)) \subseteq Seq(GoodOrder(e)')
    BY GoodOn, SeqMonotonic
  <1>2. \A e \in Device : Ordered(directory[e], disk[e], Old')
    BY OldOn, OrderGrows DEF DirectoryOK
  <1>3. q \in Seq(Orders)
    BY OrdersAre
  <1> QED  BY <1>1, <1>2, <1>3 DEF DirectoryOK

LEMMA SameJobs ==
    ASSUME JobsOK, FilesOK, MovesOn, versions' \in Seq(Content), UNCHANGED jobs
    PROVE  JobsOK'
  BY GoodOn DEF JobsOK

LEMMA NewJobs ==
    ASSUME JobsOK, FilesOK, MovesOn, versions' \in Seq(Content),
           NEW d \in Device, NEW T, T \subseteq GoodJob(d)',
           jobs' = [jobs EXCEPT ![d] = T]
    PROVE  JobsOK'
  <1>1. GoodJob(d)' \subseteq Jobs
    BY DEF GoodJob
  <1> QED  BY <1>1, GoodOn DEF JobsOK

LEMMA SameRequests ==
    ASSUME RequestsOK, MovesOn, requests' \subseteq requests
    PROVE  RequestsOK'
  BY DEF RequestsOK, MovesOn

LEMMA Written ==
    ASSUME WriterOK, FilesOK, MovesOn, versions' \in Seq(Content),
           NEW d \in Device, NEW op, NEW more \in Seq(GoodCommand(d)'), Take(d, op, more)
    PROVE  WriterOK' /\ Head(writer[d]) \in GoodCommand(d) /\ Head(writer[d]).op = op
  <1>1. writer[d] \in Seq(GoodCommand(d)) /\ writer[d] # <<>> /\ Head(writer[d]).op = op
    BY DEF WriterOK, Take
  <1>2. Head(writer[d]) \in GoodCommand(d) /\ Tail(writer[d]) \in Seq(GoodCommand(d))
    BY <1>1, HeadTailProperties
  <1>3. Seq(GoodCommand(d)) \subseteq Seq(GoodCommand(d)')
    BY GoodOn, SeqMonotonic
  <1>4. Tail(writer[d]) \o more \in Seq(GoodCommand(d)')
    BY <1>2, <1>3, ConcatProperties
  <1>5. writer' = [writer EXCEPT ![d] = Tail(writer[d]) \o more]
    BY DEF Take
  <1> QED  BY <1>1, <1>2, <1>4, <1>5, NewWriter

LEMMA Queued ==
    ASSUME WriterOK, FilesOK, MovesOn, versions' \in Seq(Content),
           NEW d \in Device, NEW k \in GoodCommand(d)',
           writer' = [writer EXCEPT ![d] = Append(@, k)]
    PROVE  WriterOK'
  <1>1. writer[d] \in Seq(GoodCommand(d)')
    BY GoodOn, SeqMonotonic DEF WriterOK
  <1>2. Append(writer[d], k) \in Seq(GoodCommand(d)')
    BY <1>1, AppendProperties
  <1> QED  BY <1>2, NewWriter

\* A request is good whatever the state.
LEMMA GoodPreview ==
    ASSUME NEW d, NEW who \in Asker
    PROVE  Preview(who) \in GoodCommand(d) /\ Preview(who) \in GoodCommand(d)'
  BY DEF Preview, GoodCommand, Commands

LEMMA WarmOK ==
    ASSUME NEW d
    PROVE  Warm(d) \in Seq(GoodCommand(d)) /\ Warm(d) \in Seq(GoodCommand(d)')
  BY GoodPreview DEF Warm, Asker

\* A job has the directories read.
LEMMA ReadOrdered ==
    ASSUME DirectoryOK, FilesOK, UNCHANGED files, MovesOn, NEW d \in Device, NEW j \in Jobs,
           directory' = [directory EXCEPT ![d] = Append(@, [op |-> "read", job |-> j])]
    PROVE  DirectoryOK'
  <1> DEFINE o == [op |-> "read", job |-> j]
             q == Append(directory[d], o)
  <1>1. o \in Orders /\ o.op = "read" /\ o \in GoodOrder(d) /\ o \in GoodOrder(d)'
    BY DEF Orders, GoodOrder
  <1>2. directory[d] \in Seq(Orders) /\ directory[d] \in Seq(GoodOrder(d)')
        /\ Ordered(directory[d], disk[d], Old')
    BY GoodOn, SeqMonotonic, OldOn, OrderGrows DEF DirectoryOK, FilesOK, files
  <1> HIDE DEF o
  <1>3. q \in Seq(GoodOrder(d)')
    BY <1>1, <1>2, AppendProperties
  <1>4. Ordered(q, disk[d], Old')
    BY <1>1, <1>2, OrderAppend
  <1> HIDE DEF q
  <1>5. directory' = [directory EXCEPT ![d] = q]
    BY DEF q, o
  <1>6. versions' \in Seq(Content) /\ UNCHANGED disk
    BY DEF FilesOK, files
  <1> QED  BY <1>3, <1>4, <1>5, <1>6, NewDirectory

-----------------------------------------------------------------------------
(***************************************************************************)
(* The first state.                                                        *)
(***************************************************************************)
LEMMA Starts ==
    ASSUME Init
    PROVE  IInv
  <1>1. PICK c \in Content : written = <<c>>
    BY DEF Init
  <1>2. written \in Seq(Content) /\ versions = <<c>> /\ versions \in Seq(Content)
        /\ Range(written) = {c} /\ Range(versions) = {c} /\ Len(versions) = 1
        /\ written[1] = c /\ versions[1] = c
    BY <1>1 DEF Init, Range
  <1>3. disk \in [Device -> {c, Missing}] /\ disk[Author] = c
        /\ latest = [d \in Device |-> 1]
    BY <1>2 DEF Init
  <1>4. FilesOK
    BY <1>2, <1>3 DEF FilesOK, Heard
  <1>5. DirectoryOK
    <2>1. directory = [d \in Device |-> <<>>]
      BY DEF Init
    <2> QED  BY <2>1, OrderNone, EmptySeq DEF DirectoryOK
  <1>6. CacheOK
    BY DEF Init, CacheOK, NoRows, Fits, Shown
  <1>7. WriterOK
    <2>1. \A d \in Device : /\ Warm(d) \in Seq(GoodCommand(d)) /\ Warm(d) \in Seq(Commands)
                            /\ <<>> \in Seq(GoodCommand(d)) /\ <<>> \in Seq(Commands)
      BY WarmOK, CommandsAre, EmptySeq
    <2>2. writer = [d \in Device |-> IF disk[d] # Missing THEN Warm(d) ELSE <<>>]
      BY DEF Init
    <2> QED  BY <2>1, <2>2 DEF WriterOK
  <1>8. JobsOK /\ RequestsOK
    BY DEF Init, JobsOK, RequestsOK
  <1> QED  BY <1>4, <1>5, <1>6, <1>7, <1>8 DEF IInv

-----------------------------------------------------------------------------
(***************************************************************************)
(* Steps of the file and of its versions.                                  *)
(***************************************************************************)
LEMMA EditKeeps ==
    ASSUME IInv, Edit, Reuse = FALSE
    PROVE  IInv'
  <1>1. PICK c \in Content \ {disk[Author]} :
            /\ c \notin Range(written)
            /\ written' = Append(written, c)
            /\ disk' = [disk EXCEPT ![Author] = c]
    BY DEF Edit
  <1>2. UNCHANGED <<versions, latest, rows, tasks, client, bounds>>
    BY DEF Edit
  <1>3. /\ written' \in Seq(Content)
        /\ Range(written) \subseteq Range(written') /\ c \in Range(written')
    <2>1. /\ written \in Seq(Content)
          /\ Len(written) \in Nat /\ DOMAIN written = 1..Len(written)
      BY LenProperties DEF IInv, FilesOK
    <2>2. /\ written' \in Seq(Content) /\ Len(written') = Len(written) + 1
          /\ DOMAIN written' = 1..Len(written')
          /\ \A i \in 1..Len(written) : written'[i] = written[i]
          /\ written'[Len(written) + 1] = c
      BY <1>1, <2>1, AppendProperties, LenProperties
    <2> QED  BY <2>1, <2>2 DEF Range
  <1>4. disk \in [Device -> Content \cup {Missing}] /\ Author \in Device
        /\ disk[Author] \in Range(written) /\ disk[Author] \in Content
    <2>1. Missing \notin Range(written) /\ Range(written) \subseteq Content
      BY PreviewsAssumption, RangeOfSeq DEF IInv, FilesOK
    <2> QED  BY <2>1, PreviewsAssumption DEF IInv, FilesOK
  <1>5. /\ disk' \in [Device -> Content \cup {Missing}] /\ disk'[Author] = c
        /\ \A d \in Device \ {Author} : disk'[d] = disk[d]
    BY <1>1, <1>4
  <1>6. \A x \in Range(written) : Superseded(x)'
    BY <1>1, <1>3, <1>5 DEF Superseded
  <1>7. MovesOn
    <2>1. \A x : Superseded(x) => Superseded(x)'
      BY <1>6 DEF Superseded
    <2>2. \A d \in Device : disk'[d] = disk[d] \/ disk[d] \in Old'
      BY <1>4, <1>5, <1>6 DEF Old
    <2>3. Len(versions') = Len(versions) /\ Len(versions) \in Nat
          /\ \A d \in Device : Heard(d)' = Heard(d)
      BY <1>2, LenProperties DEF IInv, FilesOK, Heard
    <2> QED  BY <1>3, <2>1, <2>2, <2>3 DEF MovesOn
  <1>8. versions' \in Seq(Content)
    BY <1>2 DEF IInv, FilesOK
  <1>9. FilesOK'
    <2>1. \A i \in 1..Len(versions) : versions[i] \in Range(written)
      BY LenProperties DEF IInv, FilesOK, Range
    <2>2. \A d \in Device : Heard(d)' = Heard(d)
      BY <1>2 DEF Heard
    <2> QED  BY <1>2, <1>3, <1>5, <1>6, <1>8, <2>1, <2>2 DEF IInv, FilesOK
  <1>10. DirectoryOK'
    <2>1. /\ directory' = directory
          /\ \A d \in Device : Seq(GoodOrder(d)) \subseteq Seq(GoodOrder(d)')
      BY <1>2, <1>7, <1>8, GoodOn, SeqMonotonic DEF IInv, tasks
    <2>2. \A d \in Device : Ordered(directory[d], disk[d], Old')
      BY <1>7, OldOn, OrderGrows DEF IInv, DirectoryOK
    <2>3. Ordered(directory[Author], c, Old')
      <3>1. directory[Author] \in Seq(GoodOrder(Author))
        BY <1>4 DEF IInv, DirectoryOK
      <3>2. \A i \in 1..Len(directory[Author]) : directory[Author][i] \in GoodOrder(Author)
        BY <3>1, ElementOfSeq
      <3>3. \A i \in 1..Len(directory[Author]) : directory[Author][i].op # "place"
        BY <3>2 DEF GoodOrder
      <3> QED  BY <3>3 DEF Ordered
    <2>4. \A d \in Device : Ordered(directory[d], disk'[d], Old')
      BY <1>5, <2>2, <2>3
    <2> QED  BY <2>1, <2>4 DEF IInv, DirectoryOK
  <1>11. CacheOK' /\ WriterOK' /\ JobsOK' /\ RequestsOK'
    BY <1>2, <1>7, <1>8, SameRows, SameWriter, SameJobs, SameRequests DEF IInv, tasks
  <1> QED  BY <1>9, <1>10, <1>11 DEF IInv

LEMMA Announcing ==
    ASSUME IInv, versions' = Append(versions, disk[Author]),
           UNCHANGED <<written, disk, latest>>
    PROVE  FilesOK' /\ MovesOn /\ versions' \in Seq(Content)
           /\ Len(versions') \in 1..Len(versions')
  <1> DEFINE c == disk[Author]
  <1>1. /\ written \in Seq(Content) /\ versions \in Seq(Content)
        /\ c \in Range(written) /\ c \in Content
    BY RangeOfSeq DEF IInv, FilesOK
  <1> HIDE DEF c
  <1>2. versions' = Append(versions, c)
    BY DEF c
  <1>3. /\ versions' \in Seq(Content) /\ Len(versions) \in Nat
        /\ Len(versions') = Len(versions) + 1
        /\ \A i \in 1..Len(versions) : versions'[i] = versions[i]
        /\ versions'[Len(versions) + 1] = c
    BY <1>1, <1>2, AppendProperties, LenProperties
  <1>4. 1..Len(versions') = 1..Len(versions) \cup {Len(versions')}
        /\ Len(versions') \in 1..Len(versions')
    BY <1>3
  <1>5. \A i \in 1..Len(versions') : versions'[i] \in Range(written)
    BY <1>1, <1>3, <1>4, LenProperties DEF IInv, FilesOK, Range
  <1>6. \A d \in Device : Heard(d)' = Heard(d)
    <2>1. \A d \in Device : latest[d] \in 1..Len(versions) /\ latest[d] \in Nat
      BY DEF IInv, FilesOK
    <2>2. \A d \in Device : \A i \in 1..latest[d] : i \in 1..Len(versions)
      BY <1>3, <2>1
    <2> QED  BY <1>3, <2>2 DEF Heard
  <1>7. Range(written)' = Range(written) /\ \A x : Superseded(x)' <=> Superseded(x)
    BY DEF Superseded
  <1>8. MovesOn
    BY <1>3, <1>6, <1>7 DEF MovesOn
  <1>9. ASSUME NEW i \in 1..Len(versions'), NEW j \in 1..Len(versions'), i < j,
               versions'[i] # versions'[j]
        PROVE  Superseded(versions'[i])
    <2>1. i \in 1..Len(versions) /\ versions'[i] = versions[i]
      BY <1>3, <1>9
    <2>2. CASE j \in 1..Len(versions)
      BY <1>3, <1>9, <2>1, <2>2 DEF IInv, FilesOK
    <2>3. CASE j = Len(versions')
      BY <1>3, <1>5, <1>9, <2>1, <2>3 DEF Superseded, c
    <2> QED  BY <1>4, <2>2, <2>3
  <1>10. Range(versions') \subseteq Range(written)
    BY <1>3, <1>5, LenProperties DEF Range
  <1>11. FilesOK'
    <2>1. \A d \in Device : latest'[d] \in 1..Len(versions')
      BY <1>4 DEF IInv, FilesOK
    <2> QED  BY <1>1, <1>3, <1>6, <1>7, <1>9, <1>10, <2>1 DEF IInv, FilesOK
  <1> QED  BY <1>3, <1>4, <1>8, <1>11

LEMMA NoticeKeeps ==
    ASSUME IInv, Notice
    PROVE  IInv'
  <1> DEFINE k == [op |-> "changed", version |-> Len(versions')]
  <1>1. /\ versions' = Append(versions, disk[Author])
        /\ writer' = [writer EXCEPT ![Author] = Append(@, k)]
        /\ UNCHANGED <<written, disk, latest, rows, directory, jobs, pending, requests,
                       client, bounds>>
    BY DEF Notice
  <1>2. /\ FilesOK' /\ MovesOn /\ versions' \in Seq(Content)
        /\ Len(versions') \in 1..Len(versions')
    BY <1>1, Announcing
  <1>3. k \in GoodCommand(Author)' /\ Author \in Device
    <2>1. Len(versions') \in Nat
      BY <1>2, LenProperties
    <2>2. k \in Commands /\ k.op = "changed" /\ k.version = Len(versions')
      BY <2>1 DEF Commands
    <2> QED  BY <1>2, <2>2, PreviewsAssumption DEF GoodCommand
  <1> HIDE DEF k
  <1>4. WriterOK'
    BY <1>1, <1>2, <1>3, Queued DEF IInv
  <1>5. CacheOK' /\ DirectoryOK' /\ JobsOK' /\ RequestsOK'
    BY <1>1, <1>2, SameRows, SameDirectory, SameJobs, SameRequests DEF IInv
  <1> QED  BY <1>2, <1>4, <1>5 DEF IInv

\* A device hears of a version: no device forgets one, unless it wrote them all.
LEMMA Hears ==
    ASSUME IInv, NEW d \in Device, NEW v \in 1..Len(versions), d = Author \/ v > latest[d],
           latest' = [latest EXCEPT ![d] = v], UNCHANGED <<written, disk, versions>>
    PROVE  FilesOK' /\ MovesOn /\ versions' \in Seq(Content)
  <1>1. /\ latest \in [Device -> Nat] /\ versions \in Seq(Content) /\ Len(versions) \in Nat
        /\ \A e \in Device : latest[e] \in 1..Len(versions)
    BY LenProperties DEF IInv, FilesOK
  <1>2. /\ latest' \in [Device -> Nat] /\ latest'[d] = v
        /\ \A e \in Device \ {d} : latest'[e] = latest[e]
        /\ \A e \in Device : latest'[e] \in 1..Len(versions)
    BY <1>1
  <1>3. \A e \in Device \ {Author} : Heard(e) \subseteq Heard(e)'
    <2>1. \A e \in Device \ {Author} : 1..latest[e] \subseteq 1..latest'[e]
      BY <1>1, <1>2
    <2> QED  BY <2>1 DEF Heard
  <1>4. \A x : Superseded(x)' <=> Superseded(x)
    BY DEF Superseded
  <1>5. MovesOn
    BY <1>1, <1>3, <1>4 DEF MovesOn
  <1>6. FilesOK'
    BY <1>1, <1>2, <1>3, <1>4 DEF IInv, FilesOK
  <1> QED  BY <1>1, <1>5, <1>6

\* Without a preview left there is none that does not fit.
LEMMA CacheDropped ==
    ASSUME CacheOK, MovesOn, NEW d \in Device, rows' = [rows EXCEPT ![d] = NoRows]
    PROVE  CacheOK'
  BY FitsOn DEF CacheOK, NoRows, Fits, Shown

LEMMA Wrote ==
    ASSUME IInv, NEW d \in Device, NEW v \in 1..Len(versions), d = Author \/ v > latest[d],
           RecordVersion(d, v), NEW op, NEW more \in Seq(GoodCommand(d)'), Take(d, op, more),
           UNCHANGED <<written, disk, versions, directory, jobs, requests>>
    PROVE  IInv'
  <1>1. latest' = [latest EXCEPT ![d] = v] /\ rows' = [rows EXCEPT ![d] = NoRows]
    BY DEF RecordVersion
  <1>2. FilesOK' /\ MovesOn /\ versions' \in Seq(Content)
    BY <1>1, Hears
  <1>3. CacheOK'
    BY <1>1, <1>2, CacheDropped DEF IInv
  <1>4. WriterOK'
    BY <1>2, Written DEF IInv
  <1>5. DirectoryOK' /\ JobsOK' /\ RequestsOK'
    BY <1>2, SameDirectory, SameJobs, SameRequests DEF IInv
  <1> QED  BY <1>2, <1>3, <1>4, <1>5 DEF IInv

LEMMA ChangeKeeps ==
    ASSUME IInv, NEW d \in Device, Change(d)
    PROVE  IInv'
  <1>1. /\ Take(d, "changed", Warm(d)) /\ RecordVersion(d, Head(writer[d]).version)
        /\ UNCHANGED <<written, disk, versions, directory, jobs, requests>>
    BY DEF Change
  <1>2. Head(writer[d]) \in GoodCommand(d) /\ Head(writer[d]).op = "changed"
    BY <1>1, HeadTailProperties DEF IInv, WriterOK, Take
  <1>3. d = Author /\ Head(writer[d]).version \in 1..Len(versions)
    BY <1>2 DEF GoodCommand
  <1>4. Warm(d) \in Seq(GoodCommand(d)')
    BY WarmOK
  <1> QED  BY <1>1, <1>3, <1>4, Wrote

LEMMA LearnKeeps ==
    ASSUME IInv, NEW d \in Device, Learn(d)
    PROVE  IInv'
  <1> DEFINE v == Head(writer[d]).version
  <1>1. /\ Take(d, "learned", <<>>)
        /\ UNCHANGED <<written, disk, versions, directory, jobs, requests>>
        /\ IF v > latest[d] THEN RecordVersion(d, v) ELSE UNCHANGED <<latest, rows>>
    BY DEF Learn
  <1>2. Head(writer[d]) \in GoodCommand(d) /\ Head(writer[d]).op = "learned"
    BY <1>1, HeadTailProperties DEF IInv, WriterOK, Take
  <1>3. v \in 1..Len(versions)
    BY <1>2 DEF GoodCommand
  <1>4. <<>> \in Seq(GoodCommand(d)')
    BY EmptySeq
  <1> HIDE DEF v
  <1>5. CASE v > latest[d]
    BY <1>1, <1>3, <1>4, <1>5, Wrote
  <1>6. CASE ~(v > latest[d])
    <2>1. UNCHANGED files /\ UNCHANGED rows
      <3>1. UNCHANGED unseen
        BY DEF Learn
      <3> QED  BY <1>1, <1>6, <3>1 DEF files
    <2>2. FilesOK' /\ MovesOn /\ versions' \in Seq(Content)
      BY <2>1, StaysPut
    <2>3. WriterOK'
      BY <1>1, <1>4, <2>2, Written DEF IInv
    <2>4. CacheOK' /\ DirectoryOK' /\ JobsOK' /\ RequestsOK'
      BY <1>1, <2>1, <2>2, SameRows, SameDirectory, SameJobs, SameRequests DEF IInv
    <2> QED  BY <2>2, <2>3, <2>4 DEF IInv
  <1> QED  BY <1>5, <1>6

\* A command that comes from outside the writer.
LEMMA CommandComes ==
    ASSUME IInv, NEW d \in Device, NEW k \in GoodCommand(d),
           writer' = [writer EXCEPT ![d] = Append(@, k)],
           UNCHANGED <<files, rows, directory, jobs, requests>>
    PROVE  IInv'
  <1>1. FilesOK' /\ MovesOn /\ versions' \in Seq(Content)
    BY StaysPut
  <1>2. k \in GoodCommand(d)'
    BY <1>1, GoodOn DEF IInv
  <1>3. WriterOK'
    BY <1>1, <1>2, Queued DEF IInv
  <1>4. CacheOK' /\ DirectoryOK' /\ JobsOK' /\ RequestsOK'
    BY <1>1, SameRows, SameDirectory, SameJobs, SameRequests DEF IInv, files
  <1> QED  BY <1>1, <1>3, <1>4 DEF IInv

LEMMA AnnounceKeeps ==
    ASSUME IInv, NEW d \in Device, NEW e \in Device, Announce(d, e)
    PROVE  IInv'
  <1> DEFINE k == [op |-> "learned", version |-> latest[d]]
  <1>1. latest[d] \in Nat /\ latest[d] \in 1..Len(versions)
    BY DEF IInv, FilesOK
  <1>2. k \in Commands /\ k.op = "learned" /\ k.version = latest[d]
    BY <1>1 DEF Commands
  <1>3. k \in GoodCommand(e)
    BY <1>1, <1>2 DEF GoodCommand
  <1>4. /\ writer' = [writer EXCEPT ![e] = Append(@, k)]
        /\ UNCHANGED <<files, rows, directory, jobs, requests>>
    BY DEF Announce
  <1> HIDE DEF k
  <1> QED  BY <1>3, <1>4, CommandComes

LEMMA LandKeeps ==
    ASSUME IInv, NEW d \in Device, Land(d)
    PROVE  IInv'
  <1> DEFINE k == [op |-> "placed", hash |-> Latest(d)]
  <1>1. Latest(d) \in Content
    <2>1. latest[d] \in 1..Len(versions) /\ versions \in Seq(Content)
      BY DEF IInv, FilesOK
    <2> QED  BY <2>1, ElementOfSeq DEF Latest
  <1>2. k \in Commands /\ k.op = "placed"
    BY <1>1 DEF Commands
  <1>3. k \in GoodCommand(d)
    BY <1>2 DEF GoodCommand, Land
  <1>4. /\ writer' = [writer EXCEPT ![d] = Append(@, k)]
        /\ UNCHANGED <<files, rows, directory, jobs, requests>>
    BY DEF Land
  <1> HIDE DEF k
  <1> QED  BY <1>3, <1>4, CommandComes

LEMMA GetPreviewKeeps ==
    ASSUME IInv, NEW d \in Device, GetPreview(d)
    PROVE  IInv'
  <1>1. Preview("client") \in GoodCommand(d)
    BY GoodPreview DEF Asker
  <1> QED  BY <1>1, CommandComes DEF GetPreview

LEMMA PurgePreviewsKeeps ==
    ASSUME IInv, NEW d \in Device, PurgePreviews(d)
    PROVE  IInv'
  <1>1. [op |-> "purge"] \in GoodCommand(d)
    BY DEF GoodCommand, Commands
  <1> QED  BY <1>1, CommandComes DEF PurgePreviews

-----------------------------------------------------------------------------
(***************************************************************************)
(* Steps of the catalog writer that leave the file alone.                  *)
(***************************************************************************)
LEMMA LatestHeard ==
    ASSUME FilesOK, NEW d \in Device
    PROVE  /\ Latest(d) \in Content /\ Latest(d) \in Range(written) /\ Latest(d) \in Heard(d)
           /\ \A c \in Heard(d) : c = Latest(d) \/ Superseded(c)
  <1>1. /\ latest[d] \in 1..Len(versions) /\ versions \in Seq(Content)
        /\ DOMAIN versions = 1..Len(versions) /\ Len(versions) \in Nat
    BY LenProperties DEF FilesOK
  <1>2. latest[d] \in 1..latest[d] /\ \A i \in 1..latest[d] : i \in 1..Len(versions)
    BY <1>1
  <1>3. Latest(d) \in Content /\ Latest(d) \in Range(versions)
    BY <1>1, ElementOfSeq DEF Latest, Range
  <1>4. ASSUME NEW i \in 1..latest[d]
        PROVE  versions[i] = Latest(d) \/ Superseded(versions[i])
    <2>1. i = latest[d] \/ i < latest[d]
      BY <1>1
    <2> QED  BY <1>1, <1>2, <2>1 DEF FilesOK, Latest
  <1> QED  BY <1>2, <1>3, <1>4 DEF FilesOK, Latest, Heard

LEMMA MaterializeKeeps ==
    ASSUME IInv, NEW d \in Device, Materialize(d)
    PROVE  IInv'
  <1> DEFINE c == Head(writer[d]).hash
             o == [op |-> "place", hash |-> c]
             more == IF c = Latest(d) THEN Warm(d) ELSE <<>>
  <1>1. /\ Take(d, "placed", more)
        /\ directory' = IF c # Latest(d) THEN directory
                        ELSE [directory EXCEPT ![d] = Append(@, o)]
        /\ UNCHANGED <<files, rows, jobs, requests>>
    BY DEF Materialize
  <1>2. FilesOK' /\ MovesOn /\ versions' \in Seq(Content)
    BY <1>1, StaysPut
  <1>3. more \in Seq(GoodCommand(d)')
    BY WarmOK, EmptySeq
  <1> HIDE DEF more
  <1>4. WriterOK' /\ Head(writer[d]) \in GoodCommand(d) /\ Head(writer[d]).op = "placed"
    BY <1>1, <1>2, <1>3, Written DEF IInv
  <1>5. d # Author /\ c \in Content
    BY <1>4 DEF GoodCommand, Commands
  <1> HIDE DEF c
  <1>6. DirectoryOK'
    <2>1. CASE c # Latest(d)
      BY <1>1, <1>2, <2>1, SameDirectory DEF IInv, files
    <2>2. CASE c = Latest(d)
      <3> DEFINE q == Append(directory[d], o)
      <3>1. o \in Orders /\ o.op = "place" /\ o.hash = c
        BY <1>5 DEF Orders
      <3> HIDE DEF o
      <3>2. o \in GoodOrder(d)
        BY <1>5, <2>2, <3>1, LatestHeard DEF GoodOrder, IInv
      <3>3. directory[d] \in Seq(Orders) /\ directory[d] \in Seq(GoodOrder(d))
            /\ \A i \in 1..Len(directory[d]) : directory[d][i] \in GoodOrder(d)
        BY ElementOfSeq DEF IInv, DirectoryOK
      <3>4. \A x \in Heard(d) : x \in Old \cup {c}
        <4>1. Heard(d) \subseteq Content
          <5>1. \A i \in 1..latest[d] : i \in 1..Len(versions)
            BY LenProperties DEF IInv, FilesOK
          <5> QED  BY <5>1, ElementOfSeq DEF IInv, FilesOK, Heard
        <4> QED  BY <2>2, <4>1, LatestHeard DEF IInv, Old
      <3>5. disk[d] \in Old \cup {c}
        BY <1>5, <3>4 DEF IInv, FilesOK, Old
      <3>6. \A i \in 1..Len(directory[d]) :
                directory[d][i].op = "place" => directory[d][i].hash \in Old \cup {c}
        BY <3>3, <3>4 DEF GoodOrder
      <3>7. Ordered(q, disk[d], Old)
        BY <3>1, <3>3, <3>5, <3>6, OrderAppend DEF IInv, DirectoryOK
      <3>8. q \in Seq(GoodOrder(d))
        BY <3>2, <3>3, AppendProperties
      <3>9. q \in Seq(GoodOrder(d)') /\ Ordered(q, disk[d], Old')
        BY <1>2, <3>7, <3>8, GoodOn, OldOn, OrderGrows, SeqMonotonic DEF IInv
      <3>10. directory' = [directory EXCEPT ![d] = q] /\ UNCHANGED disk
        BY <1>1, <2>2 DEF files
      <3> HIDE DEF q
      <3> QED  BY <1>2, <3>9, <3>10, NewDirectory DEF IInv
    <2> QED  BY <2>1, <2>2
  <1>7. CacheOK' /\ JobsOK' /\ RequestsOK'
    BY <1>1, <1>2, SameRows, SameJobs, SameRequests DEF IInv
  <1> QED  BY <1>2, <1>4, <1>6, <1>7 DEF IInv

LEMMA ResolveKeeps ==
    ASSUME IInv, NEW d \in Device, Resolve(d)
    PROVE  IInv'
  <1> DEFINE who == Head(writer[d]).who
             j == Job(who, Latest(d), "waiting")
  <1>1. /\ Take(d, "preview", <<>>)
        /\ UNCHANGED jobs \/ jobs' = [jobs EXCEPT ![d] = @ \cup {j}]
        /\ UNCHANGED <<files, rows, directory, requests>>
    BY DEF Resolve
  <1>2. FilesOK' /\ MovesOn /\ versions' \in Seq(Content)
    BY <1>1, StaysPut
  <1>3. WriterOK' /\ Head(writer[d]) \in GoodCommand(d) /\ Head(writer[d]).op = "preview"
    BY <1>1, <1>2, EmptySeq, Written DEF IInv
  <1>4. who \in Asker
    BY <1>3 DEF GoodCommand, Commands
  <1> HIDE DEF who
  <1>5. Latest(d) \in Content /\ Latest(d) \in Range(written)
    BY LatestHeard DEF IInv
  <1>6. j \in Jobs /\ j.hash = Latest(d) /\ j.stage = "waiting"
    BY <1>4, <1>5, JobParts DEF Stages
  <1> HIDE DEF j
  <1>7. j \in GoodJob(d)
    BY <1>5, <1>6 DEF GoodJob
  <1>8. JobsOK'
    <2>1. CASE UNCHANGED jobs
      BY <1>2, <2>1, SameJobs DEF IInv
    <2>2. CASE jobs' = [jobs EXCEPT ![d] = @ \cup {j}]
      <3>1. jobs[d] \cup {j} \subseteq GoodJob(d)'
        BY <1>2, <1>7, GoodOn DEF IInv, JobsOK
      <3> QED  BY <1>2, <2>2, <3>1, NewJobs DEF IInv
    <2> QED  BY <1>1, <2>1, <2>2
  <1>9. CacheOK' /\ DirectoryOK' /\ RequestsOK'
    BY <1>1, <1>2, SameRows, SameDirectory, SameRequests DEF IInv, files
  <1> QED  BY <1>2, <1>3, <1>8, <1>9 DEF IInv

LEMMA ApplyPreviewKeeps ==
    ASSUME IInv, NEW d \in Device, ApplyPreview(d)
    PROVE  IInv'
  <1> DEFINE job == Head(writer[d]).job
  <1>1. /\ Take(d, "apply", <<>>)
        /\ rows' = IF job.result = Missing THEN rows
                   ELSE [rows EXCEPT ![d][job.hash] = job.result]
        /\ UNCHANGED <<files, directory, jobs, requests>>
    BY DEF ApplyPreview
  <1>2. FilesOK' /\ MovesOn /\ versions' \in Seq(Content)
    BY <1>1, StaysPut
  <1>3. WriterOK' /\ Head(writer[d]) \in GoodCommand(d) /\ Head(writer[d]).op = "apply"
    BY <1>1, <1>2, EmptySeq, Written DEF IInv
  <1>4. job \in Jobs /\ Fits(job.hash, job.result)
    BY <1>3 DEF GoodCommand, Commands
  <1>5. job.hash \in Content /\ job.result \in Shown
    BY <1>4 DEF Jobs
  <1> HIDE DEF job
  <1>6. CacheOK'
    <2>1. /\ rows' \in [Device -> [Content -> Shown]]
          /\ \A e \in Device, c \in Content : \/ rows'[e][c] = rows[e][c]
                                              \/ c = job.hash /\ rows'[e][c] = job.result
      BY <1>1, <1>5 DEF IInv, CacheOK
    <2>2. \A e \in Device, c \in Content : Fits(c, rows'[e][c])
      BY <1>4, <2>1 DEF IInv, CacheOK
    <2> QED  BY <1>2, <2>1, <2>2, FitsOn DEF CacheOK
  <1>7. DirectoryOK' /\ JobsOK' /\ RequestsOK'
    BY <1>1, <1>2, SameDirectory, SameJobs, SameRequests DEF IInv, files
  <1> QED  BY <1>2, <1>3, <1>6, <1>7 DEF IInv

LEMMA PurgeKeeps ==
    ASSUME IInv, NEW d \in Device, Purge(d)
    PROVE  IInv'
  <1>1. /\ Take(d, "purge", Warm(d)) /\ rows' = [rows EXCEPT ![d] = NoRows]
        /\ UNCHANGED <<files, directory, jobs, requests>>
    BY DEF Purge
  <1>2. FilesOK' /\ MovesOn /\ versions' \in Seq(Content)
    BY <1>1, StaysPut
  <1>3. WriterOK'
    BY <1>1, <1>2, WarmOK, Written DEF IInv
  <1>4. CacheOK' /\ DirectoryOK' /\ JobsOK' /\ RequestsOK'
    BY <1>1, <1>2, CacheDropped, SameDirectory, SameJobs, SameRequests DEF IInv, files
  <1> QED  BY <1>2, <1>3, <1>4 DEF IInv

-----------------------------------------------------------------------------
(***************************************************************************)
(* The directories and the jobs.                                           *)
(***************************************************************************)
LEMMA PlaceKeeps ==
    ASSUME IInv, NEW d \in Device, Place(d)
    PROVE  IInv'
  <1> DEFINE c == Head(directory[d]).hash
             q == Tail(directory[d])
  <1>1. /\ directory[d] # <<>> /\ Head(directory[d]).op = "place"
        /\ directory' = [directory EXCEPT ![d] = q] /\ disk' = [disk EXCEPT ![d] = c]
        /\ UNCHANGED <<written, versions, latest, rows, writer, jobs, requests>>
    BY DEF Place
  <1>2. /\ directory[d] \in Seq(Orders) /\ directory[d] \in Seq(GoodOrder(d))
        /\ Ordered(directory[d], disk[d], Old)
    BY DEF IInv, DirectoryOK
  <1>3. Head(directory[d]) \in GoodOrder(d) /\ q \in Seq(GoodOrder(d))
    BY <1>1, <1>2, HeadTailProperties
  <1>4. d # Author /\ c \in Heard(d) /\ c \in Content
    BY <1>1, <1>3 DEF GoodOrder, Orders
  <1>5. Ordered(q, c, Old) /\ (disk[d] \in Old \/ disk[d] = c)
    BY <1>1, <1>2, OrderTail
  <1> HIDE DEF c, q
  <1>6. /\ disk' \in [Device -> Content \cup {Missing}] /\ disk'[d] = c
        /\ \A e \in Device \ {d} : disk'[e] = disk[e]
        /\ Author \in Device \ {d}
    BY <1>1, <1>4, PreviewsAssumption DEF IInv, FilesOK
  <1>7. (\A x : Superseded(x)' <=> Superseded(x)) /\ Old' = Old
    BY <1>1, <1>6 DEF Superseded, Old
  <1>8. \A e \in Device : Heard(e)' = Heard(e)
    BY <1>1 DEF Heard
  <1>9. MovesOn /\ versions' \in Seq(Content)
    <2>1. Len(versions) \in Nat /\ versions \in Seq(Content)
      BY LenProperties DEF IInv, FilesOK
    <2> QED  BY <1>1, <1>5, <1>6, <1>7, <1>8, <2>1 DEF MovesOn
  <1>10. FilesOK'
    BY <1>1, <1>4, <1>6, <1>7, <1>8 DEF IInv, FilesOK
  <1>11. DirectoryOK'
    <2>1. \A e \in Device : Seq(GoodOrder(e)) \subseteq Seq(GoodOrder(e)')
      BY <1>9, GoodOn, SeqMonotonic DEF IInv
    <2>2. q \in Seq(Orders)
      BY <1>3, OrdersAre
    <2> QED  BY <1>1, <1>3, <1>5, <1>6, <1>7, <2>1, <2>2 DEF IInv, DirectoryOK
  <1>12. CacheOK' /\ WriterOK' /\ JobsOK' /\ RequestsOK'
    BY <1>1, <1>9, SameRows, SameWriter, SameJobs, SameRequests DEF IInv
  <1> QED  BY <1>10, <1>11, <1>12 DEF IInv

LEMMA ReadFileKeeps ==
    ASSUME IInv, NEW d \in Device, ReadFile(d)
    PROVE  IInv'
  <1> DEFINE j == Head(directory[d]).job
             stage == IF disk[d] = j.hash THEN "generating" ELSE "absent"
             q == Tail(directory[d])
  <1>1. /\ directory[d] # <<>> /\ Head(directory[d]).op = "read"
        /\ directory' = [directory EXCEPT ![d] = q]
        /\ \/ j \notin jobs[d] /\ jobs' = jobs
           \/ /\ j \in jobs[d]
              /\ \E T \in SUBSET {j} :
                     jobs' = [jobs EXCEPT ![d] = (@ \ T) \cup {To(j, stage)}]
        /\ UNCHANGED <<files, rows, writer, requests>>
    BY DEF ReadFile
  <1>2. FilesOK' /\ MovesOn /\ versions' \in Seq(Content)
    BY <1>1, StaysPut
  <1>3. /\ directory[d] \in Seq(Orders) /\ directory[d] \in Seq(GoodOrder(d))
        /\ Ordered(directory[d], disk[d], Old)
    BY DEF IInv, DirectoryOK
  <1>4. q \in Seq(GoodOrder(d)) /\ Ordered(q, disk[d], Old)
    BY <1>1, <1>3, HeadTailProperties, OrderTail
  <1> HIDE DEF q
  <1>5. DirectoryOK'
    <2>1. q \in Seq(GoodOrder(d)') /\ Ordered(q, disk[d], Old')
      BY <1>2, <1>4, GoodOn, OldOn, OrderGrows, SeqMonotonic DEF IInv
    <2> QED  BY <1>1, <1>2, <2>1, NewDirectory DEF IInv, files
  <1>6. JobsOK'
    <2>1. CASE j \notin jobs[d]
      BY <1>1, <1>2, <2>1, SameJobs DEF IInv
    <2>2. CASE j \in jobs[d]
      <3>1. j \in GoodJob(d) /\ stage \in Stages \ {"done"}
            /\ (stage = "generating" => disk[d] = j.hash)
        BY <2>2 DEF IInv, JobsOK, Stages
      <3> HIDE DEF j, stage
      <3>2. To(j, stage) \in GoodJob(d)
        BY <3>1, GoodTo
      <3>3. PICK T : jobs' = [jobs EXCEPT ![d] = (@ \ T) \cup {To(j, stage)}]
        BY <1>1, <2>2
      <3>4. (jobs[d] \ T) \cup {To(j, stage)} \subseteq GoodJob(d)'
        BY <1>2, <3>2, GoodOn DEF IInv, JobsOK
      <3> QED  BY <1>2, <3>3, <3>4, NewJobs DEF IInv
    <2> QED  BY <2>1, <2>2
  <1>7. CacheOK' /\ WriterOK' /\ RequestsOK'
    BY <1>1, <1>2, SameRows, SameWriter, SameRequests DEF IInv
  <1> QED  BY <1>2, <1>5, <1>6, <1>7 DEF IInv

GoodTable(js) == js \in [Device -> SUBSET Jobs] /\ \A d \in Device : js[d] \subseteq GoodJob(d)

LEMMA TableOn ==
    ASSUME FilesOK, MovesOn, versions' \in Seq(Content), GoodTable(jobs')
    PROVE  JobsOK'
  BY GoodOn DEF GoodTable, JobsOK

LEMMA TableSet ==
    ASSUME NEW js, GoodTable(js), NEW d, NEW T, d \in Device => T \subseteq GoodJob(d)
    PROVE  GoodTable([js EXCEPT ![d] = T])
  <1>1. d \in Device => T \subseteq Jobs
    BY DEF GoodJob
  <1> QED  BY <1>1 DEF GoodTable

LEMMA DataGood ==
    ASSUME NEW js, GoodTable(js), NEW d \in Device, NEW c, NEW p \in Shown, Fits(c, p),
           Data(js, d, c, p)
    PROVE  GoodTable(jobs')
  <1> DEFINE waiting == {j \in js[d] : j.stage = "asking" /\ j.hash = c}
             T == (js[d] \ waiting) \cup {Done(j, p) : j \in waiting}
  <1>1. T \subseteq GoodJob(d)
    BY GoodDone DEF GoodTable
  <1>2. jobs' = [js EXCEPT ![d] = T]
    BY DEF Data
  <1> HIDE DEF T
  <1> QED  BY <1>1, <1>2, TableSet

LEMMA MissGood ==
    ASSUME NEW table, NEW js, GoodTable(js), NEW d \in Device, NEW m, NEW c,
           Miss(table, js, d, m, c)
    PROVE  GoodTable(jobs')
  <1>1. Missed(js[d], c) \subseteq GoodJob(d)
    BY GoodMissed DEF GoodTable
  <1>2. GoodTable([js EXCEPT ![d] = Missed(js[d], c)])
    BY <1>1, TableSet
  <1>3. jobs' = js \/ jobs' = [js EXCEPT ![d] = Missed(js[d], c)]
    BY DEF Miss
  <1> QED  BY <1>2, <1>3

\* A step of the jobs alone.
LEMMA JobsStep ==
    ASSUME IInv, GoodTable(jobs'), RequestsOK', UNCHANGED <<files, rows, writer, directory>>
    PROVE  IInv'
  <1>1. FilesOK' /\ MovesOn /\ versions' \in Seq(Content)
    BY StaysPut
  <1>2. CacheOK' /\ WriterOK' /\ DirectoryOK' /\ JobsOK'
    BY <1>1, SameRows, SameWriter, SameDirectory, TableOn DEF IInv, files
  <1> QED  BY <1>1, <1>2 DEF IInv

LEMMA SameAsked ==
    ASSUME IInv, UNCHANGED written, requests' \subseteq requests
    PROVE  RequestsOK'
  BY DEF IInv, RequestsOK

LEMMA TheTable ==
    ASSUME IInv
    PROVE  GoodTable(jobs)
  BY DEF IInv, JobsOK, GoodTable

LEMMA StartKeeps ==
    ASSUME IInv, NEW d \in Device, Start(d)
    PROVE  IInv'
  <1>1. PICK j \in jobs[d], stage \in {"reading", "absent"} :
            /\ jobs' = [jobs EXCEPT ![d] = (@ \ {j}) \cup {To(j, stage)}]
            /\ \/ UNCHANGED directory
               \/ directory' = [directory EXCEPT ![d] =
                                    Append(@, [op |-> "read", job |-> To(j, "reading")])]
    BY DEF Start
  <1>2. UNCHANGED <<files, rows, writer, requests>>
    BY DEF Start
  <1>3. FilesOK' /\ MovesOn /\ versions' \in Seq(Content)
    BY <1>2, StaysPut
  <1>4. j \in GoodJob(d) /\ j \in Jobs /\ stage \in Stages \ {"done"} /\ stage # "generating"
    BY DEF IInv, JobsOK, GoodJob, Stages
  <1>5. JobsOK'
    <2>1. To(j, stage) \in GoodJob(d)
      BY <1>4, GoodTo
    <2>2. (jobs[d] \ {j}) \cup {To(j, stage)} \subseteq GoodJob(d)
      BY <2>1 DEF IInv, JobsOK
    <2>3. jobs' = [jobs EXCEPT ![d] = (jobs[d] \ {j}) \cup {To(j, stage)}]
      BY <1>1
    <2> QED  BY <1>3, <2>2, <2>3, TheTable, TableSet, TableOn DEF IInv
  <1>6. DirectoryOK'
    <2>1. To(j, "reading") \in Jobs
      BY <1>4, ToParts DEF Stages
    <2>2. CASE UNCHANGED directory
      BY <1>2, <1>3, <2>2, SameDirectory DEF IInv, files
    <2>3. CASE directory' = [directory EXCEPT ![d] =
                                Append(@, [op |-> "read", job |-> To(j, "reading")])]
      BY <1>2, <1>3, <2>1, <2>3, ReadOrdered DEF IInv
    <2> QED  BY <1>1, <2>2, <2>3
  <1>7. CacheOK' /\ WriterOK' /\ RequestsOK'
    BY <1>2, <1>3, SameRows, SameWriter, SameRequests DEF IInv
  <1> QED  BY <1>3, <1>5, <1>6, <1>7 DEF IInv

\* What a job renders: either what it was to render, or something else for a hash
\* the file has moved on from.
LEMMA RenderFits ==
    ASSUME IInv, NEW d \in Device, NEW j \in jobs[d], j.stage = "generating"
    PROVE  Generate(disk[d]) \in Shown /\ Fits(j.hash, Generate(disk[d]))
  <1>1. j \in GoodJob(d)
    BY DEF IInv, JobsOK
  <1>2. j.hash \in Range(written) /\ (disk[d] = j.hash \/ Superseded(j.hash))
    BY <1>1 DEF GoodJob
  <1>3. disk[d] \in Content \cup {Missing}
    BY DEF IInv, FilesOK
  <1> QED  BY <1>2, <1>3, PreviewsAssumption DEF Fits, Superseded, Generate, Shown

LEMMA RenderKeeps ==
    ASSUME IInv, NEW d \in Device, Render(d)
    PROVE  IInv'
  <1> DEFINE shown == Generate(disk[d])
  <1>1. PICK j \in jobs[d] :
            /\ j.stage = "generating"
            /\ \/ jobs' = [jobs EXCEPT ![d] = (@ \ {j}) \cup {To(j, "absent")}]
               \/ /\ j.who \in Device
                  /\ Data([jobs EXCEPT ![d] = @ \ {j}], j.who, j.hash, shown)
               \/ jobs' = [jobs EXCEPT ![d] = (@ \ {j}) \cup {Done(j, shown)}]
    BY DEF Render
  <1>2. UNCHANGED <<files, rows, writer, directory, requests>>
    BY DEF Render
  <1>3. shown \in Shown /\ Fits(j.hash, shown)
    BY <1>1, RenderFits
  <1> HIDE DEF shown
  <1>4. j \in GoodJob(d) /\ jobs[d] \subseteq GoodJob(d)
    BY DEF IInv, JobsOK
  <1>5. GoodTable(jobs')
    <2>1. CASE jobs' = [jobs EXCEPT ![d] = (@ \ {j}) \cup {To(j, "absent")}]
      <3>1. (jobs[d] \ {j}) \cup {To(j, "absent")} \subseteq GoodJob(d)
        BY <1>4, GoodTo DEF Stages
      <3> QED  BY <2>1, <3>1, TheTable, TableSet
    <2>2. CASE j.who \in Device /\ Data([jobs EXCEPT ![d] = @ \ {j}], j.who, j.hash, shown)
      <3>1. GoodTable([jobs EXCEPT ![d] = jobs[d] \ {j}])
        BY <1>4, TheTable, TableSet
      <3> QED  BY <1>3, <2>2, <3>1, DataGood
    <2>3. CASE jobs' = [jobs EXCEPT ![d] = (@ \ {j}) \cup {Done(j, shown)}]
      <3>1. (jobs[d] \ {j}) \cup {Done(j, shown)} \subseteq GoodJob(d)
        BY <1>3, <1>4, GoodDone
      <3> QED  BY <2>3, <3>1, TheTable, TableSet
    <2> QED  BY <1>1, <2>1, <2>2, <2>3
  <1>6. RequestsOK'
    BY <1>2, SameAsked DEF files
  <1> QED  BY <1>2, <1>5, <1>6, JobsStep

LEMMA AskPeersKeeps ==
    ASSUME IInv, NEW d \in Device, AskPeers(d)
    PROVE  IInv'
  <1>1. PICK j \in Own(d), up \in SUBSET (Device \ {d}) :
            LET to == IF pending[d][j.hash] = {} THEN up ELSE {}
            IN  /\ jobs' = [jobs EXCEPT ![d] = (@ \ {j}) \cup
                                {IF up = {} THEN Done(j, Missing) ELSE To(j, "asking")}]
                /\ requests' = requests \cup {<<d, e, j.hash>> : e \in to}
                /\ UNCHANGED <<files, rows, writer, directory>>
    BY DEF AskPeers
  <1> DEFINE new == IF up = {} THEN Done(j, Missing) ELSE To(j, "asking")
  <1>2. j \in GoodJob(d) /\ jobs[d] \subseteq GoodJob(d)
    BY DEF IInv, JobsOK, Own
  <1>3. new \in GoodJob(d)
    <2>1. To(j, "asking") \in GoodJob(d)
      BY <1>2, GoodTo DEF Stages
    <2>2. Done(j, Missing) \in GoodJob(d)
      BY <1>2, GoodDone DEF Fits, Shown
    <2> QED  BY <2>1, <2>2
  <1>4. jobs' = [jobs EXCEPT ![d] = (jobs[d] \ {j}) \cup {new}]
    BY <1>1
  <1> HIDE DEF new
  <1>5. GoodTable(jobs')
    <2>1. (jobs[d] \ {j}) \cup {new} \subseteq GoodJob(d)
      BY <1>2, <1>3
    <2> QED  BY <1>4, <2>1, TheTable, TableSet
  <1>6. RequestsOK'
    <2>1. j.hash \in Range(written) /\ written' = written
      BY <1>1, <1>2 DEF GoodJob, files
    <2> QED  BY <1>1, <2>1 DEF IInv, RequestsOK
  <1> QED  BY <1>1, <1>5, <1>6, JobsStep

LEMMA ServeKeeps ==
    ASSUME IInv, NEW m \in Device, Serve(m)
    PROVE  IInv'
  <1>1. PICK r \in requests :
            LET d == r[1]  c == r[3]  reading == Job(d, c, "reading")
            IN  /\ requests' = requests \ {r}
                /\ \/ Data(jobs, d, c, rows[m][c]) /\ UNCHANGED directory
                   \/ /\ jobs' = [jobs EXCEPT ![m] = @ \cup {reading}]
                      /\ directory' = [directory EXCEPT ![m] =
                                           Append(@, [op |-> "read", job |-> reading])]
                   \/ Miss(pending, jobs, d, m, c) /\ UNCHANGED directory
    BY DEF Serve
  <1> DEFINE d == r[1]  c == r[3]  reading == Job(d, c, "reading")
  <1>2. UNCHANGED <<files, rows, writer>>
    BY DEF Serve
  <1>3. d \in Device /\ c \in Range(written) /\ c \in Content
    BY RangeOfSeq DEF IInv, RequestsOK, FilesOK
  <1>4. RequestsOK'
    BY <1>1, <1>2, SameAsked DEF files
  <1>5. reading \in Jobs /\ reading.hash = c /\ reading.stage = "reading"
    <2>1. d \in Asker /\ "reading" \in Stages
      BY <1>3 DEF Asker, Stages
    <2> HIDE DEF d, c
    <2> QED  BY <1>3, <2>1, JobParts
  <1>6. \/ Data(jobs, d, c, rows[m][c]) /\ UNCHANGED directory
        \/ /\ jobs' = [jobs EXCEPT ![m] = @ \cup {reading}]
           /\ directory' = [directory EXCEPT ![m] =
                                Append(@, [op |-> "read", job |-> reading])]
        \/ Miss(pending, jobs, d, m, c) /\ UNCHANGED directory
    BY <1>1
  <1> HIDE DEF d, c, reading
  <1>7. CASE Data(jobs, d, c, rows[m][c]) /\ UNCHANGED directory
    <2>1. rows[m][c] \in Shown /\ Fits(c, rows[m][c])
      BY <1>3 DEF IInv, CacheOK
    <2>2. GoodTable(jobs')
      BY <1>3, <1>7, <2>1, TheTable, DataGood
    <2> QED  BY <1>2, <1>4, <1>7, <2>2, JobsStep
  <1>8. CASE /\ jobs' = [jobs EXCEPT ![m] = @ \cup {reading}]
             /\ directory' = [directory EXCEPT ![m] =
                                  Append(@, [op |-> "read", job |-> reading])]
    <2>1. FilesOK' /\ MovesOn /\ versions' \in Seq(Content)
      BY <1>2, StaysPut
    <2>2. DirectoryOK'
      BY <1>2, <1>5, <1>8, <2>1, ReadOrdered DEF IInv
    <2>3. JobsOK'
      <3>1. reading \in GoodJob(m)
        BY <1>3, <1>5 DEF GoodJob
      <3>2. jobs[m] \cup {reading} \subseteq GoodJob(m)
        BY <3>1 DEF IInv, JobsOK
      <3> QED  BY <1>8, <2>1, <3>2, TheTable, TableSet, TableOn DEF IInv
    <2>4. CacheOK' /\ WriterOK'
      BY <1>2, <2>1, SameRows, SameWriter DEF IInv
    <2> QED  BY <1>4, <2>1, <2>2, <2>3, <2>4 DEF IInv
  <1>9. CASE Miss(pending, jobs, d, m, c) /\ UNCHANGED directory
    <2>1. GoodTable(jobs')
      BY <1>3, <1>9, TheTable, MissGood
    <2> QED  BY <1>2, <1>4, <1>9, <2>1, JobsStep
  <1> QED  BY <1>6, <1>7, <1>8, <1>9

LEMMA DeclineKeeps ==
    ASSUME IInv, NEW m \in Device, Decline(m)
    PROVE  IInv'
  <1>1. PICK j \in jobs[m] \ Own(m) :
            Miss(pending, [jobs EXCEPT ![m] = @ \ {j}], j.who, m, j.hash)
    BY DEF Decline
  <1>2. UNCHANGED <<files, rows, writer, directory, requests>>
    BY DEF Decline
  <1>3. j.who \in Device
    BY DEF Own
  <1>4. GoodTable([jobs EXCEPT ![m] = jobs[m] \ {j}])
    <2>1. jobs[m] \ {j} \subseteq GoodJob(m)
      BY DEF IInv, JobsOK
    <2> QED  BY <2>1, TheTable, TableSet
  <1>5. GoodTable(jobs')
    BY <1>1, <1>3, <1>4, MissGood
  <1> QED  BY <1>2, <1>5, SameAsked, JobsStep DEF files

LEMMA GiveUpKeeps ==
    ASSUME IInv, NEW d \in Device, GiveUp(d)
    PROVE  IInv'
  <1>1. PICK c \in Content : jobs' = [jobs EXCEPT ![d] = Missed(@, c)]
    BY DEF GiveUp
  <1>2. UNCHANGED <<files, rows, writer, directory, requests>>
    BY DEF GiveUp
  <1>3. Missed(jobs[d], c) \subseteq GoodJob(d)
    BY GoodMissed DEF IInv, JobsOK
  <1>4. GoodTable(jobs')
    BY <1>1, <1>3, TheTable, TableSet
  <1> QED  BY <1>2, <1>4, SameAsked, JobsStep DEF files

LEMMA FinishKeeps ==
    ASSUME IInv, NEW d \in Device, Finish(d)
    PROVE  IInv'
  <1>1. PICK j \in jobs[d] : /\ j.stage = "done"
                             /\ jobs' = [jobs EXCEPT ![d] = @ \ {j}]
                             /\ writer' = [writer EXCEPT ![d] = Append(@, Apply(j))]
    BY DEF Finish
  <1>2. UNCHANGED <<files, rows, directory, requests>>
    BY DEF Finish
  <1>3. FilesOK' /\ MovesOn /\ versions' \in Seq(Content)
    BY <1>2, StaysPut
  <1>4. Apply(j) \in GoodCommand(d)
    <2>1. j \in Jobs /\ Fits(j.hash, j.result)
      BY <1>1 DEF IInv, JobsOK, GoodJob
    <2> QED  BY <2>1 DEF Apply, GoodCommand, Commands
  <1>5. WriterOK'
    <2>1. Apply(j) \in GoodCommand(d)'
      BY <1>3, <1>4, GoodOn DEF IInv
    <2> QED  BY <1>1, <1>3, <2>1, Queued DEF IInv
  <1>6. JobsOK'
    <2>1. jobs[d] \ {j} \subseteq GoodJob(d)
      BY DEF IInv, JobsOK
    <2> QED  BY <1>1, <1>3, <2>1, TheTable, TableSet, TableOn DEF IInv
  <1>7. CacheOK' /\ DirectoryOK' /\ RequestsOK'
    BY <1>2, <1>3, SameRows, SameDirectory, SameRequests DEF IInv, files
  <1> QED  BY <1>3, <1>5, <1>6, <1>7 DEF IInv

-----------------------------------------------------------------------------
LEMMA RestartKeeps ==
    ASSUME IInv, NEW d \in Device, Restart(d)
    PROVE  IInv'
  <1> DEFINE changed == d = Author /\ disk[d] # Latest(d)
             Alone(e) == {c \in Content : pending[e][c] = {d}}
             first == IF changed THEN <<[op |-> "changed", version |-> Len(versions')]>>
                      ELSE IF disk[d] = Latest(d) THEN Warm(d) ELSE <<>>
             Woken(e) == {IF j.stage = "asking" /\ j.hash \in Alone(e)
                          THEN Done(j, Missing) ELSE j : j \in jobs[e]}
  <1>1. /\ directory' = [directory EXCEPT ![d] = <<>>]
        /\ versions' = IF changed THEN Append(versions, disk[d]) ELSE versions
        /\ writer' = [writer EXCEPT ![d] = first]
        /\ requests' \subseteq requests
        /\ jobs' = [e \in Device |-> IF e = d THEN {} ELSE Woken(e)]
        /\ UNCHANGED <<written, disk, latest, rows>>
    BY DEF Restart
  <1>2. /\ FilesOK' /\ MovesOn /\ versions' \in Seq(Content)
        /\ changed => Len(versions') \in 1..Len(versions')
    <2>1. CASE changed
      BY <1>1, <2>1, Announcing
    <2>2. CASE ~changed
      <3>1. versions' = versions
        BY <1>1, <2>2
      <3> HIDE DEF changed
      <3> QED  BY <1>1, <2>2, <3>1
               DEF IInv, FilesOK, MovesOn, Superseded, Heard, Old
    <2> QED  BY <2>1, <2>2
  <1>3. first \in Seq(GoodCommand(d)')
    <2>1. ASSUME changed
          PROVE  [op |-> "changed", version |-> Len(versions')] \in GoodCommand(d)'
      <3> DEFINE k == [op |-> "changed", version |-> Len(versions')]
      <3>1. Len(versions') \in Nat /\ d = Author
        BY <1>2, <2>1, LenProperties
      <3>2. k \in Commands /\ k.op = "changed" /\ k.version = Len(versions')
        BY <3>1 DEF Commands
      <3> QED  BY <1>2, <2>1, <3>1, <3>2 DEF GoodCommand
    <2> HIDE DEF changed
    <2> QED  BY <2>1, WarmOK, EmptySeq
  <1> HIDE DEF first
  <1>4. WriterOK'
    BY <1>1, <1>2, <1>3, NewWriter DEF IInv
  <1>5. DirectoryOK'
    <2>1. <<>> \in Seq(GoodOrder(d)') /\ Ordered(<<>>, disk[d], Old')
      BY EmptySeq, OrderNone
    <2> QED  BY <1>1, <1>2, <2>1, NewDirectory DEF IInv
  <1>6. JobsOK'
    <2>1. \A e \in Device : Woken(e) \subseteq GoodJob(e)
      BY GoodDone DEF IInv, JobsOK, Fits, Shown
    <2>2. \A e \in Device : GoodJob(e) \subseteq Jobs
      BY DEF GoodJob
    <2> HIDE DEF Woken
    <2>3. GoodTable(jobs')
      BY <1>1, <2>1, <2>2 DEF GoodTable
    <2> QED  BY <1>2, <2>3, TableOn DEF IInv
  <1>7. CacheOK' /\ RequestsOK'
    BY <1>1, <1>2, SameRows, SameRequests DEF IInv
  <1> QED  BY <1>2, <1>4, <1>5, <1>6, <1>7 DEF IInv

-----------------------------------------------------------------------------
LEMMA NextKeeps ==
    ASSUME IInv, [Next]_vars, Reuse = FALSE
    PROVE  IInv'
  <1>1. CASE UNCHANGED vars
    <2>1. UNCHANGED <<files, rows, writer, directory, jobs, requests>>
      BY <1>1 DEF vars, tasks
    <2> QED  BY <2>1, TheTable, SameAsked, JobsStep DEF files
  <1>2. CASE Edit
    BY <1>2, EditKeeps
  <1>3. CASE Notice
    BY <1>3, NoticeKeeps
  <1>4. CASE \E d, e \in Device : Announce(d, e)
    BY <1>4, AnnounceKeeps
  <1>5. ASSUME NEW d \in Device, Land(d) \/ GetPreview(d) \/ PurgePreviews(d)
        PROVE  IInv'
    BY <1>5, LandKeeps, GetPreviewKeeps, PurgePreviewsKeeps
  <1>6. ASSUME NEW d \in Device, Write(d)
        PROVE  IInv'
    BY <1>6, ChangeKeeps, LearnKeeps, MaterializeKeeps, ResolveKeeps, ApplyPreviewKeeps,
       PurgeKeeps DEF Write
  <1>7. ASSUME NEW d \in Device, Directory(d)
        PROVE  IInv'
    BY <1>7, PlaceKeeps, ReadFileKeeps DEF Directory
  <1>8. ASSUME NEW d \in Device, Work(d)
        PROVE  IInv'
    BY <1>8, StartKeeps, RenderKeeps, AskPeersKeeps, ServeKeeps, DeclineKeeps, FinishKeeps
       DEF Work
  <1>9. ASSUME NEW d \in Device, GiveUp(d) \/ Restart(d)
        PROVE  IInv'
    BY <1>9, GiveUpKeeps, RestartKeeps
  <1> QED  BY <1>1, <1>2, <1>3, <1>4, <1>5, <1>6, <1>7, <1>8, <1>9 DEF Next

\* No device has a preview of other bytes for the file as it is, if its user goes
\* back to no earlier content (store/previews.rs).
THEOREM PreviewsAreFresh ==
    ASSUME Reuse = FALSE
    PROVE  Spec => []NoStalePreview
  <1>1. Init => IInv
    BY Starts
  <1>2. IInv /\ [Next]_vars => IInv'
    BY NextKeeps
  <1>3. IInv => NoStalePreview
    <2> SUFFICES ASSUME IInv, NEW d \in Device
                 PROVE  rows[d][disk[Author]] \in {Missing, Generate(disk[Author])}
      BY DEF NoStalePreview
    <2>1. disk[Author] \in Content
      BY RangeOfSeq DEF IInv, FilesOK
    <2>2. Fits(disk[Author], rows[d][disk[Author]])
      BY <2>1 DEF IInv, CacheOK
    <2> QED  BY <2>2 DEF Fits
  <1> QED  BY <1>1, <1>2, <1>3, PTL DEF Spec

-----------------------------------------------------------------------------
(***************************************************************************)
(* Nobody who waits for a preview is forgotten.  Nothing is assumed of the *)
(* user here, so the types are stated again without what the file moved on *)
(* from.                                                                   *)
(*                                                                         *)
(* Who is struck off the list of those asked has answered, or the wait     *)
(* ends with it: whoever is on the list has the request on its way or a    *)
(* job for it, and a job that asks has somebody on its list.               *)
(***************************************************************************)

\* A device reads and renders for others, and asks nobody for them.
TypedJob == {j \in Jobs : j.who \in Device => j.stage \in {"reading", "generating", "absent"}}

TypedCommand ==
    {k \in Commands : /\ k.op \in {"changed", "learned"} => k.version \in 1..Len(versions)
                      /\ k.op = "preview" => k.who \notin Device}

Typed ==
    /\ versions \in Seq(Content)
    /\ latest \in [Device -> Nat] /\ \A d \in Device : latest[d] \in 1..Len(versions)
    /\ disk \in [Device -> Content \cup {Missing}] /\ disk[Author] \in Content
    /\ rows \in [Device -> [Content -> Shown]]
    /\ writer \in [Device -> Seq(TypedCommand)]
    /\ directory \in [Device -> Seq(Orders)]
    /\ jobs \in [Device -> SUBSET TypedJob]
    /\ pending \in [Device -> [Content -> SUBSET Device]]
    /\ requests \subseteq Device \X Device \X Content
    /\ client \in [Device -> {"idle", "asked"}]

AtWork(m, d, c) == <<d, m, c>> \in requests \/ \E j \in jobs[m] : j.who = d /\ j.hash = c

Asks(js, c) == \E j \in js : j.stage = "asking" /\ j.hash = c

AsksOK == \A d \in Device, c \in Content :
              /\ \A m \in pending[d][c] : AtWork(m, d, c)
              /\ Asks(jobs[d], c) => pending[d][c] # {}

ReadOrder(j) == [op |-> "read", job |-> j]

ReadsOK == \A d \in Device : \A j \in jobs[d] :
               j.stage = "reading" => ReadOrder(j) \in Range(directory[d])

ClientsOK == \A d \in Device : client[d] = "asked" => Carried(d, "client")

Tended == AsksOK /\ ReadsOK /\ ClientsOK

(***************************************************************************)
(* Sequences.                                                              *)
(***************************************************************************)
LEMMA RangeAppend ==
    ASSUME NEW S, NEW q \in Seq(S), NEW x \in S
    PROVE  Range(Append(q, x)) = Range(q) \cup {x}
  <1>1. PICK one : one = <<x>>
    OBVIOUS
  <1>2. one \in Seq(S) /\ Append(q, x) = q \o one
    BY <1>1, AppendIsConcat
  <1>3. Range(one) = {x}
    BY <1>1 DEF Range
  <1>4. Range(q \o one) = Range(q) \cup Range(one)
    BY <1>2, RangeConcatenation
  <1> QED  BY <1>2, <1>3, <1>4

LEMMA RangeTail ==
    ASSUME NEW S, NEW q \in Seq(S), q # <<>>
    PROVE  \A x \in Range(q) : x = Head(q) \/ x \in Range(Tail(q))
  <1>1. Head(q) \in S /\ Tail(q) \in Seq(S)
    BY HeadTailProperties
  <1>2. /\ Len(Tail(q)) = Len(q) - 1 /\ Len(q) \in Nat /\ Len(q) > 0 /\ Head(q) = q[1]
        /\ \A i \in 1..Len(Tail(q)) : Tail(q)[i] = q[i + 1]
    BY HeadTailProperties, LenProperties, EmptySeq
  <1>3. /\ Range(q) = {q[i] : i \in 1..Len(q)}
        /\ Range(Tail(q)) = {Tail(q)[i] : i \in 1..Len(Tail(q))}
    BY <1>1, RangeEquality
  <1>4. ASSUME NEW i \in 1..Len(q)
        PROVE  q[i] = Head(q) \/ q[i] \in Range(Tail(q))
    <2>1. CASE i = 1
      BY <1>2, <2>1
    <2>2. CASE i # 1
      <3>1. i - 1 \in 1..Len(Tail(q)) /\ (i - 1) + 1 = i
        BY <1>2, <2>2
      <3>2. Tail(q)[i - 1] = q[i]
        BY <1>2, <3>1
      <3> QED  BY <1>3, <3>1, <3>2
    <2> QED  BY <2>1, <2>2
  <1> QED  BY <1>3, <1>4

(***************************************************************************)
(* The inbox of the writer.                                                *)
(***************************************************************************)
LEMMA TypedGrows ==
    ASSUME Typed, versions' \in Seq(Content), Len(versions) <= Len(versions')
    PROVE  /\ TypedCommand \subseteq TypedCommand'
           /\ Seq(TypedCommand) \subseteq Seq(TypedCommand')
           /\ \A d \in Device : latest[d] \in 1..Len(versions')
  <1>1. Len(versions) \in Nat /\ Len(versions') \in Nat
    BY LenProperties DEF Typed
  <1>2. 1..Len(versions) \subseteq 1..Len(versions')
    BY <1>1
  <1>3. TypedCommand \subseteq TypedCommand'
    BY <1>2 DEF TypedCommand
  <1> QED  BY <1>2, <1>3, SeqMonotonic DEF Typed

LEMMA TypedLatest ==
    ASSUME Typed, NEW d \in Device
    PROVE  Latest(d) \in Content
  BY ElementOfSeq DEF Typed, Latest

LEMMA TypedPreview ==
    /\ Preview("client") \in TypedCommand /\ Preview("cache") \in TypedCommand
    /\ \A d : Warm(d) \in Seq(TypedCommand)
  <1>1. Preview("client") \in TypedCommand /\ Preview("cache") \in TypedCommand
    BY PreviewsAssumption DEF Preview, TypedCommand, Commands, Asker
  <1> QED  BY <1>1 DEF Warm

\* The head is taken, all else stays, and more may come.
LEMMA Taken ==
    ASSUME Typed, NEW d \in Device, NEW op, NEW more \in Seq(TypedCommand),
           Take(d, op, more)
    PROVE  /\ writer' \in [Device -> Seq(TypedCommand)]
           /\ Head(writer[d]) \in TypedCommand /\ Head(writer[d]).op = op
           /\ \A e \in Device : \A k \in Range(writer[e]) :
                  (e = d /\ k = Head(writer[d])) \/ k \in Range(writer'[e])
  <1>1. writer[d] \in Seq(TypedCommand) /\ writer[d] # <<>> /\ Head(writer[d]).op = op
    BY DEF Typed, Take
  <1>2. Head(writer[d]) \in TypedCommand /\ Tail(writer[d]) \in Seq(TypedCommand)
    BY <1>1, HeadTailProperties
  <1>3. Tail(writer[d]) \o more \in Seq(TypedCommand)
    BY <1>2, ConcatProperties
  <1>4. writer' = [writer EXCEPT ![d] = Tail(writer[d]) \o more]
    BY DEF Take
  <1>5. /\ writer'[d] = Tail(writer[d]) \o more
        /\ \A e \in Device \ {d} : writer'[e] = writer[e]
        /\ writer' \in [Device -> Seq(TypedCommand)]
    BY <1>3, <1>4 DEF Typed
  <1>6. \A k \in Range(writer[d]) : k = Head(writer[d]) \/ k \in Range(writer'[d])
    <2>1. PICK q \in Seq(TypedCommand) : q = Tail(writer[d])
      BY <1>2
    <2>2. Range(q \o more) = Range(q) \cup Range(more)
      BY ONLY RangeConcatenation, q \in Seq(TypedCommand), more \in Seq(TypedCommand)
    <2>3. \A k \in Range(writer[d]) : k = Head(writer[d]) \/ k \in Range(q)
      BY <1>1, <2>1, RangeTail
    <2> QED  BY <1>5, <2>1, <2>2, <2>3
  <1> QED  BY <1>1, <1>2, <1>5, <1>6

LEMMA Sent ==
    ASSUME Typed, NEW S, Seq(TypedCommand) \subseteq Seq(S), NEW d \in Device, NEW k \in S,
           writer' = [writer EXCEPT ![d] = Append(@, k)]
    PROVE  /\ writer' \in [Device -> Seq(S)]
           /\ \A e \in Device : Range(writer[e]) \subseteq Range(writer'[e])
           /\ k \in Range(writer'[d])
  <1>1. writer[d] \in Seq(S) /\ writer \in [Device -> Seq(S)]
    BY DEF Typed
  <1>2. /\ Append(writer[d], k) \in Seq(S)
        /\ Range(Append(writer[d], k)) = Range(writer[d]) \cup {k}
    BY <1>1, AppendProperties, RangeAppend
  <1> QED  BY <1>1, <1>2

(***************************************************************************)
(* What happens to jobs.                                                   *)
(***************************************************************************)
\* Jobs go on for whom and what they were; none of them starts to read or to ask.
Passed(T, U) == /\ \A j \in T : \E k \in U : k.who = j.who /\ k.hash = j.hash
                /\ \A k \in U : k.stage \in {"reading", "asking"} => k \in T

LEMMA PassedSelf ==
    ASSUME NEW T
    PROVE  Passed(T, T)
  BY DEF Passed

LEMMA TypedDone ==
    ASSUME NEW j \in TypedJob, j.who \notin Device, NEW p \in Shown
    PROVE  /\ Done(j, p) \in TypedJob /\ Done(j, p).who = j.who /\ Done(j, p).hash = j.hash
           /\ Done(j, p).stage = "done"
  BY DEF Done, TypedJob, Jobs, Stages

LEMMA TypedTo ==
    ASSUME NEW j \in TypedJob, NEW stage \in Stages,
           j.who \in Device => stage \in {"reading", "generating", "absent"}
    PROVE  /\ To(j, stage) \in TypedJob /\ To(j, stage).who = j.who
           /\ To(j, stage).hash = j.hash /\ To(j, stage).stage = stage
  BY DEF To, TypedJob, Jobs, Stages

\* The waits of d for c are over.
LEMMA MissedPasses ==
    ASSUME NEW T, T \subseteq TypedJob, NEW c
    PROVE  Missed(T, c) \subseteq TypedJob /\ Passed(T, Missed(T, c)) /\ ~Asks(Missed(T, c), c)
  <1> DEFINE next(j) == IF j.stage = "asking" /\ j.hash = c THEN Done(j, Missing) ELSE j
  <1>1. ASSUME NEW j \in T
        PROVE  /\ next(j) \in TypedJob /\ next(j).who = j.who /\ next(j).hash = j.hash
               /\ next(j).stage \in {"reading", "asking"} => next(j) = j
               /\ ~(next(j).stage = "asking" /\ next(j).hash = c)
    <2>1. CASE j.stage = "asking" /\ j.hash = c
      <3>1. j.who \notin Device /\ Missing \in Shown
        BY <2>1 DEF TypedJob, Shown
      <3> QED  BY <2>1, <3>1, TypedDone
    <2>2. CASE ~(j.stage = "asking" /\ j.hash = c)
      BY <2>2
    <2> QED  BY <2>1, <2>2
  <1>2. Missed(T, c) = {next(j) : j \in T}
    BY DEF Missed
  <1> HIDE DEF next
  <1> QED  BY <1>1, <1>2 DEF Passed, Asks

LEMMA DataPasses ==
    ASSUME NEW js \in [Device -> SUBSET TypedJob], NEW d \in Device, NEW c, NEW p \in Shown,
           Data(js, d, c, p)
    PROVE  /\ jobs' \in [Device -> SUBSET TypedJob]
           /\ \A e \in Device : Passed(js[e], jobs'[e])
           /\ ~Asks(jobs'[d], c)
  <1> DEFINE waiting == {j \in js[d] : j.stage = "asking" /\ j.hash = c}
             T == (js[d] \ waiting) \cup {Done(j, p) : j \in waiting}
  <1>1. \A j \in waiting : /\ Done(j, p) \in TypedJob /\ Done(j, p).who = j.who
                           /\ Done(j, p).hash = j.hash /\ Done(j, p).stage = "done"
    <2>1. \A j \in waiting : j \in TypedJob /\ j.who \notin Device
      BY DEF TypedJob
    <2> HIDE DEF waiting
    <2> QED  BY <2>1, TypedDone
  <1>2. T \subseteq TypedJob
    BY <1>1
  <1>3. Passed(js[d], T)
    BY <1>1 DEF Passed
  <1>4. ~Asks(T, c)
    BY <1>1 DEF Asks
  <1>5. jobs' = [js EXCEPT ![d] = T]
    BY DEF Data
  <1> HIDE DEF T, waiting
  <1>6. jobs'[d] = T /\ \A e \in Device \ {d} : jobs'[e] = js[e]
    BY <1>5
  <1>7. jobs' \in [Device -> SUBSET TypedJob]
    BY <1>2, <1>5
  <1> QED  BY <1>3, <1>4, <1>6, <1>7, PassedSelf

LEMMA MissPasses ==
    ASSUME NEW js \in [Device -> SUBSET TypedJob], NEW d \in Device, NEW m, NEW c \in Content,
           Asks(js[d], c) => pending[d][c] # {},
           Miss(pending, js, d, m, c)
    PROVE  /\ jobs' \in [Device -> SUBSET TypedJob]
           /\ \A e \in Device : Passed(js[e], jobs'[e])
           /\ pending[d][c] \ {m} = {} => ~Asks(jobs'[d], c)
  <1> DEFINE T == Missed(js[d], c)
  <1>1. T \subseteq TypedJob /\ Passed(js[d], T) /\ ~Asks(T, c)
    BY MissedPasses
  <1>2. jobs' = IF pending[d][c] = {m} THEN [js EXCEPT ![d] = T] ELSE js
    BY DEF Miss
  <1> HIDE DEF T
  <1>3. CASE pending[d][c] = {m}
    <2>1. /\ jobs' = [js EXCEPT ![d] = T] /\ jobs'[d] = T
          /\ \A e \in Device \ {d} : jobs'[e] = js[e]
      BY <1>2, <1>3
    <2>2. jobs' \in [Device -> SUBSET TypedJob]
      BY <1>1, <2>1
    <2> QED  BY <1>1, <2>1, <2>2, PassedSelf
  <1>4. CASE pending[d][c] # {m}
    <2>1. pending[d][c] \ {m} = {} => pending[d][c] = {}
      BY <1>4
    <2> QED  BY <1>2, <1>4, <2>1, PassedSelf
  <1> QED  BY <1>3, <1>4

\* Those of G are struck off the list of those d asked for c, and whatever was
\* on its way or at work for them may be gone.
LEMMA StruckOff ==
    ASSUME Typed, Tended, NEW d \in Device, NEW c \in Content, NEW G,
           NEW js \in [Device -> SUBSET TypedJob],
           \A e \in Device : /\ js[e] \subseteq jobs[e]
                             /\ \A j \in jobs[e] : \/ j \in js[e]
                                                   \/ e \in G /\ j.who = d /\ j.hash = c,
           requests' \subseteq requests,
           \A r \in requests : r \in requests' \/ (r[1] = d /\ r[2] \in G /\ r[3] = c),
           pending' = [pending EXCEPT ![d][c] = @ \ G],
           jobs' \in [Device -> SUBSET TypedJob],
           \A e \in Device : Passed(js[e], jobs'[e]),
           pending[d][c] \ G = {} => ~Asks(jobs'[d], c),
           UNCHANGED <<files, rows, client, writer, directory>>
    PROVE  Typed' /\ Tended'
  <1>1. /\ pending' \in [Device -> [Content -> SUBSET Device]]
        /\ pending'[d][c] = pending[d][c] \ G
        /\ \A e \in Device, x \in Content :
               <<e, x>> # <<d, c>> => pending'[e][x] = pending[e][x]
    BY DEF Typed
  <1>2. Typed'
    BY <1>1 DEF Typed, files, TypedCommand
  <1>3. ASSUME NEW e \in Device, NEW j \in jobs[e], ~(e \in G /\ j.who = d /\ j.hash = c)
        PROVE  \E k \in jobs'[e] : k.who = j.who /\ k.hash = j.hash
    BY <1>3 DEF Passed
  <1>4. \A e \in Device : \A k \in jobs'[e] :
            k.stage \in {"reading", "asking"} => k \in jobs[e]
    BY DEF Passed
  <1>5. ASSUME NEW e \in Device, NEW x \in Content, NEW m \in pending'[e][x]
        PROVE  AtWork(m, e, x)'
    <2>1. /\ m \in Device /\ m \in pending[e][x]
          /\ ~(m \in G /\ e = d /\ x = c)
      BY <1>1
    <2>2. AtWork(m, e, x)
      BY <2>1 DEF Tended, AsksOK
    <2>3. CASE <<e, m, x>> \in requests
      BY <2>1, <2>3 DEF AtWork
    <2>4. CASE \E j \in jobs[m] : j.who = e /\ j.hash = x
      BY <1>3, <2>1, <2>4 DEF AtWork
    <2> QED  BY <2>2, <2>3, <2>4 DEF AtWork
  <1>6. ASSUME NEW e \in Device, NEW x \in Content, Asks(jobs'[e], x)
        PROVE  pending'[e][x] # {}
    <2>1. Asks(jobs[e], x)
      BY <1>4, <1>6 DEF Asks
    <2>2. pending[e][x] # {}
      BY <2>1 DEF Tended, AsksOK
    <2> QED  BY <1>1, <1>6, <2>2
  <1>7. AsksOK'
    BY <1>5, <1>6 DEF AsksOK
  <1>8. ReadsOK'
    BY <1>4 DEF Tended, ReadsOK
  <1>9. ClientsOK'
    <2>1. "client" \notin Device
      BY PreviewsAssumption
    <2>2. \A e \in Device : Carried(e, "client") => Carried(e, "client")'
      BY <1>3, <2>1 DEF Carried
    <2> QED  BY <2>2 DEF Tended, ClientsOK
  <1> QED  BY <1>2, <1>7, <1>8, <1>9 DEF Tended

\* A job goes on, and nobody is asked for it.
LEMMA GoesOn ==
    ASSUME Typed, Tended, NEW d \in Device, NEW j \in jobs[d], NEW k \in TypedJob,
           k.who = j.who, k.hash = j.hash, k.stage # "asking", NEW over \in SUBSET {j},
           jobs' = [jobs EXCEPT ![d] = (@ \ over) \cup {k}],
           directory' \in [Device -> Seq(Orders)],
           k.stage = "reading" => ReadOrder(k) \in Range(directory'[d]),
           \A e \in Device : \A x \in jobs'[e] :
               x.stage = "reading" /\ ReadOrder(x) \in Range(directory[e])
                   => ReadOrder(x) \in Range(directory'[e]),
           UNCHANGED <<files, rows, writer, pending, requests, client>>
    PROVE  Typed' /\ Tended'
  <1>1. /\ jobs' \in [Device -> SUBSET TypedJob]
        /\ \A e \in Device : \A x \in jobs[e] :
               \E y \in jobs'[e] : y.who = x.who /\ y.hash = x.hash
        /\ \A e \in Device : \A y \in jobs'[e] : y \in jobs[e] \/ (e = d /\ y = k)
    BY DEF Typed
  <1>2. Typed'
    BY <1>1 DEF Typed, files, TypedCommand
  <1>3. ASSUME NEW e \in Device, NEW x \in Content
        PROVE  /\ \A m \in pending[e][x] : AtWork(m, e, x)'
               /\ Asks(jobs'[e], x) => Asks(jobs[e], x)
    <2>1. \A m \in pending[e][x] : m \in Device /\ AtWork(m, e, x)
      BY DEF Typed, Tended, AsksOK
    <2>2. Asks(jobs'[e], x) => Asks(jobs[e], x)
      BY <1>1 DEF Asks
    <2> QED  BY <1>1, <2>1, <2>2 DEF AtWork
  <1>4. AsksOK'
    BY <1>3 DEF Tended, AsksOK
  <1>5. ReadsOK'
    BY <1>1 DEF Tended, ReadsOK
  <1>6. ClientsOK'
    <2>1. \A e \in Device : Carried(e, "client") => Carried(e, "client")'
      BY <1>1 DEF Carried
    <2> QED  BY <2>1 DEF Tended, ClientsOK
  <1> QED  BY <1>2, <1>4, <1>5, <1>6 DEF Tended

LEMMA StartTends ==
    ASSUME Typed, Tended, NEW d \in Device, Start(d)
    PROVE  Typed' /\ Tended'
  <1>1. PICK j \in jobs[d] :
            /\ j.stage = "waiting"
            /\ IF d \in Generates
               THEN /\ jobs' = [jobs EXCEPT ![d] = (@ \ {j}) \cup {To(j, "reading")}]
                    /\ directory' = [directory EXCEPT ![d] =
                                         Append(@, ReadOrder(To(j, "reading")))]
               ELSE /\ jobs' = [jobs EXCEPT ![d] = (@ \ {j}) \cup {To(j, "absent")}]
                    /\ UNCHANGED directory
    BY DEF Start, ReadOrder
  <1>2. j \in TypedJob
    BY DEF Typed
  <1>3. UNCHANGED <<files, rows, writer, pending, requests, client>>
    BY DEF Start
  <1>4. CASE d \in Generates
    <2>1. PICK k : k = To(j, "reading")
      OBVIOUS
    <2>2. k \in TypedJob /\ k.who = j.who /\ k.hash = j.hash /\ k.stage = "reading"
      BY <1>2, <2>1, TypedTo DEF Stages
    <2>3. ReadOrder(k) \in Orders
      BY <2>2 DEF ReadOrder, Orders, TypedJob
    <2>4. directory[d] \in Seq(Orders) /\ directory \in [Device -> Seq(Orders)]
      BY DEF Typed
    <2>5. /\ Append(directory[d], ReadOrder(k)) \in Seq(Orders)
          /\ Range(Append(directory[d], ReadOrder(k))) = Range(directory[d]) \cup {ReadOrder(k)}
      BY <2>3, <2>4, AppendProperties, RangeAppend
    <2>6. /\ directory' = [directory EXCEPT ![d] = Append(@, ReadOrder(k))]
          /\ jobs' = [jobs EXCEPT ![d] = (@ \ {j}) \cup {k}]
      BY <1>1, <1>4, <2>1
    <2>7. /\ directory' \in [Device -> Seq(Orders)] /\ ReadOrder(k) \in Range(directory'[d])
          /\ \A e \in Device : Range(directory[e]) \subseteq Range(directory'[e])
      BY <2>4, <2>5, <2>6
    <2>8. \A e \in Device : \A x \in jobs'[e] :
              ReadOrder(x) \in Range(directory[e]) => ReadOrder(x) \in Range(directory'[e])
      BY <2>7
    <2>9. PICK over \in SUBSET {j} : jobs' = [jobs EXCEPT ![d] = (@ \ over) \cup {k}]
      BY <2>6
    <2> QED  BY <1>3, <2>2, <2>7, <2>8, <2>9, GoesOn
  <1>5. CASE d \notin Generates
    <2>1. PICK k : k = To(j, "absent")
      OBVIOUS
    <2>2. k \in TypedJob /\ k.who = j.who /\ k.hash = j.hash /\ k.stage = "absent"
      BY <1>2, <2>1, TypedTo DEF Stages
    <2>3. directory' = directory /\ directory \in [Device -> Seq(Orders)]
      BY <1>1, <1>5 DEF Typed
    <2>4. PICK over \in SUBSET {j} : jobs' = [jobs EXCEPT ![d] = (@ \ over) \cup {k}]
      BY <1>1, <1>5, <2>1
    <2> QED  BY <1>3, <2>2, <2>3, <2>4, GoesOn
  <1> QED  BY <1>4, <1>5

LEMMA ReadFileTends ==
    ASSUME Typed, Tended, NEW d \in Device, ReadFile(d)
    PROVE  Typed' /\ Tended'
  <1>1. PICK j, k, over :
            /\ j = Head(directory[d]).job
            /\ k = To(j, IF disk[d] = j.hash THEN "generating" ELSE "absent")
            /\ over = IF Head(directory[d]) \in Range(Tail(directory[d])) THEN {} ELSE {j}
    OBVIOUS
  <1>2. /\ directory[d] # <<>> /\ Head(directory[d]).op = "read"
        /\ directory' = [directory EXCEPT ![d] = Tail(@)]
        /\ jobs' = IF j \notin jobs[d] THEN jobs
                   ELSE [jobs EXCEPT ![d] = (@ \ over) \cup {k}]
        /\ UNCHANGED <<files, rows, writer, pending, requests, client>>
    BY <1>1 DEF ReadFile
  <1>3. directory[d] \in Seq(Orders) /\ directory \in [Device -> Seq(Orders)]
    BY DEF Typed
  <1>4. Head(directory[d]) \in Orders /\ Tail(directory[d]) \in Seq(Orders)
    BY <1>2, <1>3, HeadTailProperties
  <1>5. Head(directory[d]) = ReadOrder(j)
    BY <1>1, <1>2, <1>4 DEF Orders, ReadOrder
  <1>6. /\ directory' \in [Device -> Seq(Orders)]
        /\ \A e \in Device : \A o \in Range(directory[e]) :
               (e = d /\ o = ReadOrder(j)) \/ o \in Range(directory'[e])
    <2>1. \A o \in Range(directory[d]) : o = ReadOrder(j) \/ o \in Range(Tail(directory[d]))
      BY <1>2, <1>3, <1>5, RangeTail
    <2> QED  BY <1>2, <1>3, <1>4, <2>1
  <1>7. \A x : ReadOrder(x) = ReadOrder(j) => x = j
    BY DEF ReadOrder
  <1>8. CASE j \in jobs[d]
    <2>1. j \in TypedJob
      BY <1>8 DEF Typed
    <2>2. /\ k \in TypedJob /\ k.who = j.who /\ k.hash = j.hash
          /\ k.stage \in {"generating", "absent"}
      BY <1>1, <2>1, TypedTo DEF Stages
    <2>3. jobs' = [jobs EXCEPT ![d] = (@ \ over) \cup {k}] /\ over \in SUBSET {j}
      BY <1>1, <1>2, <1>8
    <2>4. \A e \in Device : \A x \in jobs'[e] :
              x.stage = "reading" /\ ReadOrder(x) \in Range(directory[e])
                  => ReadOrder(x) \in Range(directory'[e])
      <3>1. \A x \in jobs'[d] : x # j \/ x = k \/ ReadOrder(j) \in Range(directory'[d])
        BY <1>1, <1>2, <1>3, <1>5, <2>3 DEF Typed
      <3> QED  BY <1>6, <1>7, <2>2, <3>1
    <2> QED  BY <1>2, <1>6, <1>8, <2>2, <2>3, <2>4, GoesOn
  <1>9. CASE j \notin jobs[d]
    <2>1. jobs' = jobs
      BY <1>2, <1>9
    <2>2. Typed'
      BY <1>2, <1>6, <2>1 DEF Typed, files, TypedCommand
    <2>3. ReadsOK'
      BY <1>6, <1>7, <1>9, <2>1 DEF Tended, ReadsOK
    <2>4. AsksOK'
      BY <1>2, <2>1 DEF Tended, AsksOK, AtWork, Asks
    <2>5. ClientsOK'
      BY <1>2, <2>1 DEF Tended, ClientsOK, Carried
    <2> QED  BY <2>2, <2>3, <2>4, <2>5 DEF Tended
  <1> QED  BY <1>8, <1>9

LEMMA AskPeersTends ==
    ASSUME Typed, Tended, NEW d \in Device, AskPeers(d)
    PROVE  Typed' /\ Tended'
  <1>1. PICK j \in Own(d), up \in SUBSET (Device \ {d}) :
            LET to == IF pending[d][j.hash] = {} THEN up ELSE {}
            IN  /\ j.stage = "absent"
                /\ jobs' = [jobs EXCEPT ![d] = (@ \ {j}) \cup
                                {IF up = {} THEN Done(j, Missing) ELSE To(j, "asking")}]
                /\ pending' = [pending EXCEPT ![d][j.hash] = @ \cup to]
                /\ requests' = requests \cup {<<d, e, j.hash>> : e \in to}
                /\ UNCHANGED <<files, rows, writer, directory, client, bounds>>
    BY DEF AskPeers
  <1>0. PICK to : to = IF pending[d][j.hash] = {} THEN up ELSE {}
    OBVIOUS
  <1>2. PICK k, c : /\ k = IF up = {} THEN Done(j, Missing) ELSE To(j, "asking")
                    /\ c = j.hash
    OBVIOUS
  <1>3. j \in jobs[d] /\ j \in TypedJob /\ j.who \notin Device /\ c \in Content
    BY <1>2 DEF Own, Typed, TypedJob, Jobs
  <1>4. /\ k \in TypedJob /\ k.who = j.who /\ k.hash = c
        /\ k.stage \in {"done", "asking"} /\ (k.stage = "asking" => up # {})
    BY <1>2, <1>3, TypedDone, TypedTo DEF Stages, Shown
  <1>5. /\ jobs' = [jobs EXCEPT ![d] = (@ \ {j}) \cup {k}]
        /\ pending' = [pending EXCEPT ![d][c] = @ \cup to]
        /\ requests' = requests \cup {<<d, e, c>> : e \in to}
        /\ pending[d][c] = {} => to = up
        /\ to \subseteq Device
        /\ UNCHANGED <<files, rows, writer, directory, client>>
    BY <1>0, <1>1, <1>2
  <1>6. /\ jobs' \in [Device -> SUBSET TypedJob]
        /\ \A e \in Device : \A x \in jobs[e] :
               \E y \in jobs'[e] : y.who = x.who /\ y.hash = x.hash
        /\ \A e \in Device : \A y \in jobs'[e] : y \in jobs[e] \/ (e = d /\ y = k)
    BY <1>2, <1>3, <1>4, <1>5 DEF Typed
  <1>7. /\ pending' \in [Device -> [Content -> SUBSET Device]]
        /\ pending'[d][c] = pending[d][c] \cup to
        /\ up # {} => pending'[d][c] # {}
        /\ \A e \in Device, x \in Content :
               <<e, x>> # <<d, c>> => pending'[e][x] = pending[e][x]
    BY <1>3, <1>5 DEF Typed
  <1>8. requests' \subseteq Device \X Device \X Content
    BY <1>3, <1>5 DEF Typed
  <1>9. Typed'
    BY <1>5, <1>6, <1>7, <1>8 DEF Typed, files, TypedCommand
  <1>10. ASSUME NEW e \in Device, NEW x \in Content, NEW m \in pending'[e][x]
         PROVE  AtWork(m, e, x)'
    <2>1. CASE m \in pending[e][x]
      <3>1. m \in Device /\ AtWork(m, e, x)
        BY <2>1 DEF Typed, Tended, AsksOK
      <3> QED  BY <1>5, <1>6, <3>1 DEF AtWork
    <2>2. CASE m \notin pending[e][x]
      <3>1. e = d /\ x = c /\ m \in to
        BY <1>7, <2>2
      <3>2. <<d, m, c>> \in requests'
        BY <1>5, <3>1
      <3> QED  BY <3>1, <3>2 DEF AtWork
    <2> QED  BY <2>1, <2>2
  <1>11. ASSUME NEW e \in Device, NEW x \in Content, Asks(jobs'[e], x)
         PROVE  pending'[e][x] # {}
    <2>1. CASE Asks(jobs[e], x)
      <3>1. pending[e][x] # {}
        BY <2>1 DEF Tended, AsksOK
      <3> QED  BY <1>7, <3>1
    <2>2. CASE ~Asks(jobs[e], x)
      <3>1. e = d /\ x = c /\ k.stage = "asking"
        BY <1>4, <1>6, <1>11, <2>2 DEF Asks
      <3> QED  BY <1>4, <1>7, <3>1
    <2> QED  BY <2>1, <2>2
  <1>12. AsksOK'
    BY <1>10, <1>11 DEF AsksOK
  <1>13. ReadsOK'
    BY <1>4, <1>5, <1>6 DEF Tended, ReadsOK
  <1>14. ClientsOK'
    BY <1>5, <1>6 DEF Tended, ClientsOK, Carried
  <1> QED  BY <1>9, <1>12, <1>13, <1>14 DEF Tended

\* What the generators show.
LEMMA GenerateShown ==
    ASSUME Typed, NEW d \in Device
    PROVE  Generate(disk[d]) \in Shown
  BY DEF Typed, Generate, Shown

LEMMA RenderTends ==
    ASSUME Typed, Tended, NEW d \in Device, Render(d)
    PROVE  Typed' /\ Tended'
  <1>1. PICK j \in jobs[d], shown \in {Generate(disk[d])} :
            /\ j.stage = "generating"
            /\ CASE shown = Missing ->
                      /\ jobs' = [jobs EXCEPT ![d] = (@ \ {j}) \cup {To(j, "absent")}]
                      /\ UNCHANGED pending
                 [] shown # Missing /\ j.who \in Device ->
                      Data([jobs EXCEPT ![d] = @ \ {j}], j.who, j.hash, shown)
                 [] OTHER ->
                      /\ jobs' = [jobs EXCEPT ![d] = (@ \ {j}) \cup {Done(j, shown)}]
                      /\ UNCHANGED pending
            /\ UNCHANGED <<files, rows, writer, directory, requests, client, bounds>>
    BY DEF Render
  <1>2. j \in TypedJob /\ shown \in Shown /\ directory \in [Device -> Seq(Orders)]
    BY <1>1, GenerateShown DEF Typed
  <1>3. CASE shown = Missing
    <2>1. PICK k : k = To(j, "absent")
      OBVIOUS
    <2>2. k \in TypedJob /\ k.who = j.who /\ k.hash = j.hash /\ k.stage = "absent"
      BY <1>2, <2>1, TypedTo DEF Stages
    <2>3. jobs' = [jobs EXCEPT ![d] = (@ \ {j}) \cup {k}] /\ pending' = pending
      BY <1>1, <1>3, <2>1
    <2> QED  BY <1>1, <1>2, <2>2, <2>3, GoesOn
  <1>4. CASE shown # Missing /\ j.who \notin Device
    <2>1. PICK k : k = Done(j, shown)
      OBVIOUS
    <2>2. k \in TypedJob /\ k.who = j.who /\ k.hash = j.hash /\ k.stage = "done"
      BY <1>2, <1>4, <2>1, TypedDone
    <2>3. jobs' = [jobs EXCEPT ![d] = (@ \ {j}) \cup {k}] /\ pending' = pending
      BY <1>1, <1>4, <2>1
    <2> QED  BY <1>1, <1>2, <2>2, <2>3, GoesOn
  <1>5. CASE shown # Missing /\ j.who \in Device
    <2>1. PICK js : js = [jobs EXCEPT ![d] = @ \ {j}]
      OBVIOUS
    <2>2. PICK e, c : e = j.who /\ c = j.hash
      OBVIOUS
    <2>3. Data(js, e, c, shown)
      BY <1>1, <1>5, <2>1, <2>2
    <2>4. /\ js \in [Device -> SUBSET TypedJob] /\ c \in Content /\ e \in Device
          /\ \A f \in Device : /\ js[f] \subseteq jobs[f]
                               /\ \A x \in jobs[f] : x \in js[f] \/ (f = d /\ x = j)
      BY <1>1, <1>2, <1>5, <2>1, <2>2 DEF Typed, TypedJob, Jobs
    <2>5. /\ jobs' \in [Device -> SUBSET TypedJob]
          /\ \A f \in Device : Passed(js[f], jobs'[f])
          /\ ~Asks(jobs'[e], c)
      BY <1>2, <2>3, <2>4, DataPasses
    <2>6. pending' = [pending EXCEPT ![e][c] = @ \ Device]
      <3>1. pending' = [pending EXCEPT ![e][c] = {}] /\ pending[e][c] \ Device = {}
        BY <2>3, <2>4 DEF Data, Typed
      <3> QED  BY <3>1
    <2>7. \A f \in Device : \A x \in jobs[f] :
              x \in js[f] \/ (f \in Device /\ x.who = e /\ x.hash = c)
      BY <2>2, <2>4
    <2>8. requests' = requests /\ UNCHANGED <<files, rows, client, writer, directory>>
      BY <1>1
    <2>9. \A f \in Device : /\ js[f] \subseteq jobs[f]
                            /\ \A x \in jobs[f] : \/ x \in js[f]
                                                  \/ f \in Device /\ x.who = e /\ x.hash = c
      BY <2>4, <2>7
    <2> QED  BY <2>4, <2>5, <2>6, <2>8, <2>9, StruckOff
  <1> QED  BY <1>3, <1>4, <1>5

LEMMA DeclineTends ==
    ASSUME Typed, Tended, NEW m \in Device, Decline(m)
    PROVE  Typed' /\ Tended'
  <1>1. PICK j \in jobs[m] \ Own(m) :
            /\ j.stage = "absent"
            /\ Miss(pending, [jobs EXCEPT ![m] = @ \ {j}], j.who, m, j.hash)
            /\ UNCHANGED <<files, rows, writer, directory, requests, client, bounds>>
    BY DEF Decline
  <1>2. PICK js : js = [jobs EXCEPT ![m] = @ \ {j}]
    OBVIOUS
  <1>3. PICK d, c : d = j.who /\ c = j.hash
    OBVIOUS
  <1>4. Miss(pending, js, d, m, c)
    BY <1>1, <1>2, <1>3
  <1>5. /\ js \in [Device -> SUBSET TypedJob] /\ c \in Content /\ d \in Device
        /\ \A e \in Device : /\ js[e] \subseteq jobs[e]
                             /\ \A x \in jobs[e] : x \in js[e] \/ (e = m /\ x = j)
    BY <1>1, <1>2, <1>3 DEF Typed, TypedJob, Jobs, Own
  <1>6. Asks(js[d], c) => pending[d][c] # {}
    <2>1. Asks(js[d], c) => Asks(jobs[d], c)
      BY <1>5 DEF Asks
    <2> QED  BY <1>5, <2>1 DEF Tended, AsksOK
  <1>7. /\ jobs' \in [Device -> SUBSET TypedJob]
        /\ \A e \in Device : Passed(js[e], jobs'[e])
        /\ pending[d][c] \ {m} = {} => ~Asks(jobs'[d], c)
    BY <1>4, <1>5, <1>6, MissPasses
  <1>8. pending' = [pending EXCEPT ![d][c] = @ \ {m}]
    BY <1>4 DEF Miss
  <1>9. \A e \in Device : /\ js[e] \subseteq jobs[e]
                          /\ \A x \in jobs[e] : \/ x \in js[e]
                                                \/ e \in {m} /\ x.who = d /\ x.hash = c
    BY <1>3, <1>5
  <1>10. /\ UNCHANGED <<files, rows, client, writer, directory>>
         /\ requests' \subseteq requests /\ \A r \in requests : r \in requests'
    BY <1>1
  <1> QED  BY <1>5, <1>7, <1>8, <1>9, <1>10, StruckOff

LEMMA GiveUpTends ==
    ASSUME Typed, Tended, NEW d \in Device, GiveUp(d)
    PROVE  Typed' /\ Tended'
  <1>1. PICK c \in Content :
            /\ pending' = [pending EXCEPT ![d][c] = {}]
            /\ jobs' = [jobs EXCEPT ![d] = Missed(@, c)]
            /\ UNCHANGED <<files, rows, writer, directory, requests, client, bounds>>
    BY DEF GiveUp
  <1>2. PICK T : T = Missed(jobs[d], c)
    OBVIOUS
  <1>3. jobs \in [Device -> SUBSET TypedJob]
    BY DEF Typed
  <1>4. T \subseteq TypedJob /\ Passed(jobs[d], T) /\ ~Asks(T, c)
    BY <1>2, <1>3, MissedPasses
  <1>5. jobs' = [jobs EXCEPT ![d] = T]
    BY <1>1, <1>2
  <1>6. /\ jobs' \in [Device -> SUBSET TypedJob] /\ jobs'[d] = T
        /\ \A e \in Device \ {d} : jobs'[e] = jobs[e]
    BY <1>3, <1>4, <1>5
  <1>7. \A e \in Device : Passed(jobs[e], jobs'[e])
    BY <1>4, <1>6, PassedSelf
  <1>8. pending' = [pending EXCEPT ![d][c] = @ \ Device]
    <2>1. pending[d][c] \ Device = {}
      BY DEF Typed
    <2> QED  BY <1>1, <2>1
  <1>9. requests' = requests /\ UNCHANGED <<files, rows, client, writer, directory>>
    BY <1>1
  <1> QED  BY <1>3, <1>4, <1>6, <1>7, <1>8, <1>9, StruckOff

LEMMA ServeTends ==
    ASSUME Typed, Tended, NEW m \in Device, Serve(m)
    PROVE  Typed' /\ Tended'
  <1>1. PICK r \in requests :
            /\ r[2] = m
            /\ requests' = requests \ {r}
            /\ CASE rows[m][r[3]] # Missing ->
                      Data(jobs, r[1], r[3], rows[m][r[3]]) /\ UNCHANGED directory
                 [] rows[m][r[3]] = Missing /\ m \in Generates ->
                      /\ jobs' = [jobs EXCEPT ![m] = @ \cup {Job(r[1], r[3], "reading")}]
                      /\ directory' =
                             [directory EXCEPT ![m] =
                                  Append(@, ReadOrder(Job(r[1], r[3], "reading")))]
                      /\ UNCHANGED pending
                 [] OTHER -> Miss(pending, jobs, r[1], m, r[3]) /\ UNCHANGED directory
            /\ UNCHANGED <<files, rows, writer, client, bounds>>
    BY DEF Serve, ReadOrder
  <1>2. PICK d, c, reading : /\ d = r[1] /\ c = r[3]
                             /\ reading = Job(d, c, "reading")
    OBVIOUS
  <1>3. /\ d \in Device /\ c \in Content /\ r = <<d, m, c>>
        /\ jobs \in [Device -> SUBSET TypedJob]
    BY <1>1, <1>2 DEF Typed
  <1>4. /\ requests' \subseteq requests /\ UNCHANGED <<files, rows, client, writer>>
        /\ \A q \in requests : q \in requests' \/ (q[1] = d /\ q[2] = m /\ q[3] = c)
    BY <1>1, <1>3
  <1>5. CASE rows[m][c] # Missing
    <2>1. Data(jobs, d, c, rows[m][c]) /\ UNCHANGED directory /\ rows[m][c] \in Shown
      BY <1>1, <1>2, <1>3, <1>5 DEF Typed
    <2>2. /\ jobs' \in [Device -> SUBSET TypedJob]
          /\ \A e \in Device : Passed(jobs[e], jobs'[e])
          /\ ~Asks(jobs'[d], c)
      BY <1>3, <2>1, DataPasses
    <2>3. pending' = [pending EXCEPT ![d][c] = @ \ Device]
      <3>1. pending' = [pending EXCEPT ![d][c] = {}] /\ pending[d][c] \ Device = {}
        BY <1>3, <2>1 DEF Data, Typed
      <3> QED  BY <3>1
    <2>4. \A q \in requests : q \in requests' \/ (q[1] = d /\ q[2] \in Device /\ q[3] = c)
      BY <1>4
    <2> QED  BY <1>3, <1>4, <2>1, <2>2, <2>3, <2>4, StruckOff
  <1>6. CASE rows[m][c] = Missing /\ m \in Generates
    <2>1. /\ jobs' = [jobs EXCEPT ![m] = @ \cup {reading}] /\ pending' = pending
          /\ directory' = [directory EXCEPT ![m] = Append(@, ReadOrder(reading))]
      BY <1>1, <1>2, <1>6
    <2>2. /\ reading \in TypedJob /\ reading.who = d /\ reading.hash = c
          /\ reading.stage = "reading"
      BY <1>1, <1>2, <1>3 DEF Job, TypedJob, Jobs, Stages, Asker, Shown
    <2>3. directory[m] \in Seq(Orders) /\ directory \in [Device -> Seq(Orders)]
      BY DEF Typed
    <2>4. ReadOrder(reading) \in Orders
      BY <2>2 DEF ReadOrder, Orders, TypedJob
    <2>5. /\ Append(directory[m], ReadOrder(reading)) \in Seq(Orders)
          /\ Range(Append(directory[m], ReadOrder(reading)))
                 = Range(directory[m]) \cup {ReadOrder(reading)}
      BY <2>3, <2>4, AppendProperties, RangeAppend
    <2>6. /\ directory' \in [Device -> Seq(Orders)]
          /\ ReadOrder(reading) \in Range(directory'[m])
          /\ \A e \in Device : Range(directory[e]) \subseteq Range(directory'[e])
      BY <2>1, <2>3, <2>5
    <2>7. /\ jobs' \in [Device -> SUBSET TypedJob] /\ reading \in jobs'[m]
          /\ \A e \in Device : jobs[e] \subseteq jobs'[e]
          /\ \A e \in Device : \A x \in jobs'[e] : x \in jobs[e] \/ (e = m /\ x = reading)
      BY <1>3, <2>1, <2>2
    <2>8. Typed'
      BY <1>4, <2>1, <2>6, <2>7 DEF Typed, files, TypedCommand
    <2>9. ReadsOK'
      BY <2>6, <2>7 DEF Tended, ReadsOK
    <2>10. ClientsOK'
      BY <1>4, <2>7 DEF Tended, ClientsOK, Carried
    <2>11. ASSUME NEW e \in Device, NEW x \in Content, NEW n \in pending[e][x]
           PROVE  AtWork(n, e, x)'
      <3>1. n \in Device /\ AtWork(n, e, x)
        BY DEF Typed, Tended, AsksOK
      <3>2. CASE <<e, n, x>> = r
        BY <1>3, <2>2, <2>7, <3>2 DEF AtWork
      <3>3. CASE <<e, n, x>> # r
        BY <1>1, <2>7, <3>1, <3>3 DEF AtWork
      <3> QED  BY <3>2, <3>3
    <2>12. \A e \in Device, x \in Content : Asks(jobs'[e], x) => Asks(jobs[e], x)
      BY <2>2, <2>7 DEF Asks
    <2>13. AsksOK'
      BY <2>1, <2>11, <2>12 DEF Tended, AsksOK
    <2> QED  BY <2>8, <2>9, <2>10, <2>13 DEF Tended
  <1>7. CASE rows[m][c] = Missing /\ m \notin Generates
    <2>1. Miss(pending, jobs, d, m, c) /\ UNCHANGED directory
      BY <1>1, <1>2, <1>7
    <2>2. Asks(jobs[d], c) => pending[d][c] # {}
      BY <1>3 DEF Tended, AsksOK
    <2>3. /\ jobs' \in [Device -> SUBSET TypedJob]
          /\ \A e \in Device : Passed(jobs[e], jobs'[e])
          /\ pending[d][c] \ {m} = {} => ~Asks(jobs'[d], c)
      BY <1>3, <2>1, <2>2, MissPasses
    <2>4. pending' = [pending EXCEPT ![d][c] = @ \ {m}]
      BY <2>1 DEF Miss
    <2>5. \A q \in requests : q \in requests' \/ (q[1] = d /\ q[2] \in {m} /\ q[3] = c)
      BY <1>4
    <2> QED  BY <1>3, <1>4, <2>1, <2>3, <2>4, <2>5, StruckOff
  <1> QED  BY <1>5, <1>6, <1>7

(***************************************************************************)
(* Steps of the writer and of the file.                                    *)
(***************************************************************************)
\* A command that stands for the user's request.
Stands(k) == k = Preview("client") \/ (k.op = "apply" /\ k.job.who = "client")

LEMMA StillCarried ==
    ASSUME NEW d \in Device, Carried(d, "client"),
           \A j \in jobs[d] : j.who = "client" => \E k \in jobs'[d] : k.who = "client",
           \A k \in Range(writer[d]) : Stands(k) => k \in Range(writer'[d])
    PROVE  Carried(d, "client")'
  BY DEF Carried, Stands

\* Jobs, lists and requests are left alone, and no order to read is dropped.
LEMMA SameJobsTend ==
    ASSUME Typed', Tended, UNCHANGED <<jobs, pending, requests>>,
           \A d \in Device : \A j : ReadOrder(j) \in Range(directory[d])
                                      => ReadOrder(j) \in Range(directory'[d]),
           \A d \in Device : client'[d] = "asked" => Carried(d, "client")'
    PROVE  Tended'
  <1>1. AsksOK'
    BY DEF Tended, AsksOK, AtWork, Asks
  <1>2. ReadsOK'
    BY DEF Tended, ReadsOK
  <1> QED  BY <1>1, <1>2 DEF Tended, ClientsOK

\* Nothing is dropped from the inbox of the writer either.
LEMMA MoreCommands ==
    ASSUME Typed', Tended, UNCHANGED <<jobs, pending, requests, directory, client>>,
           \A d \in Device : \A k \in Range(writer[d]) : Stands(k) => k \in Range(writer'[d])
    PROVE  Tended'
  <1>1. \A d \in Device : client'[d] = "asked" => Carried(d, "client")'
    BY StillCarried DEF Tended, ClientsOK
  <1> QED  BY <1>1, SameJobsTend

LEMMA EditTends ==
    ASSUME Typed, Tended, Edit
    PROVE  Typed' /\ Tended'
  <1>1. PICK c \in Content : disk' = [disk EXCEPT ![Author] = c]
    BY DEF Edit
  <1>2. UNCHANGED <<versions, latest, rows, writer, directory, jobs, pending, requests, client>>
    BY DEF Edit, tasks
  <1>3. disk' \in [Device -> Content \cup {Missing}] /\ disk'[Author] \in Content
    BY <1>1, PreviewsAssumption DEF Typed
  <1>4. Typed'
    BY <1>2, <1>3 DEF Typed, TypedCommand
  <1> QED  BY <1>2, <1>4, MoreCommands

LEMMA NoticeTends ==
    ASSUME Typed, Tended, Notice
    PROVE  Typed' /\ Tended'
  <1>1. PICK k : k = [op |-> "changed", version |-> Len(versions')]
    OBVIOUS
  <1>2. /\ versions' = Append(versions, disk[Author])
        /\ writer' = [writer EXCEPT ![Author] = Append(@, k)]
        /\ UNCHANGED <<disk, latest, rows, directory, jobs, pending, requests, client>>
    BY <1>1 DEF Notice
  <1>3. versions \in Seq(Content) /\ disk[Author] \in Content /\ Author \in Device
    BY PreviewsAssumption DEF Typed
  <1>4. /\ versions' \in Seq(Content) /\ Len(versions') = Len(versions) + 1
        /\ Len(versions) \in Nat
    BY <1>2, <1>3, AppendProperties, LenProperties
  <1>5. Len(versions') \in 1..Len(versions') /\ Len(versions) <= Len(versions')
    BY <1>4
  <1>6. k \in TypedCommand'
    BY <1>1, <1>4, <1>5 DEF TypedCommand, Commands
  <1>7. /\ Seq(TypedCommand) \subseteq Seq(TypedCommand')
        /\ \A d \in Device : latest[d] \in 1..Len(versions')
    BY <1>4, <1>5, TypedGrows
  <1>8. /\ writer' \in [Device -> Seq(TypedCommand')]
        /\ \A e \in Device : Range(writer[e]) \subseteq Range(writer'[e])
    BY <1>2, <1>3, <1>6, <1>7, Sent
  <1>9. Typed'
    BY <1>2, <1>4, <1>7, <1>8 DEF Typed
  <1> QED  BY <1>2, <1>8, <1>9, MoreCommands

\* One more command for the writer of d.
LEMMA CommandSent ==
    ASSUME Typed, Tended, NEW d \in Device, NEW k \in TypedCommand,
           writer' = [writer EXCEPT ![d] = Append(@, k)],
           UNCHANGED <<files, rows, directory, jobs, pending, requests>>,
           client' \in [Device -> {"idle", "asked"}],
           \A e \in Device : client'[e] = "asked"
                                 => client[e] = "asked" \/ (e = d /\ k = Preview("client"))
    PROVE  Typed' /\ Tended'
  <1>1. /\ writer' \in [Device -> Seq(TypedCommand)]
        /\ \A e \in Device : Range(writer[e]) \subseteq Range(writer'[e])
        /\ k \in Range(writer'[d])
    BY Sent
  <1>2. Typed'
    BY <1>1 DEF Typed, TypedCommand, files
  <1>3. ASSUME NEW e \in Device, client'[e] = "asked"
        PROVE  Carried(e, "client")'
    <2>1. CASE client[e] = "asked"
      <3>1. Carried(e, "client")
        BY <2>1 DEF Tended, ClientsOK
      <3> QED  BY <1>1, <3>1, StillCarried
    <2>2. CASE e = d /\ k = Preview("client")
      <3>1. Preview("client")' = k
        BY <2>2 DEF Preview
      <3> QED  BY <1>1, <2>2, <3>1 DEF Carried
    <2> QED  BY <1>3, <2>1, <2>2
  <1> QED  BY <1>2, <1>3, SameJobsTend

LEMMA NewsTends ==
    ASSUME Typed, Tended, NEW d \in Device,
           (\E e \in Device : Announce(d, e)) \/ Land(d) \/ GetPreview(d) \/ PurgePreviews(d)
    PROVE  Typed' /\ Tended'
  <1>0. client \in [Device -> {"idle", "asked"}]
    BY DEF Typed
  <1>1. ASSUME NEW e \in Device, Announce(d, e) PROVE Typed' /\ Tended'
    <2>1. PICK k : k = [op |-> "learned", version |-> latest[d]]
      OBVIOUS
    <2>2. k \in TypedCommand
      BY <2>1 DEF Typed, TypedCommand, Commands
    <2>3. /\ writer' = [writer EXCEPT ![e] = Append(@, k)] /\ client' = client
          /\ UNCHANGED <<files, rows, directory, jobs, pending, requests>>
      BY <1>1, <2>1 DEF Announce
    <2> QED  BY <1>0, <2>2, <2>3, CommandSent
  <1>2. CASE Land(d)
    <2>1. PICK k : k = [op |-> "placed", hash |-> Latest(d)]
      OBVIOUS
    <2>2. k \in TypedCommand
      BY <2>1, TypedLatest DEF TypedCommand, Commands
    <2>3. /\ writer' = [writer EXCEPT ![d] = Append(@, k)] /\ client' = client
          /\ UNCHANGED <<files, rows, directory, jobs, pending, requests>>
      BY <1>2, <2>1 DEF Land
    <2> QED  BY <1>0, <2>2, <2>3, CommandSent
  <1>3. CASE GetPreview(d)
    <2>1. PICK k : k = Preview("client")
      OBVIOUS
    <2>2. k \in TypedCommand
      BY <2>1, TypedPreview
    <2>3. /\ writer' = [writer EXCEPT ![d] = Append(@, k)]
          /\ client' = [client EXCEPT ![d] = "asked"]
          /\ UNCHANGED <<files, rows, directory, jobs, pending, requests>>
      BY <1>3, <2>1 DEF GetPreview
    <2>4. /\ client' \in [Device -> {"idle", "asked"}]
          /\ \A e \in Device : client'[e] = "asked" => client[e] = "asked" \/ e = d
      BY <1>0, <2>3
    <2> QED  BY <2>1, <2>2, <2>3, <2>4, CommandSent
  <1>4. CASE PurgePreviews(d)
    <2>1. PICK k : k = [op |-> "purge"]
      OBVIOUS
    <2>2. k \in TypedCommand
      BY <2>1 DEF TypedCommand, Commands
    <2>3. /\ writer' = [writer EXCEPT ![d] = Append(@, k)] /\ client' = client
          /\ UNCHANGED <<files, rows, directory, jobs, pending, requests>>
      BY <1>4, <2>1 DEF PurgePreviews
    <2> QED  BY <1>0, <2>2, <2>3, CommandSent
  <1> QED  BY <1>1, <1>2, <1>3, <1>4

\* A command that stands for no request is taken.
LEMMA OtherTaken ==
    ASSUME Typed, Tended, NEW d \in Device, NEW op \in {"changed", "learned", "placed", "purge"},
           NEW more \in Seq(TypedCommand), Take(d, op, more),
           UNCHANGED <<disk, versions, jobs, pending, requests, client>>,
           latest' \in [Device -> Nat], \A e \in Device : latest'[e] \in 1..Len(versions),
           rows' \in [Device -> [Content -> Shown]],
           directory' \in [Device -> Seq(Orders)],
           \A e \in Device : Range(directory[e]) \subseteq Range(directory'[e])
    PROVE  Typed' /\ Tended'
  <1>1. /\ writer' \in [Device -> Seq(TypedCommand)]
        /\ Head(writer[d]).op = op
        /\ \A e \in Device : \A k \in Range(writer[e]) :
               (e = d /\ k = Head(writer[d])) \/ k \in Range(writer'[e])
    BY Taken
  <1>2. Typed'
    BY <1>1 DEF Typed, TypedCommand
  <1>3. ~Stands(Head(writer[d]))
    BY <1>1 DEF Stands, Preview
  <1>4. \A e \in Device : client'[e] = "asked" => Carried(e, "client")'
    BY <1>1, <1>3, StillCarried DEF Tended, ClientsOK
  <1> QED  BY <1>2, <1>4, SameJobsTend

\* What a command says of versions.
LEMMA VersionKnown ==
    ASSUME Typed, NEW d \in Device, NEW op \in {"changed", "learned"},
           NEW more \in Seq(TypedCommand), Take(d, op, more)
    PROVE  Head(writer[d]).version \in 1..Len(versions)
  BY Taken DEF TypedCommand

LEMMA VersionRecorded ==
    ASSUME Typed, NEW d \in Device, NEW v \in 1..Len(versions), RecordVersion(d, v)
    PROVE  /\ latest' \in [Device -> Nat] /\ \A e \in Device : latest'[e] \in 1..Len(versions)
           /\ rows' \in [Device -> [Content -> Shown]]
  <1>1. v \in Nat
    BY LenProperties DEF Typed
  <1> QED  BY <1>1 DEF Typed, RecordVersion, NoRows, Shown

LEMMA VersionTends ==
    ASSUME Typed, Tended, NEW d \in Device, Change(d) \/ Learn(d)
    PROVE  Typed' /\ Tended'
  <1>1. PICK op \in {"changed", "learned"}, more \in Seq(TypedCommand) :
            /\ Take(d, op, more)
            /\ \/ RecordVersion(d, Head(writer[d]).version)
               \/ UNCHANGED <<latest, rows>>
    <2>1. Warm(d) \in Seq(TypedCommand) /\ <<>> \in Seq(TypedCommand)
      BY TypedPreview, EmptySeq
    <2>2. CASE Change(d)
      BY <2>1, <2>2 DEF Change
    <2>3. CASE Learn(d)
      BY <2>1, <2>3 DEF Learn
    <2> QED  BY <2>2, <2>3
  <1>2. Head(writer[d]).version \in 1..Len(versions)
    BY <1>1, VersionKnown
  <1>3. /\ latest' \in [Device -> Nat] /\ \A e \in Device : latest'[e] \in 1..Len(versions)
        /\ rows' \in [Device -> [Content -> Shown]]
    BY <1>1, <1>2, VersionRecorded DEF Typed
  <1>4. UNCHANGED <<disk, versions, jobs, pending, requests, client, directory>>
    BY DEF Change, Learn
  <1>5. directory' \in [Device -> Seq(Orders)]
    BY <1>4 DEF Typed
  <1> QED  BY <1>1, <1>3, <1>4, <1>5, OtherTaken

LEMMA MaterializeTends ==
    ASSUME Typed, Tended, NEW d \in Device, Materialize(d)
    PROVE  Typed' /\ Tended'
  <1>1. PICK c, o, more : /\ c = Head(writer[d]).hash
                          /\ o = [op |-> "place", hash |-> c]
                          /\ more = IF c = Latest(d) THEN Warm(d) ELSE <<>>
    OBVIOUS
  <1>2. /\ Take(d, "placed", more)
        /\ directory' = IF c # Latest(d) THEN directory
                        ELSE [directory EXCEPT ![d] = Append(@, o)]
        /\ UNCHANGED <<files, rows, jobs, pending, requests, client>>
    BY <1>1 DEF Materialize
  <1>3. more \in Seq(TypedCommand)
    BY <1>1, TypedPreview, EmptySeq
  <1>4. o \in Orders
    <2>1. Head(writer[d]) \in TypedCommand /\ Head(writer[d]).op = "placed"
      BY <1>2, <1>3, Taken
    <2>2. c \in Content
      BY <1>1, <2>1 DEF TypedCommand, Commands
    <2> QED  BY <1>1, <2>2 DEF Orders
  <1>5. directory[d] \in Seq(Orders) /\ directory \in [Device -> Seq(Orders)]
    BY DEF Typed
  <1>6. /\ Append(directory[d], o) \in Seq(Orders)
        /\ Range(Append(directory[d], o)) = Range(directory[d]) \cup {o}
    BY <1>4, <1>5, AppendProperties, RangeAppend
  <1>7. /\ directory' \in [Device -> Seq(Orders)]
        /\ \A e \in Device : Range(directory[e]) \subseteq Range(directory'[e])
    BY <1>2, <1>5, <1>6
  <1>8. UNCHANGED <<disk, versions, latest, rows, jobs, pending, requests, client>>
    BY <1>2 DEF files
  <1>9. /\ latest' \in [Device -> Nat] /\ \A e \in Device : latest'[e] \in 1..Len(versions)
        /\ rows' \in [Device -> [Content -> Shown]]
    BY <1>8 DEF Typed
  <1> QED  BY <1>2, <1>3, <1>7, <1>8, <1>9, OtherTaken

LEMMA PurgeTends ==
    ASSUME Typed, Tended, NEW d \in Device, Purge(d)
    PROVE  Typed' /\ Tended'
  <1>1. Take(d, "purge", Warm(d)) /\ Warm(d) \in Seq(TypedCommand)
    BY TypedPreview DEF Purge
  <1>2. UNCHANGED <<disk, versions, latest, directory, jobs, pending, requests, client>>
    BY DEF Purge, files
  <1>3. rows' \in [Device -> [Content -> Shown]]
    BY DEF Purge, Typed, NoRows, Shown
  <1>4. /\ latest' \in [Device -> Nat] /\ \A e \in Device : latest'[e] \in 1..Len(versions)
        /\ directory' \in [Device -> Seq(Orders)]
    BY <1>2 DEF Typed
  <1> QED  BY <1>1, <1>2, <1>3, <1>4, OtherTaken

LEMMA ResolveTends ==
    ASSUME Typed, Tended, NEW d \in Device, Resolve(d)
    PROVE  Typed' /\ Tended'
  <1>1. PICK who, j : who = Head(writer[d]).who /\ j = Job(who, Latest(d), "waiting")
    OBVIOUS
  <1>2. /\ Take(d, "preview", <<>>)
        /\ \/ Reply(d, who) /\ UNCHANGED jobs
           \/ jobs' = [jobs EXCEPT ![d] = @ \cup {j}] /\ UNCHANGED client
        /\ UNCHANGED <<files, rows, directory, pending, requests>>
    BY <1>1 DEF Resolve
  <1>3. /\ writer' \in [Device -> Seq(TypedCommand)]
        /\ Head(writer[d]) \in TypedCommand /\ Head(writer[d]).op = "preview"
        /\ \A e \in Device : \A k \in Range(writer[e]) :
               (e = d /\ k = Head(writer[d])) \/ k \in Range(writer'[e])
    BY <1>2, EmptySeq, Taken
  <1>4. who \in {"client", "cache"} /\ who \in Asker /\ who \notin Device
    BY <1>1, <1>3 DEF TypedCommand, Commands, Asker
  <1>5. j \in TypedJob /\ j.who = who /\ j.stage = "waiting"
    <2>1. Latest(d) \in Content
      BY TypedLatest
    <2> QED  BY <1>1, <1>4, <2>1 DEF Job, TypedJob, Jobs, Stages, Shown
  <1>6. Stands(Head(writer[d])) => who = "client"
    BY <1>1, <1>3 DEF Stands, Preview
  <1>7. CASE Reply(d, who) /\ UNCHANGED jobs
    <2>1. /\ client' \in [Device -> {"idle", "asked"}]
          /\ \A e \in Device : client'[e] = "asked" => client[e] = "asked"
          /\ who = "client" => client'[d] = "idle"
      BY <1>7 DEF Reply, Typed
    <2>2. Typed'
      BY <1>2, <1>3, <1>7, <2>1 DEF Typed, TypedCommand, files
    <2>3. \A e \in Device : client'[e] = "asked" => Carried(e, "client")'
      BY <1>3, <1>6, <1>7, <2>1, StillCarried DEF Tended, ClientsOK
    <2> QED  BY <1>2, <1>7, <2>2, <2>3, SameJobsTend
  <1>8. CASE jobs' = [jobs EXCEPT ![d] = @ \cup {j}] /\ UNCHANGED client
    <2>1. /\ jobs' \in [Device -> SUBSET TypedJob] /\ j \in jobs'[d]
          /\ \A e \in Device : jobs[e] \subseteq jobs'[e]
          /\ \A e \in Device : \A x \in jobs'[e] : x \in jobs[e] \/ x = j
      BY <1>5, <1>8 DEF Typed
    <2>2. Typed'
      BY <1>2, <1>3, <1>8, <2>1 DEF Typed, TypedCommand, files
    <2>3. \A m, e \in Device : \A c \in Content : AtWork(m, e, c) => AtWork(m, e, c)'
      BY <1>2, <2>1 DEF AtWork
    <2>4. \A e \in Device, c \in Content : Asks(jobs'[e], c) => Asks(jobs[e], c)
      BY <1>5, <2>1 DEF Asks
    <2>5. AsksOK'
      BY <1>2, <2>3, <2>4 DEF Tended, AsksOK, Typed
    <2>6. ReadsOK'
      BY <1>2, <1>5, <2>1 DEF Tended, ReadsOK
    <2>7. ASSUME NEW e \in Device, client'[e] = "asked" PROVE Carried(e, "client")'
      <3>1. Carried(e, "client")
        BY <1>8, <2>7 DEF Tended, ClientsOK
      <3>2. CASE e = d /\ who = "client"
        BY <1>5, <2>1, <3>2 DEF Carried
      <3>3. CASE ~(e = d /\ who = "client")
        BY <1>3, <1>6, <2>1, <3>1, <3>3, StillCarried
      <3> QED  BY <3>2, <3>3
    <2> QED  BY <2>2, <2>5, <2>6, <2>7 DEF Tended, ClientsOK
  <1> QED  BY <1>2, <1>7, <1>8

LEMMA ApplyTends ==
    ASSUME Typed, Tended, NEW d \in Device, ApplyPreview(d)
    PROVE  Typed' /\ Tended'
  <1>1. PICK job : job = Head(writer[d]).job
    OBVIOUS
  <1>2. /\ Take(d, "apply", <<>>)
        /\ rows' = IF job.result = Missing THEN rows
                   ELSE [rows EXCEPT ![d][job.hash] = job.result]
        /\ Reply(d, job.who)
        /\ UNCHANGED <<files, directory, jobs, pending, requests>>
    BY <1>1 DEF ApplyPreview
  <1>3. /\ writer' \in [Device -> Seq(TypedCommand)]
        /\ Head(writer[d]) \in TypedCommand /\ Head(writer[d]).op = "apply"
        /\ \A e \in Device : \A k \in Range(writer[e]) :
               (e = d /\ k = Head(writer[d])) \/ k \in Range(writer'[e])
    BY <1>2, EmptySeq, Taken
  <1>4. job \in Jobs
    BY <1>1, <1>3 DEF TypedCommand, Commands
  <1>5. job.hash \in Content /\ job.result \in Shown
    BY <1>4 DEF Jobs
  <1>6. rows' \in [Device -> [Content -> Shown]]
    BY <1>2, <1>5 DEF Typed
  <1>7. /\ client' \in [Device -> {"idle", "asked"}]
        /\ \A e \in Device : client'[e] = "asked" => client[e] = "asked"
        /\ job.who = "client" => client'[d] = "idle"
    BY <1>2 DEF Reply, Typed
  <1>8. Typed'
    BY <1>2, <1>3, <1>6, <1>7 DEF Typed, TypedCommand, files
  <1>9. Stands(Head(writer[d])) => job.who = "client"
    BY <1>1, <1>3 DEF Stands, Preview
  <1>10. \A e \in Device : client'[e] = "asked" => Carried(e, "client")'
    BY <1>2, <1>3, <1>7, <1>9, StillCarried DEF Tended, ClientsOK
  <1> QED  BY <1>2, <1>8, <1>10, SameJobsTend

LEMMA PlaceTends ==
    ASSUME Typed, Tended, NEW d \in Device, Place(d)
    PROVE  Typed' /\ Tended'
  <1>1. /\ directory[d] # <<>> /\ Head(directory[d]).op = "place"
        /\ directory' = [directory EXCEPT ![d] = Tail(@)]
        /\ disk' = [disk EXCEPT ![d] = Head(directory[d]).hash]
        /\ UNCHANGED <<versions, latest, rows, writer, jobs, pending, requests, client>>
    BY DEF Place
  <1>2. directory[d] \in Seq(Orders) /\ directory \in [Device -> Seq(Orders)]
    BY DEF Typed
  <1>3. Head(directory[d]) \in Orders /\ Tail(directory[d]) \in Seq(Orders)
    BY <1>1, <1>2, HeadTailProperties
  <1>4. Head(directory[d]).hash \in Content
    BY <1>1, <1>3 DEF Orders
  <1>5. Typed'
    BY <1>1, <1>2, <1>3, <1>4 DEF Typed, TypedCommand
  <1>6. \A j : ReadOrder(j) # Head(directory[d])
    BY <1>1 DEF ReadOrder
  <1>7. \A o \in Range(directory[d]) : o = Head(directory[d]) \/ o \in Range(Tail(directory[d]))
    BY <1>1, <1>2, RangeTail
  <1>8. \A e \in Device : \A j : ReadOrder(j) \in Range(directory[e])
                                      => ReadOrder(j) \in Range(directory'[e])
    BY <1>1, <1>2, <1>6, <1>7
  <1>9. \A e \in Device : client'[e] = "asked" => Carried(e, "client")'
    BY <1>1, StillCarried DEF Tended, ClientsOK
  <1> QED  BY <1>1, <1>5, <1>8, <1>9, SameJobsTend

LEMMA FinishTends ==
    ASSUME Typed, Tended, NEW d \in Device, Finish(d)
    PROVE  Typed' /\ Tended'
  <1>1. PICK j \in jobs[d] :
            /\ j.stage = "done"
            /\ jobs' = [jobs EXCEPT ![d] = @ \ {j}]
            /\ writer' = [writer EXCEPT ![d] = Append(@, Apply(j))]
            /\ UNCHANGED <<files, rows, directory, pending, requests, client, bounds>>
    BY DEF Finish
  <1>2. PICK k : k = Apply(j)
    OBVIOUS
  <1>3. j \in TypedJob /\ j \in Jobs /\ j.who \notin Device
    BY <1>1 DEF Typed, TypedJob
  <1>4. k \in TypedCommand /\ k.op = "apply" /\ k.job = j
    BY <1>2, <1>3 DEF Apply, TypedCommand, Commands
  <1>5. /\ writer' \in [Device -> Seq(TypedCommand)]
        /\ \A e \in Device : Range(writer[e]) \subseteq Range(writer'[e])
        /\ k \in Range(writer'[d])
    BY <1>1, <1>2, <1>4, Sent
  <1>6. /\ jobs' \in [Device -> SUBSET TypedJob]
        /\ \A e \in Device : jobs'[e] \subseteq jobs[e]
        /\ \A e \in Device : \A x \in jobs[e] : x \in jobs'[e] \/ (e = d /\ x = j)
    BY <1>1 DEF Typed
  <1>7. Typed'
    BY <1>1, <1>5, <1>6 DEF Typed, TypedCommand, files
  <1>8. ASSUME NEW e \in Device, NEW c \in Content, NEW m \in pending[e][c]
        PROVE  AtWork(m, e, c)'
    <2>1. m \in Device /\ AtWork(m, e, c)
      BY DEF Typed, Tended, AsksOK
    <2>2. \A x \in jobs[m] : x.who = e => x \in jobs'[m]
      BY <1>3, <1>6, <2>1
    <2> QED  BY <1>1, <2>1, <2>2 DEF AtWork
  <1>9. \A e \in Device, c \in Content : Asks(jobs'[e], c) => Asks(jobs[e], c)
    BY <1>6 DEF Asks
  <1>10. AsksOK'
    BY <1>1, <1>8, <1>9 DEF Tended, AsksOK
  <1>11. ReadsOK'
    BY <1>1, <1>6 DEF Tended, ReadsOK
  <1>12. ASSUME NEW e \in Device, client'[e] = "asked" PROVE Carried(e, "client")'
    <2>1. Carried(e, "client")
      BY <1>1, <1>12 DEF Tended, ClientsOK
    <2>2. CASE e = d /\ j.who = "client"
      BY <1>4, <1>5, <2>2 DEF Carried
    <2>3. CASE ~(e = d /\ j.who = "client")
      BY <1>5, <1>6, <2>1, <2>3, StillCarried
    <2> QED  BY <2>2, <2>3
  <1> QED  BY <1>7, <1>10, <1>11, <1>12 DEF Tended, ClientsOK

LEMMA RestartTypes ==
    ASSUME Typed, NEW d \in Device, Restart(d)
    PROVE  Typed'
  <1> DEFINE changed == d = Author /\ disk[d] # Latest(d)
  <1>1. /\ client' = [client EXCEPT ![d] = "idle"]
        /\ directory' = [directory EXCEPT ![d] = <<>>]
        /\ versions' = IF changed THEN Append(versions, disk[d]) ELSE versions
        /\ writer' = [writer EXCEPT ![d] =
                          IF changed THEN <<[op |-> "changed", version |-> Len(versions')]>>
                          ELSE IF disk[d] = Latest(d) THEN Warm(d) ELSE <<>>]
        /\ requests' \subseteq requests
        /\ pending' = [e \in Device |-> IF e = d THEN NobodyAsked
                                        ELSE [c \in Content |-> pending[e][c] \ {d}]]
        /\ UNCHANGED <<disk, latest, rows>>
    BY DEF Restart
  <1>2. /\ versions' \in Seq(Content) /\ Len(versions) <= Len(versions')
        /\ changed => Len(versions') \in 1..Len(versions')
    <2>1. versions \in Seq(Content) /\ disk[Author] \in Content /\ Len(versions) \in Nat
      BY LenProperties DEF Typed
    <2>2. /\ Append(versions, disk[Author]) \in Seq(Content)
          /\ Len(Append(versions, disk[Author])) = Len(versions) + 1
      BY <2>1, AppendProperties
    <2>3. CASE changed
      <3>1. versions' = Append(versions, disk[Author])
        BY <1>1, <2>3
      <3>2. Len(versions') = Len(versions) + 1
        BY <2>2, <3>1
      <3> QED  BY <2>1, <2>2, <3>1, <3>2
    <2>4. CASE ~changed
      BY <1>1, <2>1, <2>4
    <2> QED  BY <2>3, <2>4
  <1>3. /\ Seq(TypedCommand) \subseteq Seq(TypedCommand')
        /\ \A e \in Device : latest[e] \in 1..Len(versions')
    BY <1>2, TypedGrows
  <1>4. writer' \in [Device -> Seq(TypedCommand')]
    <2>1. PICK k, q : /\ k = [op |-> "changed", version |-> Len(versions')]
                      /\ q = IF changed THEN <<k>>
                             ELSE IF disk[d] = Latest(d) THEN Warm(d) ELSE <<>>
      OBVIOUS
    <2>2. changed => k \in TypedCommand'
      <3>1. ASSUME changed PROVE Len(versions') \in Nat
        BY <1>2, LenProperties
      <3> QED  BY <1>2, <2>1, <3>1 DEF TypedCommand, Commands
    <2>3. Warm(d) \in Seq(TypedCommand') /\ <<>> \in Seq(TypedCommand')
      BY <1>3, TypedPreview, EmptySeq
    <2>4. q \in Seq(TypedCommand')
      BY <2>1, <2>2, <2>3
    <2>5. writer' = [writer EXCEPT ![d] = q]
      BY <1>1, <2>1
    <2> QED  BY <1>3, <2>4, <2>5 DEF Typed
  <1>5. jobs' \in [Device -> SUBSET TypedJob]
    <2>1. PICK alone : alone = [e \in Device |-> {c \in Content : pending[e][c] = {d}}]
      OBVIOUS
    <2>2. jobs' = [e \in Device |->
                      IF e = d THEN {}
                      ELSE {IF j.stage = "asking" /\ j.hash \in alone[e]
                            THEN Done(j, Missing) ELSE j : j \in jobs[e]}]
      BY <2>1 DEF Restart
    <2>3. \A e \in Device : \A j \in jobs[e] :
              j \in TypedJob /\ (j.stage = "asking" => Done(j, Missing) \in TypedJob)
      BY TypedDone DEF Typed, TypedJob, Shown
    <2> QED  BY <2>2, <2>3
  <1>6. pending' \in [Device -> [Content -> SUBSET Device]]
    BY <1>1 DEF Typed, NobodyAsked
  <1>7. directory' \in [Device -> Seq(Orders)] /\ client' \in [Device -> {"idle", "asked"}]
    BY <1>1, EmptySeq DEF Typed
  <1> QED  BY <1>1, <1>2, <1>3, <1>4, <1>5, <1>6, <1>7 DEF Typed

LEMMA RestartTends ==
    ASSUME Typed, Tended, NEW d \in Device, Restart(d)
    PROVE  Typed' /\ Tended'
  <1>1. PICK alone : alone = [e \in Device |-> {c \in Content : pending[e][c] = {d}}]
    OBVIOUS
  <1>2. /\ client' = [client EXCEPT ![d] = "idle"]
        /\ directory' = [directory EXCEPT ![d] = <<>>]
        /\ \A e \in Device \ {d} : writer'[e] = writer[e]
        /\ requests' = {r \in requests : d \notin {r[1], r[2]}}
        /\ pending' = [e \in Device |-> IF e = d THEN NobodyAsked
                                        ELSE [c \in Content |-> pending[e][c] \ {d}]]
        /\ jobs' = [e \in Device |->
                       IF e = d THEN {}
                       ELSE {IF j.stage = "asking" /\ j.hash \in alone[e]
                             THEN Done(j, Missing) ELSE j : j \in jobs[e]}]
    BY <1>1 DEF Restart, Typed
  <1>3. \A e \in Device : \A j \in jobs[e] :
            j.stage = "asking" => /\ Done(j, Missing).who = j.who
                                  /\ Done(j, Missing).hash = j.hash
                                  /\ Done(j, Missing).stage = "done"
    BY TypedDone DEF Typed, TypedJob, Shown
  <1>4. ASSUME NEW e \in Device \ {d}
        PROVE  /\ \A j \in jobs[e] : \E k \in jobs'[e] : k.who = j.who /\ k.hash = j.hash
               /\ \A k \in jobs'[e] : k.stage \in {"reading", "asking"} => k \in jobs[e]
               /\ \A k \in jobs'[e] : k.stage = "asking" => k.hash \notin alone[e]
    BY <1>2, <1>3
  <1>5. jobs'[d] = {} /\ \A c \in Content : pending'[d][c] = {}
    BY <1>2 DEF NobodyAsked
  <1>6. ASSUME NEW e \in Device, NEW c \in Content, NEW m \in pending'[e][c]
        PROVE  AtWork(m, e, c)'
    <2>1. e # d /\ m # d /\ m \in pending[e][c] /\ m \in Device
      BY <1>2, <1>5 DEF Typed
    <2>2. AtWork(m, e, c)
      BY <2>1 DEF Tended, AsksOK
    <2>3. CASE <<e, m, c>> \in requests
      BY <1>2, <2>1, <2>3 DEF AtWork
    <2>4. CASE \E j \in jobs[m] : j.who = e /\ j.hash = c
      BY <1>4, <2>1, <2>4 DEF AtWork
    <2> QED  BY <2>2, <2>3, <2>4 DEF AtWork
  <1>7. ASSUME NEW e \in Device, NEW c \in Content, Asks(jobs'[e], c)
        PROVE  pending'[e][c] # {}
    <2>1. e # d
      BY <1>5, <1>7 DEF Asks
    <2>2. Asks(jobs[e], c) /\ c \notin alone[e]
      BY <1>4, <1>7, <2>1 DEF Asks
    <2>3. pending[e][c] # {} /\ pending[e][c] # {d}
      BY <1>1, <2>2 DEF Tended, AsksOK
    <2> QED  BY <1>2, <2>1, <2>3
  <1>8. AsksOK'
    BY <1>6, <1>7 DEF AsksOK
  <1>9. ReadsOK'
    BY <1>2, <1>4, <1>5 DEF Tended, ReadsOK, Typed
  <1>10. ASSUME NEW e \in Device, client'[e] = "asked" PROVE Carried(e, "client")'
    <2>1. e # d /\ client[e] = "asked"
      BY <1>2, <1>10 DEF Typed
    <2>2. Carried(e, "client")
      BY <2>1 DEF Tended, ClientsOK
    <2> QED  BY <1>2, <1>4, <2>1, <2>2, StillCarried
  <1> QED  BY <1>8, <1>9, <1>10, RestartTypes DEF Tended, ClientsOK

LEMMA InitTends ==
    ASSUME Init
    PROVE  Typed /\ Tended
  <1>1. PICK c \in Content : written = <<c>>
    BY DEF Init
  <1>2. /\ versions = <<c>> /\ versions \in Seq(Content) /\ Len(versions) = 1
        /\ latest = [d \in Device |-> 1]
        /\ disk \in [Device -> {c, Missing}] /\ disk[Author] = c
    BY <1>1 DEF Init
  <1>3. writer \in [Device -> Seq(TypedCommand)]
    <2>1. \A d \in Device : Warm(d) \in Seq(TypedCommand) /\ <<>> \in Seq(TypedCommand)
      BY TypedPreview, EmptySeq
    <2>2. writer = [d \in Device |-> IF disk[d] # Missing THEN Warm(d) ELSE <<>>]
      BY DEF Init
    <2> QED  BY <2>1, <2>2
  <1>4. /\ rows \in [Device -> [Content -> Shown]] /\ directory \in [Device -> Seq(Orders)]
        /\ jobs = [d \in Device |-> {}] /\ pending = [d \in Device |-> NobodyAsked]
        /\ requests = {} /\ client = [d \in Device |-> "idle"]
    BY EmptySeq DEF Init, NoRows, Shown
  <1>5. Typed
    BY <1>2, <1>3, <1>4 DEF Typed, NobodyAsked
  <1>6. AsksOK /\ ReadsOK /\ ClientsOK
    BY <1>4 DEF AsksOK, Asks, ReadsOK, ClientsOK, NobodyAsked
  <1> QED  BY <1>5, <1>6 DEF Tended

LEMMA NextTends ==
    ASSUME Typed, Tended, [Next]_vars
    PROVE  Typed' /\ Tended'
  <1>1. CASE UNCHANGED vars
    <2>1. UNCHANGED <<files, rows, writer, directory, jobs, pending, requests, client>>
      BY <1>1 DEF vars, tasks
    <2>2. Typed'
      BY <2>1 DEF Typed, TypedCommand, files
    <2> QED  BY <2>1, <2>2, MoreCommands
  <1>2. CASE Edit \/ Notice
    BY <1>2, EditTends, NoticeTends
  <1>3. ASSUME NEW d \in Device,
               (\E e \in Device : Announce(d, e)) \/ Land(d) \/ GetPreview(d) \/ PurgePreviews(d)
        PROVE  Typed' /\ Tended'
    BY <1>3, NewsTends
  <1>4. ASSUME NEW d \in Device, Write(d)
        PROVE  Typed' /\ Tended'
    BY <1>4, VersionTends, MaterializeTends, ResolveTends, ApplyTends, PurgeTends DEF Write
  <1>5. ASSUME NEW d \in Device, Directory(d)
        PROVE  Typed' /\ Tended'
    BY <1>5, PlaceTends, ReadFileTends DEF Directory
  <1>6. ASSUME NEW d \in Device, Work(d)
        PROVE  Typed' /\ Tended'
    BY <1>6, StartTends, RenderTends, AskPeersTends, ServeTends, DeclineTends, FinishTends
    DEF Work
  <1>7. ASSUME NEW d \in Device, GiveUp(d) \/ Restart(d)
        PROVE  Typed' /\ Tended'
    BY <1>7, GiveUpTends, RestartTends
  <1> QED  BY <1>1, <1>2, <1>3, <1>4, <1>5, <1>6, <1>7 DEF Next

\* Whoever waits for a preview is with somebody whose next step nothing holds up,
\* whatever drops, declines, gives up or restarts, and whatever the user writes.
THEOREM NobodyIsForgotten == Spec => []NobodyForgotten
  <1>1. Init => Typed /\ Tended
    BY InitTends
  <1>2. (Typed /\ Tended) /\ [Next]_vars => (Typed /\ Tended)'
    BY NextTends
  <1>3. Typed /\ Tended => NobodyForgotten
    <2> SUFFICES ASSUME Typed, Tended, NEW d \in Device
                 PROVE  /\ client[d] = "asked" => Carried(d, "client")
                        /\ \A j \in jobs[d] :
                               /\ j.stage = "reading"
                                      => [op |-> "read", job |-> j] \in Range(directory[d])
                               /\ j.stage = "asking" => Attended(d, j.hash)
      BY DEF NobodyForgotten
    <2>1. client[d] = "asked" => Carried(d, "client")
      BY DEF Tended, ClientsOK
    <2>2. \A j \in jobs[d] : j.stage = "reading"
                                 => [op |-> "read", job |-> j] \in Range(directory[d])
      BY DEF Tended, ReadsOK, ReadOrder
    <2>3. ASSUME NEW j \in jobs[d], j.stage = "asking"
          PROVE  Attended(d, j.hash)
      <3>1. j.hash \in Content
        BY DEF Typed, TypedJob, Jobs
      <3>2. pending[d][j.hash] # {} /\ \A m \in pending[d][j.hash] : AtWork(m, d, j.hash)
        BY <2>3, <3>1 DEF Tended, AsksOK, Asks
      <3> QED  BY <3>2 DEF Attended, AtWork
    <2> QED  BY <2>1, <2>2, <2>3
  <1> QED  BY <1>1, <1>2, <1>3, PTL DEF Spec

-----------------------------------------------------------------------------
(***************************************************************************)
(* An eager device at rest with the latest bytes has their preview, if the *)
(* user goes back to no earlier content.  Whenever the latest bytes are in *)
(* place, or are going to be, there is a preview of them, or a command or  *)
(* a job that ends in one: a job that has still to read does so after the  *)
(* bytes are placed, and no other bytes are placed after those.            *)
(***************************************************************************)
PlaceOrder(c) == [op |-> "place", hash |-> c]

\* What a device may have in place of what it is to have.
Past(d) == (Content \cup {Missing}) \ {Latest(d)}

\* No content of the first v versions comes back later.
Closed(v) == \A i, j \in 1..Len(versions) : i <= v /\ v < j => versions[i] # versions[j]

\* The author's versions are recorded in order, and the others learn of no version
\* that the author has not recorded.
Rising(q) == \A i, j \in 1..Len(q) :
                 i < j /\ q[i].op = "changed" /\ q[j].op = "changed"
                     => q[i].version <= q[j].version

GoodNews(k) ==
    /\ k.op = "learned" => k.version <= latest[Author] /\ Closed(k.version)
    /\ k.op = "changed" => latest[Author] <= k.version /\ Closed(k.version)

NewsOK ==
    /\ \A d \in Device : latest[d] <= latest[Author] /\ Closed(latest[d])
    /\ \A d \in Device : \A k \in Range(writer[d]) : GoodNews(k)
    /\ Rising(writer[Author])
    /\ unseen => disk[Author] \notin Range(versions)

PlacesOK == \A d \in Device : Ordered(directory[d], disk[d], Past(d))

\* A file is read for a job that waits for it, and rendered once it is there.
HeldOK == \A d \in Device :
              /\ \A o \in Range(directory[d]) : o.op = "read" => o.job.stage = "reading"
              /\ \A j \in jobs[d] : j.stage = "generating" => disk[d] # Missing

Brings(d, c) == disk[d] = c \/ PlaceOrder(c) \in Range(directory[d])

\* The file is read for j once it has c.
SoonRead(d, j, c) ==
    \E i \in 1..Len(directory[d]) :
        /\ directory[d][i] = ReadOrder(j)
        /\ disk[d] = c \/ \E k \in 1..Len(directory[d]) : k < i /\ directory[d][k] = PlaceOrder(c)

Promises(d, j, c) ==
    /\ j.who \notin Device /\ j.hash = c
    /\ \/ j.stage \in {"waiting", "generating"}
       \/ j.stage = "reading" /\ SoonRead(d, j, c)
       \/ j.stage = "done" /\ j.result # Missing

Prompts(k, c) == \/ k.op \in {"preview", "changed", "purge"}
                 \/ k.op = "apply" /\ k.job.hash = c /\ k.job.result # Missing

OnTheWay(d, c) == \/ rows[d][c] # Missing
                  \/ \E k \in Range(writer[d]) : Prompts(k, c)
                  \/ \E j \in jobs[d] : Promises(d, j, c)

Warmed(d) == Brings(d, Latest(d)) => OnTheWay(d, Latest(d))

Warmth == \A d \in Eager : Warmed(d)

LEMMA PartsOfRange ==
    ASSUME NEW S, NEW q \in Seq(S), q # <<>>
    PROVE  Range(Tail(q)) \subseteq Range(q) /\ Head(q) \in Range(q)
  <1>1. /\ Len(Tail(q)) = Len(q) - 1 /\ Len(q) \in Nat /\ Len(q) > 0 /\ Head(q) = q[1]
        /\ Tail(q) \in Seq(S) /\ \A i \in 1..Len(Tail(q)) : Tail(q)[i] = q[i + 1]
    BY HeadTailProperties, LenProperties, EmptySeq
  <1>2. /\ Range(q) = {q[i] : i \in 1..Len(q)}
        /\ Range(Tail(q)) = {Tail(q)[i] : i \in 1..Len(Tail(q))}
    BY <1>1, RangeEquality
  <1>3. 1 \in 1..Len(q) /\ \A i \in 1..Len(Tail(q)) : i + 1 \in 1..Len(q)
    BY <1>1
  <1> QED  BY <1>1, <1>2, <1>3

\* The news a device has and those on their way.
LEMMA RisingTail ==
    ASSUME NEW S, NEW q \in Seq(S), q # <<>>, Rising(q)
    PROVE  /\ Rising(Tail(q))
           /\ \A k \in Range(Tail(q)) : Head(q).op = "changed" /\ k.op = "changed"
                                            => Head(q).version <= k.version
  <1>1. /\ Len(Tail(q)) = Len(q) - 1 /\ Len(q) \in Nat /\ Len(q) > 0 /\ Head(q) = q[1]
        /\ Tail(q) \in Seq(S) /\ \A i \in 1..Len(Tail(q)) : Tail(q)[i] = q[i + 1]
    BY HeadTailProperties, LenProperties, EmptySeq
  <1>2. /\ \A i \in 1..Len(Tail(q)) : i + 1 \in 1..Len(q) /\ 1 < i + 1
        /\ \A i, j \in 1..Len(Tail(q)) : i < j => i + 1 < j + 1
        /\ 1 \in 1..Len(q)
    BY <1>1
  <1>3. Range(Tail(q)) = {Tail(q)[i] : i \in 1..Len(Tail(q))}
    BY <1>1, RangeEquality
  <1>4. Rising(Tail(q))
    BY <1>1, <1>2 DEF Rising
  <1> QED  BY <1>1, <1>2, <1>3, <1>4 DEF Rising

LEMMA RisingAppend ==
    ASSUME NEW S, NEW q \in Seq(S), NEW k \in S, Rising(q),
           \A x \in Range(q) : x.op = "changed" /\ k.op = "changed" => x.version <= k.version
    PROVE  Rising(Append(q, k))
  <1> DEFINE r == Append(q, k)
  <1>1. /\ Len(r) = Len(q) + 1 /\ Len(q) \in Nat /\ r[Len(q) + 1] = k
        /\ \A i \in 1..Len(q) : r[i] = q[i]
    BY AppendProperties, LenProperties
  <1>2. \A i \in 1..Len(q) : q[i] \in Range(q)
    BY LenProperties DEF Range
  <1> HIDE DEF r
  <1>3. ASSUME NEW i \in 1..Len(r), NEW j \in 1..Len(r), i < j,
               r[i].op = "changed", r[j].op = "changed"
        PROVE  r[i].version <= r[j].version
    <2>1. i \in 1..Len(q) /\ r[i] = q[i]
      BY <1>1, <1>3
    <2>2. CASE j \in 1..Len(q)
      BY <1>1, <1>3, <2>1, <2>2 DEF Rising
    <2>3. CASE j = Len(q) + 1
      BY <1>1, <1>2, <1>3, <2>1, <2>3
    <2> QED  BY <1>1, <2>2, <2>3
  <1>4. Rising(r)
    BY <1>3 DEF Rising
  <1> QED  BY <1>4 DEF r

\* What is left when the writer has taken a command.
LEMMA TakesOne ==
    ASSUME Typed, NEW d \in Device, NEW op, NEW more, more = <<>> \/ more = Warm(d),
           Take(d, op, more)
    PROVE  /\ writer[d] # <<>> /\ Head(writer[d]).op = op /\ Head(writer[d]) \in Range(writer[d])
           /\ Head(writer[d]) \in TypedCommand
           /\ \A e \in Device \ {d} : writer'[e] = writer[e]
           /\ \A k \in Range(writer[d]) : k = Head(writer[d]) \/ k \in Range(writer'[d])
           /\ \A k \in Range(writer'[d]) : \/ k \in Range(writer[d]) /\ k \in Range(Tail(writer[d]))
                                           \/ k = Preview("cache")
           /\ more = Warm(d) /\ d \in Eager => Preview("cache") \in Range(writer'[d])
           /\ Rising(writer[d]) =>
                  /\ Rising(writer'[d])
                  /\ \A k \in Range(Tail(writer[d])) :
                         op = "changed" /\ k.op = "changed"
                             => Head(writer[d]).version <= k.version
  <1> DEFINE p == Preview("cache")
  <1>1. /\ writer[d] \in Seq(TypedCommand) /\ writer[d] # <<>> /\ Head(writer[d]).op = op
        /\ p \in TypedCommand /\ p.op = "preview" /\ more \in Seq(TypedCommand)
    <2>1. <<>> \in Seq(TypedCommand)
      BY EmptySeq
    <2> QED  BY <2>1, TypedPreview DEF Typed, Take, Preview
  <1>2. PICK q \in Seq(TypedCommand) :
            q = Tail(writer[d]) /\ Head(writer[d]) \in TypedCommand
    BY <1>1, HeadTailProperties
  <1>3. /\ writer'[d] = q \o more
        /\ \A e \in Device \ {d} : writer'[e] = writer[e]
    BY <1>2 DEF Take, Typed
  <1>4. (more = <<>> /\ writer'[d] = q) \/ (more = <<p>> /\ writer'[d] = Append(q, p))
    <2>1. q \o <<>> = q /\ q \o <<p>> = Append(q, p)
      BY <1>1, <1>2, ConcatEmptySeq, AppendIsConcat
    <2> QED  BY <1>3, <2>1 DEF Warm
  <1>5. more = Warm(d) /\ d \in Eager => more # <<>>
    BY DEF Warm
  <1> HIDE DEF p
  <1>6. Range(Append(q, p)) = Range(q) \cup {p}
    BY ONLY <1>1, RangeAppend, q \in Seq(TypedCommand), p \in TypedCommand
  <1>7. \A k \in Range(writer[d]) : k = Head(writer[d]) \/ k \in Range(q)
    BY <1>1, <1>2, RangeTail
  <1>8. Range(q) \subseteq Range(writer[d]) /\ Head(writer[d]) \in Range(writer[d])
    BY <1>1, <1>2, PartsOfRange
  <1>9. ASSUME Rising(writer[d])
        PROVE  /\ Rising(writer'[d])
               /\ \A k \in Range(q) : op = "changed" /\ k.op = "changed"
                                          => Head(writer[d]).version <= k.version
    <2>1. /\ Rising(q)
          /\ \A k \in Range(q) : op = "changed" /\ k.op = "changed"
                                     => Head(writer[d]).version <= k.version
      BY <1>1, <1>2, <1>9, RisingTail
    <2>2. Rising(Append(q, p))
      BY <1>1, <1>2, <2>1, RisingAppend
    <2> QED  BY <1>4, <2>1, <2>2
  <1>10. \A k \in Range(writer'[d]) : k \in Range(q) \/ k = p
    BY <1>4, <1>6
  <1>11. \A k \in Range(writer[d]) : k = Head(writer[d]) \/ k \in Range(writer'[d])
    BY <1>4, <1>6, <1>7
  <1>12. more = Warm(d) /\ d \in Eager => p \in Range(writer'[d])
    BY <1>4, <1>5, <1>6
  <1> QED  BY <1>1, <1>2, <1>3, <1>8, <1>9, <1>10, <1>11, <1>12 DEF p

\* A command comes to the inbox.
LEMMA ComesOne ==
    ASSUME Typed, NEW S, Seq(TypedCommand) \subseteq Seq(S), NEW d \in Device, NEW k \in S,
           writer' = [writer EXCEPT ![d] = Append(@, k)]
    PROVE  /\ \A e \in Device \ {d} : writer'[e] = writer[e]
           /\ Range(writer'[d]) = Range(writer[d]) \cup {k}
           /\ (Rising(writer[d]) /\ \A x \in Range(writer[d]) :
                   x.op = "changed" /\ k.op = "changed" => x.version <= k.version)
                  => Rising(writer'[d])
  <1>1. writer[d] \in Seq(S)
    BY DEF Typed
  <1>2. writer'[d] = Append(writer[d], k) /\ \A e \in Device \ {d} : writer'[e] = writer[e]
    BY DEF Typed
  <1>3. PICK q \in Seq(S) : q = writer[d]
    BY <1>1
  <1>4. Range(Append(q, k)) = Range(q) \cup {k}
    BY ONLY RangeAppend, q \in Seq(S), k \in S
  <1>5. (Rising(q) /\ \A x \in Range(q) :
             x.op = "changed" /\ k.op = "changed" => x.version <= k.version)
            => Rising(Append(q, k))
    BY RisingAppend
  <1> QED  BY <1>2, <1>3, <1>4, <1>5

\* The versions and what the others know of them stay, and the news with them.
LEMMA SameNews ==
    ASSUME NewsOK, UNCHANGED <<versions, latest, unseen>>, disk'[Author] = disk[Author],
           \A d \in Device : \A k \in Range(writer'[d]) :
               k \in Range(writer[d]) \/ GoodNews(k),
           Rising(writer[Author]) => Rising(writer'[Author])
    PROVE  NewsOK'
  <1>1. \A v : Closed(v)' <=> Closed(v)
    BY DEF Closed
  <1>2. \A k : GoodNews(k)' <=> GoodNews(k)
    BY <1>1 DEF GoodNews
  <1>3. \A d \in Device : \A k \in Range(writer'[d]) : GoodNews(k)
    BY DEF NewsOK
  <1>4. \A d \in Device : latest'[d] <= latest'[Author] /\ Closed(latest[d])'
    BY <1>1 DEF NewsOK
  <1>5. Rising(writer[Author])'
    BY DEF NewsOK, Rising
  <1>6. unseen' => disk'[Author] \notin Range(versions')
    BY DEF NewsOK
  <1> QED  BY <1>2, <1>3, <1>4, <1>5, <1>6 DEF NewsOK

\* A version of a content that is not among the first v comes.
LEMMA ClosedOn ==
    ASSUME NEW x \in Content, versions \in Seq(Content), versions' = Append(versions, x)
    PROVE  /\ \A v \in 0..Len(versions) :
                  Closed(v) /\ (\A i \in 1..v : versions[i] # x) => Closed(v)'
           /\ \A v : v = Len(versions) + 1 => Closed(v)'
           /\ \A i \in 1..Len(versions) : versions'[i] = versions[i]
           /\ Len(versions') = Len(versions) + 1 /\ Len(versions) \in Nat
           /\ versions' \in Seq(Content)
  <1>1. /\ versions' \in Seq(Content) /\ Len(versions) \in Nat
        /\ Len(versions') = Len(versions) + 1
        /\ \A i \in 1..Len(versions) : versions'[i] = versions[i]
        /\ versions'[Len(versions) + 1] = x
    BY AppendProperties, LenProperties
  <1>2. ASSUME NEW v \in 0..Len(versions), Closed(v), \A i \in 1..v : versions[i] # x
        PROVE  Closed(v)'
    <2> SUFFICES ASSUME NEW i \in 1..Len(versions'), NEW j \in 1..Len(versions'),
                        i <= v, v < j
                 PROVE  versions'[i] # versions'[j]
      BY DEF Closed
    <2>1. i \in 1..Len(versions) /\ i \in 1..v /\ versions'[i] = versions[i]
      BY <1>1
    <2>2. CASE j \in 1..Len(versions)
      BY <1>1, <1>2, <2>1, <2>2 DEF Closed
    <2>3. CASE j = Len(versions) + 1
      BY <1>1, <1>2, <2>1, <2>3
    <2> QED  BY <1>1, <2>2, <2>3
  <1>3. \A v : v = Len(versions) + 1 => Closed(v)'
    BY <1>1 DEF Closed
  <1> QED  BY <1>1, <1>2, <1>3

LEMMA EditNews ==
    ASSUME IInv, NewsOK, Edit, Reuse = FALSE
    PROVE  NewsOK'
  <1>1. PICK c \in Content : c \notin Range(written) /\ disk' = [disk EXCEPT ![Author] = c]
    BY DEF Edit
  <1>2. disk'[Author] = c
    BY <1>1, PreviewsAssumption DEF IInv, FilesOK
  <1>3. c \notin Range(versions) /\ UNCHANGED <<versions, latest, writer>>
    BY <1>1 DEF IInv, FilesOK, Edit, tasks
  <1>4. \A k : GoodNews(k)' <=> GoodNews(k)
    BY <1>3 DEF GoodNews, Closed
  <1>5. \A d \in Device : Closed(latest[d])' <=> Closed(latest[d])
    BY <1>3 DEF Closed
  <1>6. Rising(writer[Author])' <=> Rising(writer[Author])
    BY <1>3 DEF Rising
  <1> QED  BY <1>2, <1>3, <1>4, <1>5, <1>6 DEF NewsOK

LEMMA NoticeNews ==
    ASSUME IInv, Typed, NewsOK, Notice
    PROVE  NewsOK'
  <1> DEFINE x == disk[Author]
  <1>1. /\ versions' = Append(versions, x) /\ UNCHANGED <<latest, disk>>
        /\ writer' = [writer EXCEPT ![Author] =
                         Append(@, [op |-> "changed", version |-> Len(versions')])]
        /\ ~unseen'
        /\ x \notin Range(versions)
    BY DEF Notice, NewsOK
  <1>2. x \in Content /\ versions \in Seq(Content) /\ Author \in Device
    BY PreviewsAssumption DEF Typed
  <1> HIDE DEF x
  <1>3. /\ \A v \in 0..Len(versions) :
              Closed(v) /\ (\A i \in 1..v : versions[i] # x) => Closed(v)'
        /\ \A v : v = Len(versions) + 1 => Closed(v)'
        /\ Len(versions') = Len(versions) + 1 /\ Len(versions) \in Nat
        /\ versions' \in Seq(Content)
    BY <1>1, <1>2, ClosedOn
  <1>4. \A i \in 1..Len(versions) : versions[i] # x
    BY <1>1, <1>2, LenProperties DEF Range
  <1>5. \A v \in 1..Len(versions) : Closed(v) => Closed(v)'
    BY <1>3, <1>4
  <1>6. PICK k : /\ k \in TypedCommand' /\ k.op = "changed" /\ k.version = Len(versions) + 1
                 /\ writer' = [writer EXCEPT ![Author] = Append(@, k)]
    <2>1. PICK v \in Nat : v = Len(versions') /\ v = Len(versions) + 1 /\ v \in 1..Len(versions')
      BY <1>3
    <2>2. PICK k : k = [op |-> "changed", version |-> v]
      OBVIOUS
    <2>3. k \in Commands /\ k.op = "changed" /\ k.version = v
      BY <2>2 DEF Commands
    <2>4. k \in TypedCommand'
      BY <2>1, <2>3 DEF TypedCommand
    <2> QED  BY <1>1, <2>1, <2>2, <2>3, <2>4
  <1>7. Seq(TypedCommand) \subseteq Seq(TypedCommand')
    BY <1>3, TypedGrows
  <1>8. \A d \in Device : latest[d] \in 1..Len(versions)
    BY DEF Typed
  <1>9. \A d \in Device : \A c \in Range(writer[d]) :
            c.op \in {"changed", "learned"} => c.version \in 1..Len(versions)
    <2>1. \A d \in Device : writer[d] \in Seq(TypedCommand)
      BY DEF Typed
    <2>2. \A d \in Device : Range(writer[d]) \subseteq TypedCommand
      BY <2>1, RangeOfSeq
    <2> QED  BY <2>2 DEF TypedCommand
  <1>10. /\ \A d \in Device \ {Author} : writer'[d] = writer[d]
         /\ Range(writer'[Author]) = Range(writer[Author]) \cup {k}
         /\ (Rising(writer[Author]) /\ \A c \in Range(writer[Author]) :
                 c.op = "changed" /\ k.op = "changed" => c.version <= k.version)
                => Rising(writer'[Author])
    BY <1>2, <1>6, <1>7, ComesOne
  <1>11. Rising(writer[Author])'
    <2>1. \A c \in Range(writer[Author]) : c.op = "changed" => c.version <= k.version
      BY <1>2, <1>3, <1>6, <1>9
    <2>2. Rising(writer'[Author])
      BY <1>10, <2>1 DEF NewsOK
    <2> QED  BY <2>2 DEF Rising
  <1>12. \A d \in Device : \A c \in Range(writer[d]) : GoodNews(c)'
    <2> SUFFICES ASSUME NEW d \in Device, NEW c \in Range(writer[d])
                 PROVE  GoodNews(c)'
      OBVIOUS
    <2>1. GoodNews(c)
      BY DEF NewsOK
    <2>2. c.op \in {"changed", "learned"} => Closed(c.version)'
      BY <1>5, <1>9, <2>1 DEF GoodNews
    <2> QED  BY <1>1, <2>1, <2>2 DEF GoodNews
  <1>13. GoodNews(k)'
    <2>1. latest'[Author] <= k.version
      BY <1>1, <1>2, <1>3, <1>6, <1>8
    <2> QED  BY <1>3, <1>6, <2>1 DEF GoodNews
  <1>14. \A d \in Device : latest'[d] <= latest'[Author] /\ Closed(latest[d])'
    BY <1>1, <1>5, <1>8 DEF NewsOK
  <1>15. \A d \in Device : \A c \in Range(writer'[d]) : GoodNews(c)'
    BY <1>10, <1>12, <1>13
  <1> QED  BY <1>1, <1>11, <1>14, <1>15 DEF NewsOK

LEMMA SentNews ==
    ASSUME Typed, NewsOK, NEW d \in Device, NEW k \in TypedCommand, k.op # "changed", GoodNews(k),
           writer' = [writer EXCEPT ![d] = Append(@, k)], UNCHANGED files
    PROVE  NewsOK'
  <1>1. /\ \A e \in Device \ {d} : writer'[e] = writer[e]
        /\ Range(writer'[d]) = Range(writer[d]) \cup {k}
        /\ Rising(writer[d]) => Rising(writer'[d])
    <2>1. PICK S : S = TypedCommand /\ Seq(TypedCommand) \subseteq Seq(S) /\ k \in S
      OBVIOUS
    <2>2. /\ \A e \in Device \ {d} : writer'[e] = writer[e]
          /\ Range(writer'[d]) = Range(writer[d]) \cup {k}
          /\ (Rising(writer[d]) /\ \A x \in Range(writer[d]) :
                  x.op = "changed" /\ k.op = "changed" => x.version <= k.version)
                 => Rising(writer'[d])
      BY ONLY <2>1, ComesOne, Typed, d \in Device,
         writer' = [writer EXCEPT ![d] = Append(@, k)]
    <2> QED  BY <2>2
  <1>2. \A e \in Device : \A c \in Range(writer'[e]) : c \in Range(writer[e]) \/ GoodNews(c)
    BY <1>1
  <1>3. Rising(writer[Author]) => Rising(writer'[Author])
    BY <1>1, PreviewsAssumption
  <1> QED  BY <1>2, <1>3, SameNews DEF files

LEMMA TakenNews ==
    ASSUME Typed, NewsOK, NEW d \in Device, NEW op, NEW more, more = <<>> \/ more = Warm(d),
           Take(d, op, more), UNCHANGED files
    PROVE  NewsOK'
  <1>1. /\ \A e \in Device \ {d} : writer'[e] = writer[e]
        /\ \A k \in Range(writer'[d]) : k \in Range(writer[d]) \/ k = Preview("cache")
        /\ Rising(writer[d]) => Rising(writer'[d])
    BY TakesOne
  <1>2. GoodNews(Preview("cache"))
    BY DEF GoodNews, Preview
  <1>3. \A e \in Device : \A c \in Range(writer'[e]) : c \in Range(writer[e]) \/ GoodNews(c)
    BY <1>1, <1>2
  <1>4. Rising(writer[Author]) => Rising(writer'[Author])
    BY <1>1, PreviewsAssumption
  <1> QED  BY <1>3, <1>4, SameNews DEF files

LEMMA AnnounceNews ==
    ASSUME Typed, NewsOK, NEW d \in Device, NEW e \in Device, Announce(d, e)
    PROVE  NewsOK'
  <1>1. PICK k : k = [op |-> "learned", version |-> latest[d]]
    OBVIOUS
  <1>2. k \in TypedCommand /\ k.op = "learned" /\ k.version = latest[d]
    <2>1. latest[d] \in Nat /\ latest[d] \in 1..Len(versions)
      BY DEF Typed
    <2> QED  BY <1>1, <2>1 DEF TypedCommand, Commands
  <1>3. GoodNews(k)
    BY <1>2 DEF GoodNews, NewsOK
  <1> QED  BY <1>1, <1>2, <1>3, SentNews DEF Announce

LEMMA OtherNews ==
    ASSUME Typed, NewsOK, NEW d \in Device, Land(d) \/ GetPreview(d) \/ PurgePreviews(d)
    PROVE  NewsOK'
  <1>1. CASE Land(d)
    <2>1. PICK k : k = [op |-> "placed", hash |-> Latest(d)]
      OBVIOUS
    <2>2. k \in TypedCommand /\ k.op = "placed"
      BY <2>1, TypedLatest DEF TypedCommand, Commands
    <2> QED  BY <1>1, <2>1, <2>2, SentNews DEF Land, GoodNews
  <1>2. CASE GetPreview(d)
    BY <1>2, TypedPreview, SentNews DEF GetPreview, GoodNews, Preview
  <1>3. CASE PurgePreviews(d)
    <2>1. PICK k : k = [op |-> "purge"]
      OBVIOUS
    <2>2. k \in TypedCommand /\ k.op = "purge"
      BY <2>1 DEF TypedCommand, Commands
    <2> QED  BY <1>3, <2>1, <2>2, SentNews DEF PurgePreviews, GoodNews
  <1> QED  BY <1>1, <1>2, <1>3

\* The author records what it has announced, and nothing older comes after it.
LEMMA ChangeNews ==
    ASSUME IInv, Typed, NewsOK, NEW d \in Device, Change(d)
    PROVE  NewsOK'
  <1>1. Take(d, "changed", Warm(d)) /\ UNCHANGED <<disk, unseen, versions>>
    BY DEF Change
  <1>2. PICK k : k = Head(writer[d])
    OBVIOUS
  <1>3. /\ writer[d] # <<>> /\ k.op = "changed" /\ k \in Range(writer[d])
        /\ \A e \in Device \ {d} : writer'[e] = writer[e]
        /\ \A c \in Range(writer'[d]) : \/ c \in Range(writer[d]) /\ c \in Range(Tail(writer[d]))
                                        \/ c = Preview("cache")
        /\ Rising(writer[d]) =>
               /\ Rising(writer'[d])
               /\ \A c \in Range(Tail(writer[d])) : c.op = "changed" => k.version <= c.version
    BY <1>1, <1>2, TakesOne
  <1>4. \A e \in Device : \A c \in Range(writer[e]) : c \in GoodCommand(e)
    <2>1. \A e \in Device : writer[e] \in Seq(GoodCommand(e))
      BY DEF IInv, WriterOK
    <2> QED  BY <2>1, RangeOfSeq
  <1>5. d = Author /\ k.version \in Nat
    BY <1>3, <1>4 DEF GoodCommand
  <1>6. latest[Author] <= k.version /\ Closed(k.version)
    BY <1>3, <1>5 DEF NewsOK, GoodNews
  <1>7. /\ latest'[Author] = k.version /\ \A e \in Device \ {Author} : latest'[e] = latest[e]
        /\ \A e \in Device : latest[e] \in Nat
    BY <1>2, <1>5 DEF Change, RecordVersion, Typed
  <1>8. \A v : Closed(v) => Closed(v)'
    BY <1>1 DEF Closed
  <1>9. \A e \in Device : latest'[e] <= latest'[Author] /\ Closed(latest[e])'
    BY <1>5, <1>6, <1>7, <1>8 DEF NewsOK
  <1>10. Rising(writer[Author])'
    BY <1>3, <1>5 DEF NewsOK, Rising
  <1>11. \A e \in Device : \A c \in Range(writer'[e]) : GoodNews(c)'
    <2> SUFFICES ASSUME NEW e \in Device, NEW c \in Range(writer'[e])
                 PROVE  GoodNews(c)'
      OBVIOUS
    <2>1. CASE c = Preview("cache")
      BY <2>1 DEF GoodNews, Preview
    <2>2. CASE c # Preview("cache")
      <3>1. c \in Range(writer[e]) /\ GoodNews(c)
        BY <1>3, <1>5, <2>2 DEF NewsOK
      <3>2. c.op \in {"changed", "learned"} => c.version \in Nat
        BY <1>4, <3>1 DEF GoodCommand
      <3>3. c.op = "learned" => c.version <= latest'[Author] /\ Closed(c.version)'
        BY <1>5, <1>6, <1>7, <1>8, <3>1, <3>2 DEF GoodNews
      <3>4. ASSUME c.op = "changed"
            PROVE  latest'[Author] <= c.version /\ Closed(c.version)'
        <4>1. e = Author
          BY <1>4, <3>1, <3>4 DEF GoodCommand
        <4>2. k.version <= c.version
          BY <1>3, <1>5, <2>2, <3>4, <4>1 DEF NewsOK
        <4> QED  BY <1>7, <1>8, <3>1, <3>4, <4>2 DEF GoodNews
      <3> QED  BY <3>3, <3>4 DEF GoodNews
    <2> QED  BY <2>1, <2>2
  <1>12. unseen' => disk'[Author] \notin Range(versions')
    BY <1>1 DEF NewsOK
  <1> QED  BY <1>9, <1>10, <1>11, <1>12 DEF NewsOK

LEMMA LearnNews ==
    ASSUME Typed, NewsOK, NEW d \in Device, Learn(d)
    PROVE  NewsOK'
  <1>1. Take(d, "learned", <<>>) /\ UNCHANGED <<disk, unseen, versions, written>>
    BY DEF Learn
  <1>2. PICK v : v = Head(writer[d]).version
    OBVIOUS
  <1>3. CASE ~(v > latest[d])
    <2>1. UNCHANGED files
      BY <1>1, <1>2, <1>3 DEF Learn, files
    <2> QED  BY <1>1, <2>1, TakenNews
  <1>4. CASE v > latest[d]
    <2>1. /\ Head(writer[d]).op = "learned" /\ Head(writer[d]) \in Range(writer[d])
          /\ Head(writer[d]) \in TypedCommand
          /\ \A e \in Device \ {d} : writer'[e] = writer[e]
          /\ \A k \in Range(writer'[d]) : k \in Range(writer[d]) \/ k = Preview("cache")
          /\ Rising(writer[d]) => Rising(writer'[d])
      BY <1>1, TakesOne
    <2>2. v <= latest[Author] /\ Closed(v) /\ v \in Nat
      BY <1>2, <2>1 DEF NewsOK, GoodNews, TypedCommand
    <2>3. /\ \A e \in Device : latest[e] \in Nat
          /\ latest'[d] = v /\ \A e \in Device \ {d} : latest'[e] = latest[e]
      BY <1>2, <1>4 DEF Learn, RecordVersion, Typed
    <2>4. d # Author /\ latest'[Author] = latest[Author]
      BY <1>4, <2>2, <2>3, PreviewsAssumption
    <2>5. \A u : Closed(u)' <=> Closed(u)
      BY <1>1 DEF Closed
    <2>6. \A k : GoodNews(k)' <=> GoodNews(k)
      BY <2>4, <2>5 DEF GoodNews
    <2>7. \A e \in Device : latest'[e] <= latest'[Author] /\ Closed(latest[e])'
      BY <2>2, <2>3, <2>4, <2>5 DEF NewsOK
    <2>8. GoodNews(Preview("cache"))
      BY DEF GoodNews, Preview
    <2>9. \A e \in Device : \A k \in Range(writer'[e]) : GoodNews(k)'
      BY <2>1, <2>6, <2>8 DEF NewsOK
    <2>10. Rising(writer[Author])'
      BY <2>1, <2>4, PreviewsAssumption DEF NewsOK, Rising
    <2>11. unseen' => disk'[Author] \notin Range(versions')
      BY <1>1 DEF NewsOK
    <2> QED  BY <2>7, <2>9, <2>10, <2>11 DEF NewsOK
  <1> QED  BY <1>3, <1>4

\* The author's directory is told to place nothing, and any other what it heard of.
LEMMA PlacesHeard ==
    ASSUME IInv, NEW d \in Device
    PROVE  /\ directory[d] \in Seq(Orders) /\ Len(directory[d]) \in Nat
           /\ \A i \in 1..Len(directory[d]) :
                  /\ directory[d][i] \in Orders
                  /\ directory[d][i].op = "place" => /\ d # Author
                                                     /\ directory[d][i].hash \in Heard(d)
                                                     /\ directory[d][i].hash \in Content
  <1>1. directory[d] \in Seq(GoodOrder(d)) /\ directory[d] \in Seq(Orders)
    BY DEF IInv, DirectoryOK
  <1>2. \A i \in 1..Len(directory[d]) : directory[d][i] \in GoodOrder(d)
    BY <1>1, ElementOfSeq
  <1> QED  BY <1>1, <1>2, LenProperties DEF GoodOrder, Orders

LEMMA PlaceTakes ==
    ASSUME IInv, NEW d \in Device, Place(d)
    PROVE  /\ d # Author /\ Head(directory[d]).hash \in Content
           /\ directory[d] # <<>> /\ Head(directory[d]) = directory[d][1]
           /\ Head(directory[d]) = PlaceOrder(Head(directory[d]).hash)
           /\ directory'[d] = Tail(directory[d]) /\ disk'[d] = Head(directory[d]).hash
           /\ \A e \in Device \ {d} : directory'[e] = directory[e] /\ disk'[e] = disk[e]
  <1>1. directory[d] # <<>> /\ Head(directory[d]).op = "place"
    BY DEF Place
  <1>2. directory[d] \in Seq(Orders)
    BY PlacesHeard
  <1>3. Head(directory[d]) = directory[d][1] /\ 1 \in 1..Len(directory[d])
    <2>1. Len(directory[d]) \in Nat /\ Len(directory[d]) > 0
      BY <1>1, <1>2, LenProperties, EmptySeq
    <2> QED  BY <1>1, <1>2, <2>1, HeadTailProperties
  <1>4. /\ d # Author /\ Head(directory[d]).hash \in Content
        /\ Head(directory[d]) \in Orders
    BY <1>1, <1>3, PlacesHeard
  <1>5. Head(directory[d]) = PlaceOrder(Head(directory[d]).hash)
    BY <1>1, <1>4 DEF Orders, PlaceOrder
  <1>6. /\ directory'[d] = Tail(directory[d]) /\ disk'[d] = Head(directory[d]).hash
        /\ \A e \in Device \ {d} : directory'[e] = directory[e] /\ disk'[e] = disk[e]
    BY DEF Place, IInv, FilesOK, DirectoryOK
  <1> QED  BY <1>1, <1>3, <1>4, <1>5, <1>6

LEMMA DirectoryNews ==
    ASSUME IInv, NewsOK, NEW d \in Device, Directory(d)
    PROVE  NewsOK'
  <1>1. disk'[Author] = disk[Author]
    BY PlaceTakes, PreviewsAssumption DEF Directory, ReadFile, files
  <1>2. UNCHANGED <<versions, latest, unseen, writer>>
    BY DEF Directory, Place, ReadFile, files
  <1> QED  BY <1>1, <1>2, SameNews

LEMMA FinishNews ==
    ASSUME Typed, NewsOK, NEW d \in Device, Finish(d)
    PROVE  NewsOK'
  <1>1. PICK j \in jobs[d] : writer' = [writer EXCEPT ![d] = Append(@, Apply(j))]
    BY DEF Finish
  <1>2. Apply(j) \in TypedCommand /\ Apply(j).op = "apply"
    <2>1. j \in Jobs
      BY DEF Typed, TypedJob
    <2> QED  BY <2>1 DEF Apply, TypedCommand, Commands
  <1> QED  BY <1>1, <1>2, SentNews DEF Finish, GoodNews

\* What the scan finds is neither a content the author has recorded, nor one it had.
LEMMA RestartNews ==
    ASSUME IInv, Typed, NewsOK, NEW d \in Device, Restart(d)
    PROVE  NewsOK'
  <1> DEFINE x == disk[Author]
             changed == d = Author /\ disk[d] # Latest(d)
  <1>1. /\ UNCHANGED <<disk, latest, written>> /\ unseen' = (unseen /\ d # Author)
        /\ versions' = IF changed THEN Append(versions, disk[d]) ELSE versions
        /\ writer' = [writer EXCEPT ![d] =
                         IF changed THEN <<[op |-> "changed", version |-> Len(versions')]>>
                         ELSE IF disk[d] = Latest(d) THEN Warm(d) ELSE <<>>]
    BY DEF Restart
  <1>2. /\ \A e \in Device \ {d} : writer'[e] = writer[e]
        /\ writer'[d] = IF changed THEN <<[op |-> "changed", version |-> Len(versions')]>>
                        ELSE IF disk[d] = Latest(d) THEN Warm(d) ELSE <<>>
    BY <1>1 DEF Typed
  <1>3. \A k : Rising(<<k>>) /\ Rising(<<>>)
    BY DEF Rising
  <1>4. /\ \A k : Range(<<k>>) = {k}
        /\ Range(<<>>) = {}
    BY DEF Range
  <1>5. CASE ~changed
    <2>1. \A k \in Range(writer'[d]) : k = Preview("cache")
      BY <1>2, <1>4, <1>5 DEF Warm
    <2>2. Rising(writer'[d])
      BY <1>2, <1>3, <1>5 DEF Warm
    <2>3. GoodNews(Preview("cache"))
      BY DEF GoodNews, Preview
    <2>4. \A e \in Device : \A k \in Range(writer'[e]) : k \in Range(writer[e]) \/ GoodNews(k)
      BY <1>2, <2>1, <2>3
    <2>5. Rising(writer[Author]) => Rising(writer'[Author])
      BY <1>2, <2>2, PreviewsAssumption
    <2>6. UNCHANGED <<versions, latest>> /\ disk'[Author] = disk[Author]
          /\ (unseen' => unseen)
      BY <1>1, <1>5
    <2>7. \A v : Closed(v)' <=> Closed(v)
      BY <2>6 DEF Closed
    <2>8. \A k : GoodNews(k)' <=> GoodNews(k)
      BY <2>6, <2>7 DEF GoodNews
    <2>9. \A e \in Device : \A k \in Range(writer'[e]) : GoodNews(k)'
      BY <2>4, <2>8 DEF NewsOK
    <2>10. \A e \in Device : latest'[e] <= latest'[Author] /\ Closed(latest[e])'
      BY <2>6, <2>7 DEF NewsOK
    <2>11. Rising(writer[Author])'
      BY <2>5 DEF NewsOK, Rising
    <2> QED  BY <2>6, <2>9, <2>10, <2>11 DEF NewsOK
  <1>6. CASE changed
    <2>1. d = Author /\ ~unseen' /\ versions' = Append(versions, x) /\ x # Latest(Author)
      BY <1>1, <1>6
    <2>2. x \in Content /\ versions \in Seq(Content)
      BY DEF Typed
    <2>3. /\ \A v \in 0..Len(versions) :
                 Closed(v) /\ (\A i \in 1..v : versions[i] # x) => Closed(v)'
          /\ \A v : v = Len(versions) + 1 => Closed(v)'
          /\ Len(versions') = Len(versions) + 1 /\ Len(versions) \in Nat
      BY <2>1, <2>2, ClosedOn
    <2>4. \A e \in Device : latest[e] \in 1..Len(versions) /\ latest[e] \in Nat
      BY DEF Typed
    <2>5. x \notin Heard(Author)
      BY <2>1, LatestHeard, PreviewsAssumption DEF IInv, Superseded
    <2>6. \A v \in 1..latest[Author] : Closed(v) => Closed(v)'
      <3>1. Author \in Device
        BY PreviewsAssumption
      <3>2. \A v \in 1..latest[Author] : v \in 0..Len(versions)
                                         /\ \A i \in 1..v : i \in 1..latest[Author]
        BY <2>3, <2>4, <3>1
      <3>3. \A i \in 1..latest[Author] : versions[i] # x
        BY <2>5 DEF Heard
      <3> QED  BY <2>3, <3>2, <3>3
    <2>7. \A e \in Device : \A c \in Range(writer[e]) :
              c \in GoodCommand(e) /\ c \in TypedCommand
      <3>1. \A e \in Device : writer[e] \in Seq(GoodCommand(e)) /\ writer[e] \in Seq(TypedCommand)
        BY DEF IInv, WriterOK, Typed
      <3> QED  BY <3>1, RangeOfSeq
    <2>8. \A e \in Device : latest'[e] <= latest'[Author] /\ Closed(latest[e])'
      <3>1. \A e \in Device : latest[e] \in 1..latest[Author] /\ Closed(latest[e])
        BY <2>4, PreviewsAssumption DEF NewsOK
      <3> QED  BY <1>1, <2>6, <3>1 DEF NewsOK
    <2>9. ASSUME NEW e \in Device \ {Author}, NEW c \in Range(writer[e])
          PROVE  GoodNews(c)'
      <3>1. /\ c.op # "changed" /\ GoodNews(c)
            /\ c.op = "learned" => c.version \in 1..Len(versions)
        BY <2>7 DEF GoodCommand, NewsOK
      <3>2. c.op = "learned" => c.version <= latest[Author] /\ c.version \in 1..latest[Author]
                                    /\ Closed(c.version)
        BY <2>3, <2>4, <3>1, PreviewsAssumption DEF GoodNews
      <3> QED  BY <1>1, <2>6, <3>1, <3>2 DEF GoodNews
    <2>10. PICK v \in Nat : v = Len(versions') /\ v = Len(versions) + 1
      BY <2>3
    <2>11. PICK k : k = [op |-> "changed", version |-> v]
      OBVIOUS
    <2>12. k.op = "changed" /\ k.version = v
      BY <2>11
    <2>13. writer'[Author] = <<k>> /\ Range(writer'[Author]) = {k}
      <3>1. writer'[Author] = <<k>>
        BY <1>2, <1>6, <2>1, <2>10, <2>11
      <3> QED  BY <1>4, <3>1
    <2>14. GoodNews(k)'
      <3>1. latest'[Author] <= v
        BY <1>1, <2>3, <2>4, <2>10, PreviewsAssumption
      <3> QED  BY <2>3, <2>10, <2>12, <3>1 DEF GoodNews
    <2>15. \A e \in Device : \A c \in Range(writer'[e]) : GoodNews(c)'
      <3> SUFFICES ASSUME NEW e \in Device, NEW c \in Range(writer'[e])
                   PROVE  GoodNews(c)'
        OBVIOUS
      <3>1. CASE e = Author
        BY <2>13, <2>14, <3>1
      <3>2. CASE e # Author
        BY <1>2, <2>1, <2>9, <3>2
      <3> QED  BY <3>1, <3>2
    <2>16. Rising(writer[Author])'
      BY <1>3, <2>13 DEF Rising
    <2> QED  BY <2>1, <2>8, <2>15, <2>16 DEF NewsOK
  <1> QED  BY <1>5, <1>6

LEMMA InitNews ==
    ASSUME Init
    PROVE  NewsOK
  <1>1. PICK c \in Content : versions = <<c>>
    BY DEF Init
  <1>2. Closed(1)
    BY <1>1 DEF Closed
  <1>3. /\ latest = [d \in Device |-> 1] /\ ~unseen
        /\ \A d \in Device : writer[d] = <<>> \/ writer[d] = <<Preview("cache")>>
    BY DEF Init, Warm
  <1>4. \A d \in Device : /\ \A k \in Range(writer[d]) : k = Preview("cache")
                          /\ Rising(writer[d])
    BY <1>3 DEF Range, Rising
  <1>5. GoodNews(Preview("cache")) /\ Author \in Device
    BY PreviewsAssumption DEF GoodNews, Preview
  <1> QED  BY <1>2, <1>3, <1>4, <1>5 DEF NewsOK

LEMMA NextNews ==
    ASSUME IInv, Typed, NewsOK, [Next]_vars, Reuse = FALSE
    PROVE  NewsOK'
  <1>1. CASE UNCHANGED vars
    BY <1>1, SameNews DEF vars, files, tasks
  <1>2. CASE Edit \/ Notice
    <2>1. CASE Edit
      BY <2>1, EditNews, Zenon
    <2>2. CASE Notice
      BY <2>2, NoticeNews
    <2> QED  BY <1>2, <2>1, <2>2
  <1>3. ASSUME NEW d \in Device, NEW e \in Device, Announce(d, e)
        PROVE  NewsOK'
    BY <1>3, AnnounceNews
  <1>4. ASSUME NEW d \in Device, Land(d) \/ GetPreview(d) \/ PurgePreviews(d)
        PROVE  NewsOK'
    BY <1>4, OtherNews
  <1>5. ASSUME NEW d \in Device, Write(d)
        PROVE  NewsOK'
    <2>1. CASE Change(d) \/ Learn(d)
      BY <2>1, ChangeNews, LearnNews
    <2>2. CASE Materialize(d) \/ Resolve(d) \/ ApplyPreview(d) \/ Purge(d)
      <3>1. PICK op, more : /\ Take(d, op, more) /\ (more = <<>> \/ more = Warm(d))
                            /\ UNCHANGED files
        BY <2>2 DEF Materialize, Resolve, ApplyPreview, Purge
      <3> QED  BY <3>1, TakenNews
    <2> QED  BY <1>5, <2>1, <2>2 DEF Write
  <1>6. ASSUME NEW d \in Device, Directory(d)
        PROVE  NewsOK'
    BY <1>6, DirectoryNews
  <1>7. ASSUME NEW d \in Device, Work(d) \/ GiveUp(d)
        PROVE  NewsOK'
    <2>1. CASE Finish(d)
      BY <2>1, FinishNews
    <2>2. CASE Start(d) \/ Render(d) \/ AskPeers(d) \/ Serve(d) \/ Decline(d) \/ GiveUp(d)
      <3>1. UNCHANGED <<files, writer>>
        BY <2>2 DEF Start, Render, AskPeers, Serve, Decline, GiveUp
      <3> QED  BY <3>1, SameNews DEF files
    <2> QED  BY <1>7, <2>1, <2>2 DEF Work
  <1>8. ASSUME NEW d \in Device, Restart(d)
        PROVE  NewsOK'
    BY <1>8, RestartNews
  <1> QED  BY <1>1, <1>2, <1>3, <1>4, <1>5, <1>6, <1>7, <1>8 DEF Next

\* What comes to the latest bytes is the latest.
LEMMA Unplaced ==
    ASSUME IInv, NEW c, NEW S
    PROVE  Ordered(directory[Author], c, S)
  BY PlacesHeard, PreviewsAssumption DEF Ordered

LEMMA SamePlaces ==
    ASSUME IInv, PlacesOK, UNCHANGED directory,
           \A d \in Device \ {Author} : disk'[d] = disk[d] /\ Latest(d)' = Latest(d)
    PROVE  PlacesOK'
  <1> SUFFICES ASSUME NEW d \in Device
               PROVE  Ordered(directory'[d], disk'[d], Past(d)')
    BY DEF PlacesOK, Ordered
  <1>1. CASE d = Author
    BY <1>1, Unplaced
  <1>2. CASE d # Author
    BY <1>2 DEF PlacesOK, Past
  <1> QED  BY <1>1, <1>2

LEMMA LatestStays ==
    ASSUME FilesOK, NEW d \in Device, latest'[d] = latest[d],
           \/ versions' = versions
           \/ \E x \in Content : versions' = Append(versions, x)
    PROVE  Latest(d)' = Latest(d)
  <1>1. latest[d] \in 1..Len(versions) /\ versions \in Seq(Content)
    BY DEF FilesOK
  <1>2. CASE versions' = versions
    BY <1>2 DEF Latest
  <1>3. ASSUME NEW x \in Content, versions' = Append(versions, x)
        PROVE  versions'[latest[d]] = versions[latest[d]]
    BY <1>1, <1>3, AppendProperties
  <1>4. CASE \E x \in Content : versions' = Append(versions, x)
    BY <1>3, <1>4 DEF Latest
  <1> QED  BY <1>2, <1>4

\* The latest of a device stays unless it records a version.
LEMMA LatestSteps ==
    ASSUME IInv, Typed
    PROVE  /\ UNCHANGED files => \A d \in Device : Latest(d)' = Latest(d)
           /\ Edit \/ Notice => \A d \in Device : Latest(d)' = Latest(d)
           /\ \A e \in Device : Directory(e) \/ Restart(e)
                                    => \A d \in Device : Latest(d)' = Latest(d)
  <1>1. disk[Author] \in Content /\ \A e \in Device : e = Author => disk[e] \in Content
    BY DEF Typed
  <1>2. ASSUME UNCHANGED files \/ Edit \/ Notice, NEW d \in Device
        PROVE  Latest(d)' = Latest(d)
    <2>1. latest' = latest
      BY <1>2 DEF files, Edit, Notice
    <2>2. versions' = versions \/ \E x \in Content : versions' = Append(versions, x)
      BY <1>1, <1>2 DEF files, Edit, Notice
    <2> QED  BY <2>1, <2>2, LatestStays DEF IInv
  <1>3. ASSUME NEW e \in Device, Directory(e) \/ Restart(e), NEW d \in Device
        PROVE  Latest(d)' = Latest(d)
    <2>1. latest' = latest
      BY <1>3 DEF files, Directory, Place, ReadFile, Restart
    <2>2. versions' = versions \/ \E x \in Content : versions' = Append(versions, x)
      BY <1>1, <1>3 DEF files, Directory, Place, ReadFile, Restart
    <2> QED  BY <2>1, <2>2, LatestStays DEF IInv
  <1> QED  BY <1>2, <1>3

\* A version that a device learns is of no content it has had, or is about to.
LEMMA LearnsNew ==
    ASSUME IInv, Typed, NewsOK, NEW d \in Device, Learn(d), Head(writer[d]).version > latest[d]
    PROVE  /\ d # Author /\ Latest(d)' \in Content /\ disk[d] # Latest(d)'
           /\ \A i \in 1..Len(directory[d]) :
                  directory[d][i].op = "place" => directory[d][i].hash # Latest(d)'
           /\ \A e \in Device \ {d} : Latest(e)' = Latest(e)
  <1>1. Take(d, "learned", <<>>) /\ UNCHANGED versions
    BY DEF Learn
  <1>2. PICK v : v = Head(writer[d]).version
    OBVIOUS
  <1>3. /\ Head(writer[d]).op = "learned" /\ Head(writer[d]) \in Range(writer[d])
        /\ Head(writer[d]) \in TypedCommand
    BY <1>1, TakesOne
  <1>4. v <= latest[Author] /\ v \in 1..Len(versions) /\ v \in Nat /\ v > latest[d]
    BY <1>2, <1>3 DEF NewsOK, GoodNews, TypedCommand
  <1>5. /\ \A e \in Device : latest[e] \in Nat /\ latest[e] \in 1..Len(versions)
        /\ latest'[d] = v /\ \A e \in Device \ {d} : latest'[e] = latest[e]
        /\ versions \in Seq(Content) /\ Len(versions) \in Nat
    BY <1>2, LenProperties DEF Learn, RecordVersion, Typed
  <1>6. d # Author
    BY <1>4, <1>5, PreviewsAssumption
  <1>7. Latest(d)' = versions[v] /\ versions[v] \in Content
    BY <1>1, <1>4, <1>5, ElementOfSeq DEF Latest
  <1>8. \A i \in 1..latest[d] : i \in 1..Len(versions) /\ i <= latest[d]
    BY <1>5
  <1>9. versions[v] \notin Heard(d)
    BY <1>4, <1>8 DEF NewsOK, Closed, Heard
  <1>10. disk[d] # versions[v]
    <2>1. disk[d] \in Heard(d) \cup {Missing}
      BY <1>6 DEF IInv, FilesOK
    <2> QED  BY <1>7, <1>9, <2>1, PreviewsAssumption
  <1>11. \A i \in 1..Len(directory[d]) :
             directory[d][i].op = "place" => directory[d][i].hash # versions[v]
    BY <1>9, PlacesHeard
  <1>12. \A e \in Device \ {d} : Latest(e)' = Latest(e)
    BY <1>1, <1>5 DEF Latest
  <1> QED  BY <1>6, <1>7, <1>10, <1>11, <1>12

LEMMA WriterPlaces ==
    ASSUME IInv, Typed, NewsOK, PlacesOK, NEW d \in Device, Write(d)
    PROVE  PlacesOK'
  <1>1. CASE Change(d)
    <2>1. d = Author
      <3>1. writer[d] \in Seq(GoodCommand(d)) /\ writer[d] # <<>> /\ Head(writer[d]).op = "changed"
        BY <1>1 DEF IInv, WriterOK, Change, Take
      <3> QED  BY <3>1, HeadTailProperties DEF GoodCommand
    <2>2. \A e \in Device \ {Author} : Latest(e)' = Latest(e)
      BY <1>1, <2>1 DEF Change, RecordVersion, Latest, Typed
    <2> QED  BY <1>1, <2>2, SamePlaces DEF Change
  <1>2. CASE Learn(d)
    <2>1. UNCHANGED <<disk, directory, versions>>
      BY <1>2 DEF Learn
    <2>2. CASE Head(writer[d]).version > latest[d]
      <3>1. /\ d # Author /\ Latest(d)' \in Content /\ disk[d] # Latest(d)'
            /\ \A i \in 1..Len(directory[d]) :
                  directory[d][i].op = "place" => directory[d][i].hash # Latest(d)'
            /\ \A e \in Device \ {d} : Latest(e)' = Latest(e)
        BY <1>2, <2>2, LearnsNew
      <3>2. disk[d] \in Past(d)' /\ \A i \in 1..Len(directory[d]) :
                  directory[d][i].op = "place" => directory[d][i].hash \in Past(d)'
        BY <3>1, PlacesHeard DEF Typed, Past
      <3>3. Ordered(directory[d], disk[d], Past(d)')
        BY <3>2 DEF Ordered
      <3>4. \A e \in Device \ {d} : Ordered(directory[e], disk[e], Past(e)')
        BY <3>1 DEF PlacesOK, Past
      <3>5. \A e \in Device : Ordered(directory'[e], disk'[e], Past(e)')
        BY <2>1, <3>3, <3>4
      <3> QED  BY <3>5 DEF PlacesOK, Ordered
    <2>3. CASE ~(Head(writer[d]).version > latest[d])
      <3>1. \A e \in Device : Latest(e)' = Latest(e)
        BY <1>2, <2>3 DEF Learn, Latest
      <3> QED  BY <2>1, <3>1, SamePlaces
    <2> QED  BY <2>2, <2>3
  <1>3. CASE Materialize(d)
    <2>1. PICK c : c = Head(writer[d]).hash
      OBVIOUS
    <2>2. /\ UNCHANGED files
          /\ directory' = IF c # Latest(d) THEN directory
                          ELSE [directory EXCEPT ![d] = Append(@, PlaceOrder(c))]
      BY <1>3, <2>1 DEF Materialize, PlaceOrder
    <2>3. \A e \in Device : Latest(e)' = Latest(e) /\ disk'[e] = disk[e]
      BY <2>2, LatestSteps DEF files
    <2>4. CASE c # Latest(d)
      BY <2>2, <2>3, <2>4, SamePlaces
    <2>5. CASE c = Latest(d)
      <3>1. PICK o : o = PlaceOrder(c)
        OBVIOUS
      <3>2. o \in Orders /\ o.op = "place" /\ o.hash = c /\ c \in Content
        BY <2>5, <3>1, TypedLatest DEF PlaceOrder, Orders
      <3>3. /\ directory[d] \in Seq(Orders)
            /\ Ordered(directory[d], disk[d], Past(d))
        BY DEF PlacesOK, Typed
      <3>4. /\ disk[d] \in Past(d) \cup {c}
            /\ \A i \in 1..Len(directory[d]) : directory[d][i].op = "place"
                                                   => directory[d][i].hash \in Past(d) \cup {c}
        BY <2>5, PlacesHeard DEF Past, Typed
      <3>5. Ordered(Append(directory[d], o), disk[d], Past(d))
        BY <3>2, <3>3, <3>4, OrderAppend
      <3>6. /\ directory'[d] = Append(directory[d], o)
            /\ \A e \in Device \ {d} : directory'[e] = directory[e]
        BY <2>2, <2>5, <3>1 DEF Typed
      <3>7. \A e \in Device : Ordered(directory'[e], disk'[e], Past(e)')
        BY <2>3, <3>5, <3>6 DEF PlacesOK, Past
      <3> QED  BY <3>7 DEF PlacesOK, Ordered
    <2> QED  BY <2>4, <2>5
  <1>4. CASE Resolve(d) \/ ApplyPreview(d) \/ Purge(d)
    <2>1. UNCHANGED <<files, directory>>
      BY <1>4 DEF Resolve, ApplyPreview, Purge
    <2> QED  BY <2>1, LatestSteps, SamePlaces DEF files
  <1> QED  BY <1>1, <1>2, <1>3, <1>4 DEF Write

\* One more file to read changes no place.
LEMMA ReadPlaces ==
    ASSUME IInv, Typed, PlacesOK, UNCHANGED files, NEW d \in Device, NEW j \in Jobs,
           directory' = [directory EXCEPT ![d] = Append(@, ReadOrder(j))]
    PROVE  PlacesOK'
  <1>1. PICK o : o = ReadOrder(j) /\ o \in Orders /\ o.op = "read"
    BY DEF ReadOrder, Orders
  <1>2. /\ directory[d] \in Seq(Orders)
        /\ Ordered(directory[d], disk[d], Past(d))
    BY DEF PlacesOK, Typed
  <1>3. Ordered(Append(directory[d], o), disk[d], Past(d))
    BY <1>1, <1>2, OrderAppend
  <1>4. /\ directory'[d] = Append(directory[d], o)
        /\ \A e \in Device \ {d} : directory'[e] = directory[e]
    BY <1>1 DEF Typed
  <1>5. \A e \in Device : Latest(e)' = Latest(e) /\ disk'[e] = disk[e]
    BY LatestSteps DEF files
  <1>6. \A e \in Device : Ordered(directory'[e], disk'[e], Past(e)')
    BY <1>3, <1>4, <1>5 DEF PlacesOK, Past
  <1> QED  BY <1>6 DEF PlacesOK, Ordered

\* The directories take the first of what they were told.
LEMMA DirectoryPlaces ==
    ASSUME IInv, Typed, PlacesOK, NEW d \in Device, Directory(d)
    PROVE  PlacesOK'
  <1>1. \A e \in Device : Latest(e)' = Latest(e)
    BY LatestSteps
  <1>2. /\ directory[d] \in Seq(Orders) /\ directory[d] # <<>>
        /\ Ordered(directory[d], disk[d], Past(d))
        /\ directory'[d] = Tail(directory[d])
        /\ \A e \in Device \ {d} : directory'[e] = directory[e] /\ disk'[e] = disk[e]
    BY DEF Directory, Place, ReadFile, PlacesOK, Typed, files
  <1>3. Ordered(Tail(directory[d]), disk'[d], Past(d))
    <2>1. CASE Place(d)
      <3>1. Head(directory[d]).op = "place" /\ disk'[d] = Head(directory[d]).hash
        BY <2>1 DEF Place, Typed
      <3> QED  BY <1>2, <3>1, OrderTail
    <2>2. CASE ReadFile(d)
      <3>1. Head(directory[d]).op # "place" /\ disk' = disk
        BY <2>2 DEF ReadFile, files
      <3> QED  BY <1>2, <3>1, OrderTail
    <2> QED  BY <2>1, <2>2 DEF Directory
  <1>4. \A e \in Device : Ordered(directory'[e], disk'[e], Past(e)')
    BY <1>1, <1>2, <1>3 DEF PlacesOK, Past
  <1> QED  BY <1>4 DEF PlacesOK, Ordered

LEMMA WorkPlaces ==
    ASSUME IInv, Typed, PlacesOK, NEW d \in Device, Work(d) \/ GiveUp(d)
    PROVE  PlacesOK'
  <1>1. UNCHANGED files
    BY DEF Work, Start, Render, AskPeers, Serve, Decline, Finish, GiveUp
  <1>2. CASE UNCHANGED directory
    BY <1>1, <1>2, LatestSteps, SamePlaces DEF files
  <1>3. CASE directory' # directory
    <2>1. PICK j \in Jobs : directory' = [directory EXCEPT ![d] = Append(@, ReadOrder(j))]
      <3>1. CASE Start(d)
        <4>1. PICK j \in jobs[d] :
                  directory' = [directory EXCEPT ![d] = Append(@, ReadOrder(To(j, "reading")))]
          BY <1>3, <3>1 DEF Start, ReadOrder
        <4>2. j \in Jobs
          BY DEF Typed, TypedJob
        <4>3. To(j, "reading") \in Jobs
          BY <4>2, ToParts DEF Stages
        <4> QED  BY <4>1, <4>3
      <3>2. CASE Serve(d)
        <4>1. PICK r \in requests :
                  directory' = [directory EXCEPT ![d] =
                                    Append(@, ReadOrder(Job(r[1], r[3], "reading")))]
          BY <1>3, <3>2 DEF Serve, ReadOrder
        <4>2. r[1] \in Asker /\ r[3] \in Content
          BY DEF Typed, Asker
        <4>3. Job(r[1], r[3], "reading") \in Jobs
          BY <4>2, JobParts DEF Stages
        <4> QED  BY <4>1, <4>3
      <3> QED  BY <1>3, <3>1, <3>2 DEF Work, Render, AskPeers, Decline, Finish, GiveUp
    <2> QED  BY <1>1, <2>1, ReadPlaces
  <1> QED  BY <1>2, <1>3

LEMMA RestartPlaces ==
    ASSUME IInv, Typed, PlacesOK, NEW d \in Device, Restart(d)
    PROVE  PlacesOK'
  <1>1. /\ directory'[d] = <<>> /\ \A e \in Device \ {d} : directory'[e] = directory[e]
        /\ disk' = disk
    BY DEF Restart, Typed
  <1>2. \A e \in Device : Latest(e)' = Latest(e)
    BY LatestSteps
  <1>3. Ordered(<<>>, disk[d], Past(d))
    BY OrderNone
  <1>4. \A e \in Device : Ordered(directory'[e], disk'[e], Past(e)')
    BY <1>1, <1>2, <1>3 DEF PlacesOK, Past
  <1> QED  BY <1>4 DEF PlacesOK, Ordered

LEMMA NextPlaces ==
    ASSUME IInv, Typed, NewsOK, PlacesOK, [Next]_vars
    PROVE  PlacesOK'
  <1>1. CASE UNCHANGED vars
    BY <1>1, LatestSteps, SamePlaces DEF vars, files, tasks
  <1>2. CASE Edit \/ Notice
    <2>1. UNCHANGED directory /\ \A e \in Device \ {Author} : disk'[e] = disk[e]
      BY <1>2 DEF Edit, Notice, tasks, Typed
    <2> QED  BY <1>2, <2>1, LatestSteps, SamePlaces
  <1>3. ASSUME NEW d \in Device,
               (\E e \in Device : Announce(d, e)) \/ Land(d) \/ GetPreview(d) \/ PurgePreviews(d)
        PROVE  PlacesOK'
    <2>1. UNCHANGED <<files, directory>>
      BY <1>3 DEF Announce, Land, GetPreview, PurgePreviews
    <2> QED  BY <2>1, LatestSteps, SamePlaces DEF files
  <1>4. ASSUME NEW d \in Device, Write(d)
        PROVE  PlacesOK'
    BY <1>4, WriterPlaces
  <1>5. ASSUME NEW d \in Device, Directory(d)
        PROVE  PlacesOK'
    BY <1>5, DirectoryPlaces
  <1>6. ASSUME NEW d \in Device, Work(d) \/ GiveUp(d)
        PROVE  PlacesOK'
    BY <1>6, WorkPlaces
  <1>7. ASSUME NEW d \in Device, Restart(d)
        PROVE  PlacesOK'
    BY <1>7, RestartPlaces
  <1> QED  BY <1>1, <1>2, <1>3, <1>4, <1>5, <1>6, <1>7 DEF Next

\* Jobs that do not ask stay as they are, and none comes to hold a file.
Stay(T, U) == /\ \A j \in T : j.stage # "asking" => j \in U
              /\ \A j \in U : j.stage = "generating" => j \in T

LEMMA MissedStay ==
    ASSUME NEW T, T \subseteq TypedJob, NEW c
    PROVE  Stay(T, Missed(T, c))
  <1> DEFINE next(j) == IF j.stage = "asking" /\ j.hash = c THEN Done(j, Missing) ELSE j
  <1>1. ASSUME NEW j \in T
        PROVE  /\ j.stage # "asking" => next(j) = j
               /\ next(j).stage = "generating" => next(j) = j
    BY DEF Done, TypedJob, Jobs
  <1>2. Missed(T, c) = {next(j) : j \in T}
    BY DEF Missed
  <1> HIDE DEF next
  <1>3. \A j \in T : j.stage # "asking" => j \in {next(i) : i \in T}
    BY <1>1
  <1>4. \A k \in {next(i) : i \in T} : k.stage = "generating" => k \in T
    BY <1>1
  <1> QED  BY <1>2, <1>3, <1>4 DEF Stay

LEMMA DataStay ==
    ASSUME NEW js \in [Device -> SUBSET TypedJob], NEW d \in Device, NEW c, NEW p,
           Data(js, d, c, p)
    PROVE  \A e \in Device : Stay(js[e], jobs'[e])
  <1> DEFINE waiting == {j \in js[d] : j.stage = "asking" /\ j.hash = c}
             T == (js[d] \ waiting) \cup {Done(j, p) : j \in waiting}
  <1>1. \A j \in waiting : Done(j, p).stage = "done" /\ j.stage = "asking"
    BY DEF Done, TypedJob, Jobs
  <1>2. jobs' = [js EXCEPT ![d] = T]
    BY DEF Data
  <1>3. Stay(js[d], T)
    <2>1. \A j \in js[d] : j.stage # "asking" => j \in T
      OBVIOUS
    <2>2. \A k \in T : k.stage = "generating" => k \in js[d]
      BY <1>1
    <2> QED  BY <2>1, <2>2 DEF Stay
  <1> HIDE DEF T, waiting
  <1> QED  BY <1>2, <1>3 DEF Stay

LEMMA MissStay ==
    ASSUME NEW table, NEW js \in [Device -> SUBSET TypedJob], NEW d \in Device, NEW m, NEW c,
           Miss(table, js, d, m, c)
    PROVE  \A e \in Device : Stay(js[e], jobs'[e])
  <1>1. PICK T : T = Missed(js[d], c)
    OBVIOUS
  <1>2. Stay(js[d], T)
    <2>1. js[d] \subseteq TypedJob
      OBVIOUS
    <2> QED  BY <1>1, <2>1, MissedStay
  <1>3. jobs' = [js EXCEPT ![d] = T] \/ jobs' = js
    BY <1>1 DEF Miss
  <1> QED  BY <1>2, <1>3 DEF Stay

\* What a peer's miss or answer, and the end of a wait, do to the jobs.
LEMMA AnswersStay ==
    ASSUME Typed, NEW d \in Device
    PROVE  /\ Serve(d) => \A e \in Device : Stay(jobs[e], jobs'[e])
           /\ Decline(d) => \A e \in Device : \E T \in SUBSET jobs[e] :
                                Stay(T, jobs'[e]) /\ \A j \in jobs[e] \ T : j.who \in Device
           /\ GiveUp(d) => \A e \in Device : Stay(jobs[e], jobs'[e])
           /\ Restart(d) => \A e \in Device \ {d} : Stay(jobs[e], jobs'[e])
  <1>1. jobs \in [Device -> SUBSET TypedJob]
    BY DEF Typed
  <1>2. ASSUME Serve(d)
        PROVE  \A e \in Device : Stay(jobs[e], jobs'[e])
    <2>1. PICK r \in requests :
            \/ Data(jobs, r[1], r[3], rows[d][r[3]])
            \/ jobs' = [jobs EXCEPT ![d] = @ \cup {Job(r[1], r[3], "reading")}]
            \/ Miss(pending, jobs, r[1], d, r[3])
      BY <1>2 DEF Serve
    <2>2. r[1] \in Device
      BY DEF Typed
    <2>3. CASE Data(jobs, r[1], r[3], rows[d][r[3]])
      BY <1>1, <2>2, <2>3, DataStay
    <2>4. CASE jobs' = [jobs EXCEPT ![d] = @ \cup {Job(r[1], r[3], "reading")}]
      <3>1. Job(r[1], r[3], "reading").stage = "reading"
        BY DEF Job
      <3> QED  BY <1>1, <2>4, <3>1 DEF Stay
    <2>5. CASE Miss(pending, jobs, r[1], d, r[3])
      BY <1>1, <2>2, <2>5, MissStay
    <2> QED  BY <2>1, <2>3, <2>4, <2>5
  <1>3. ASSUME Decline(d), NEW e \in Device
        PROVE  \E T \in SUBSET jobs[e] : /\ Stay(T, jobs'[e])
                                         /\ \A j \in jobs[e] \ T : j.who \in Device
    <2>1. PICK j \in jobs[d] \ Own(d) :
              Miss(pending, [jobs EXCEPT ![d] = @ \ {j}], j.who, d, j.hash)
      BY <1>3 DEF Decline
    <2>2. j.who \in Device
      BY <2>1 DEF Own
    <2>3. PICK js : js = [jobs EXCEPT ![d] = @ \ {j}]
      OBVIOUS
    <2>4. /\ js \in [Device -> SUBSET TypedJob] /\ js[e] \in SUBSET jobs[e]
          /\ \A k \in jobs[e] \ js[e] : k = j
      BY <1>1, <2>3
    <2>5. Stay(js[e], jobs'[e])
      BY <2>1, <2>2, <2>3, <2>4, MissStay
    <2> QED  BY <2>2, <2>4, <2>5
  <1>4. ASSUME GiveUp(d), NEW e \in Device
        PROVE  Stay(jobs[e], jobs'[e])
    <2>1. PICK c \in Content : jobs' = [jobs EXCEPT ![d] = Missed(@, c)]
      BY <1>4 DEF GiveUp
    <2>2. Stay(jobs[d], Missed(jobs[d], c)) /\ Stay(jobs[e], jobs[e])
      BY <1>1, MissedStay DEF Stay
    <2> QED  BY <1>1, <2>1, <2>2
  <1>5. ASSUME Restart(d), NEW e \in Device \ {d}
        PROVE  Stay(jobs[e], jobs'[e])
    <2>1. PICK S : jobs'[e] = {IF j.stage = "asking" /\ j.hash \in S THEN Done(j, Missing) ELSE j
                                   : j \in jobs[e]}
      BY <1>5 DEF Restart
    <2> DEFINE next(j) == IF j.stage = "asking" /\ j.hash \in S THEN Done(j, Missing) ELSE j
    <2>2. ASSUME NEW j \in jobs[e]
          PROVE  /\ j.stage # "asking" => next(j) = j
                 /\ next(j).stage = "generating" => next(j) = j
      BY <1>1 DEF Done, TypedJob, Jobs
    <2>3. jobs'[e] = {next(j) : j \in jobs[e]}
      BY <2>1
    <2> HIDE DEF next
    <2> QED  BY <2>2, <2>3 DEF Stay
  <1> QED  BY <1>2, <1>3, <1>4, <1>5

LEMMA HeldOn ==
    ASSUME HeldOK, \A d \in Device : disk'[d] = disk[d] \/ disk'[d] # Missing,
           \A d \in Device : \A o \in Range(directory'[d]) :
               o \in Range(directory[d]) \/ (o.op = "read" => o.job.stage = "reading"),
           \A d \in Device : \A j \in jobs'[d] :
               j.stage = "generating" => j \in jobs[d] \/ disk'[d] # Missing
    PROVE  HeldOK'
  BY DEF HeldOK

\* The first order is taken, or one comes last.
LEMMA OrdersStay ==
    ASSUME Typed, NEW d \in Device
    PROVE  /\ directory[d] # <<>> => \A o \in Range(Tail(directory[d])) : o \in Range(directory[d])
           /\ \A o \in Orders : Range(Append(directory[d], o)) = Range(directory[d]) \cup {o}
  <1>1. PICK q \in Seq(Orders) : q = directory[d]
    BY DEF Typed
  <1>2. \A o \in Orders : Range(Append(q, o)) = Range(q) \cup {o}
    BY RangeAppend
  <1>3. q # <<>> => Range(Tail(q)) \subseteq Range(q)
    BY PartsOfRange
  <1> QED  BY <1>1, <1>2, <1>3

LEMMA DirectoryHeld ==
    ASSUME IInv, Typed, HeldOK, NEW d \in Device, Directory(d)
    PROVE  HeldOK'
  <1>1. /\ directory[d] # <<>> /\ directory'[d] = Tail(directory[d])
        /\ \A e \in Device \ {d} : directory'[e] = directory[e]
    BY DEF Directory, Place, ReadFile, Typed
  <1>2. \A e \in Device : \A o \in Range(directory'[e]) : o \in Range(directory[e])
    BY <1>1, OrdersStay
  <1>3. CASE Place(d)
    <2>1. \A e \in Device : disk'[e] = disk[e] \/ disk'[e] # Missing
      BY <1>3, PlaceTakes, PreviewsAssumption
    <2>2. jobs' = jobs
      BY <1>3 DEF Place
    <2> QED  BY <1>2, <2>1, <2>2, HeldOn
  <1>4. CASE ReadFile(d)
    <2>1. disk' = disk
      BY <1>4 DEF ReadFile, files
    <2>2. PICK j, k : /\ j = Head(directory[d]).job
                      /\ k = To(j, IF disk[d] = j.hash THEN "generating" ELSE "absent")
                      /\ \/ jobs' = jobs
                         \/ j \in jobs[d] /\ \E T : jobs' = [jobs EXCEPT ![d] = (@ \ T) \cup {k}]
      BY <1>4 DEF ReadFile
    <2>3. \A e \in Device : \A x \in jobs'[e] :
              x \in jobs[e] \/ (j \in jobs[d] /\ e = d /\ x = k)
      BY <2>2 DEF Typed
    <2>4. j \in jobs[d] /\ k.stage = "generating" => disk[d] # Missing
      <3>1. j \in jobs[d] => j.hash \in Content /\ j \in Jobs
        BY DEF Typed, TypedJob, Jobs
      <3>2. j \in Jobs /\ disk[d] # j.hash => k.stage = "absent"
        BY <2>2 DEF To, Jobs
      <3> QED  BY <3>1, <3>2, PreviewsAssumption
    <2> QED  BY <1>2, <2>1, <2>3, <2>4, HeldOn
  <1> QED  BY <1>3, <1>4 DEF Directory

LEMMA RenderJobs ==
    ASSUME Typed, NEW d \in Device, NEW j \in jobs[d], NEW k \in Jobs, k.stage # "generating",
           jobs' = [jobs EXCEPT ![d] = (@ \ {j}) \cup {k}]
    PROVE  \A e \in Device : \A x \in jobs'[e] : x.stage = "generating" => x \in jobs[e]
  BY DEF Typed

LEMMA WorkHeld ==
    ASSUME Typed, HeldOK, NEW d \in Device, Work(d) \/ GiveUp(d) \/ Restart(d)
    PROVE  HeldOK'
  <1>1. disk' = disk
    BY DEF Work, Start, Render, AskPeers, Serve, Decline, Finish, GiveUp, Restart, files
  <1>2. \A j : ReadOrder(j).job = j /\ ReadOrder(j).op = "read"
    BY DEF ReadOrder
  <1>3. ASSUME NEW e \in Device, NEW j \in jobs[e]
        PROVE  j \in Jobs /\ j \in TypedJob
    BY DEF Typed, TypedJob
  <1>4. CASE Start(d)
    <2>1. PICK j, k :
            /\ j \in jobs[d]
            /\ k = To(j, "reading") \/ k = To(j, "absent")
            /\ jobs' = [jobs EXCEPT ![d] = (@ \ {j}) \cup {k}]
            /\ \/ UNCHANGED directory
               \/ /\ k = To(j, "reading")
                  /\ directory' = [directory EXCEPT ![d] = Append(@, ReadOrder(k))]
      BY <1>4 DEF Start, ReadOrder
    <2>2. /\ k \in Jobs /\ k.stage # "generating" /\ (k = To(j, "reading") => k.stage = "reading")
      BY <1>3, <2>1, ToParts DEF Stages
    <2>3. \A e \in Device : \A x \in jobs'[e] : x.stage = "generating" => x \in jobs[e]
      BY <2>1, <2>2, RenderJobs
    <2>4. \A e \in Device : \A o \in Range(directory'[e]) :
              o \in Range(directory[e]) \/ (o.op = "read" => o.job.stage = "reading")
      <3>1. CASE UNCHANGED directory
        BY <3>1
      <3>2. CASE k.stage = "reading"
                 /\ directory' = [directory EXCEPT ![d] = Append(@, ReadOrder(k))]
        <4>1. ReadOrder(k) \in Orders
          BY <2>2 DEF ReadOrder, Orders
        <4>2. Range(directory'[d]) = Range(directory[d]) \cup {ReadOrder(k)}
              /\ \A e \in Device \ {d} : directory'[e] = directory[e]
          BY <3>2, <4>1, OrdersStay DEF Typed
        <4> QED  BY <1>2, <3>2, <4>2
      <3> QED  BY <2>1, <2>2, <3>1, <3>2
    <2> QED  BY <1>1, <2>3, <2>4, HeldOn
  <1>5. CASE Serve(d)
    <2>1. \A e \in Device : \A x \in jobs'[e] : x.stage = "generating" => x \in jobs[e]
      BY <1>5, AnswersStay DEF Stay
    <2>2. \A e \in Device : \A o \in Range(directory'[e]) :
              o \in Range(directory[e]) \/ (o.op = "read" => o.job.stage = "reading")
      <3>1. PICK r \in requests :
              \/ UNCHANGED directory
              \/ directory' = [directory EXCEPT ![d] =
                                   Append(@, ReadOrder(Job(r[1], r[3], "reading")))]
        BY <1>5 DEF Serve, ReadOrder
      <3>2. PICK k : k = Job(r[1], r[3], "reading")
        OBVIOUS
      <3>3. k \in Jobs /\ k.stage = "reading"
        <4>1. r[1] \in Asker /\ r[3] \in Content
          BY DEF Typed, Asker
        <4> QED  BY <3>2, <4>1, JobParts DEF Stages
      <3>4. CASE UNCHANGED directory
        BY <3>4
      <3>5. CASE directory' = [directory EXCEPT ![d] = Append(@, ReadOrder(k))]
        <4>1. ReadOrder(k) \in Orders
          BY <3>3 DEF ReadOrder, Orders
        <4>2. Range(directory'[d]) = Range(directory[d]) \cup {ReadOrder(k)}
              /\ \A e \in Device \ {d} : directory'[e] = directory[e]
          BY <3>5, <4>1, OrdersStay DEF Typed
        <4> QED  BY <1>2, <3>3, <4>2
      <3> QED  BY <3>1, <3>2, <3>4, <3>5
    <2> QED  BY <1>1, <2>1, <2>2, HeldOn
  <1>6. CASE Render(d)
    <2>1. PICK j \in jobs[d], shown \in Shown :
            \/ jobs' = [jobs EXCEPT ![d] = (@ \ {j}) \cup {To(j, "absent")}]
            \/ j.who \in Device /\ Data([jobs EXCEPT ![d] = @ \ {j}], j.who, j.hash, shown)
            \/ jobs' = [jobs EXCEPT ![d] = (@ \ {j}) \cup {Done(j, shown)}]
      BY <1>6, GenerateShown DEF Render, Typed
    <2>2. \A e \in Device : \A x \in jobs'[e] : x.stage = "generating" => x \in jobs[e]
      <3>1. CASE jobs' = [jobs EXCEPT ![d] = (@ \ {j}) \cup {To(j, "absent")}]
        BY <1>3, <3>1, ToParts, RenderJobs DEF Stages
      <3>2. CASE jobs' = [jobs EXCEPT ![d] = (@ \ {j}) \cup {Done(j, shown)}]
        BY <1>3, <3>2, DoneParts, RenderJobs
      <3>3. CASE j.who \in Device /\ Data([jobs EXCEPT ![d] = @ \ {j}], j.who, j.hash, shown)
        <4>1. PICK js : js = [jobs EXCEPT ![d] = @ \ {j}]
          OBVIOUS
        <4>2. js \in [Device -> SUBSET TypedJob] /\ \A e \in Device : js[e] \subseteq jobs[e]
          BY <4>1 DEF Typed
        <4>3. \A e \in Device : Stay(js[e], jobs'[e])
          BY <3>3, <4>1, <4>2, DataStay
        <4> QED  BY <4>2, <4>3 DEF Stay
      <3> QED  BY <2>1, <3>1, <3>2, <3>3
    <2>3. directory' = directory
      BY <1>6 DEF Render
    <2> QED  BY <1>1, <2>2, <2>3, HeldOn
  <1>7. CASE AskPeers(d)
    <2>1. PICK j, k : /\ j \in jobs[d] /\ (k = Done(j, Missing) \/ k = To(j, "asking"))
                      /\ jobs' = [jobs EXCEPT ![d] = (@ \ {j}) \cup {k}]
      BY <1>7 DEF AskPeers, Own
    <2>2. k \in Jobs /\ k.stage # "generating"
      BY <1>3, <2>1, ToParts, DoneParts DEF Stages, Shown
    <2>3. \A e \in Device : \A x \in jobs'[e] : x.stage = "generating" => x \in jobs[e]
      BY <2>1, <2>2, RenderJobs
    <2>4. directory' = directory
      BY <1>7 DEF AskPeers
    <2> QED  BY <1>1, <2>3, <2>4, HeldOn
  <1>8. CASE Decline(d) \/ GiveUp(d)
    <2>1. \A e \in Device : \A x \in jobs'[e] : x.stage = "generating" => x \in jobs[e]
      BY <1>8, AnswersStay DEF Stay
    <2>2. directory' = directory
      BY <1>8 DEF Decline, GiveUp
    <2> QED  BY <1>1, <2>1, <2>2, HeldOn
  <1>9. CASE Finish(d)
    <2>1. \A e \in Device : jobs'[e] \subseteq jobs[e]
      BY <1>9 DEF Finish, Typed
    <2>2. directory' = directory
      BY <1>9 DEF Finish
    <2> QED  BY <1>1, <2>1, <2>2, HeldOn
  <1>10. CASE Restart(d)
    <2>1. /\ directory'[d] = <<>> /\ jobs'[d] = {}
          /\ \A e \in Device \ {d} : directory'[e] = directory[e]
      BY <1>10 DEF Restart, Typed
    <2>2. \A e \in Device : \A x \in jobs'[e] : x.stage = "generating" => x \in jobs[e]
      BY <1>10, <2>1, AnswersStay DEF Stay
    <2>3. Range(<<>>) = {}
      BY DEF Range
    <2> QED  BY <1>1, <2>1, <2>2, <2>3, HeldOn
  <1> QED  BY <1>4, <1>5, <1>6, <1>7, <1>8, <1>9, <1>10 DEF Work

LEMMA WriterHeld ==
    ASSUME Typed, HeldOK, NEW d \in Device, Write(d)
    PROVE  HeldOK'
  <1>1. disk' = disk
    BY DEF Write, Change, Learn, Materialize, Resolve, ApplyPreview, Purge, files
  <1>2. \A e \in Device : \A o \in Range(directory'[e]) :
            o \in Range(directory[e]) \/ (o.op = "read" => o.job.stage = "reading")
    <2>1. CASE UNCHANGED directory
      BY <2>1
    <2>2. CASE directory' # directory
      <3>1. PICK o : /\ o = PlaceOrder(Latest(d))
                     /\ directory' = [directory EXCEPT ![d] = Append(@, o)]
        BY <2>2 DEF Write, Change, Learn, Materialize, Resolve, ApplyPreview, Purge, PlaceOrder
      <3>2. o \in Orders /\ o.op = "place"
        BY <3>1, TypedLatest DEF PlaceOrder, Orders
      <3>3. Range(directory'[d]) = Range(directory[d]) \cup {o}
            /\ \A e \in Device \ {d} : directory'[e] = directory[e]
        BY <3>1, <3>2, OrdersStay DEF Typed
      <3> QED  BY <3>2, <3>3
    <2> QED  BY <2>1, <2>2
  <1>3. \A e \in Device : \A x \in jobs'[e] : x.stage = "generating" => x \in jobs[e]
    <2>1. CASE UNCHANGED jobs
      BY <2>1
    <2>2. CASE jobs' # jobs
      <3>1. Resolve(d)
        BY <2>2 DEF Write, Change, Learn, Materialize, ApplyPreview, Purge
      <3>2. PICK k : k = Job(Head(writer[d]).who, Latest(d), "waiting")
        OBVIOUS
      <3>3. k.stage = "waiting"
        BY <3>2 DEF Job
      <3>4. jobs' = [jobs EXCEPT ![d] = @ \cup {k}]
        BY <2>2, <3>1, <3>2 DEF Resolve
      <3> QED  BY <3>3, <3>4 DEF Typed
    <2> QED  BY <2>1, <2>2
  <1> QED  BY <1>1, <1>2, <1>3, HeldOn

LEMMA NextHeld ==
    ASSUME IInv, Typed, HeldOK, [Next]_vars
    PROVE  HeldOK'
  <1>1. CASE UNCHANGED vars
    BY <1>1 DEF vars, files, tasks, HeldOK
  <1>2. CASE Edit \/ Notice
    <2>1. UNCHANGED <<directory, jobs>>
          /\ \A e \in Device : disk'[e] = disk[e] \/ disk'[e] # Missing
      BY <1>2, PreviewsAssumption DEF Edit, Notice, tasks, Typed
    <2> QED  BY <2>1, HeldOn
  <1>3. ASSUME NEW d \in Device,
               (\E e \in Device : Announce(d, e)) \/ Land(d) \/ GetPreview(d) \/ PurgePreviews(d)
        PROVE  HeldOK'
    <2>1. UNCHANGED <<disk, directory, jobs>>
      BY <1>3 DEF Announce, Land, GetPreview, PurgePreviews, files
    <2> QED  BY <2>1, HeldOn
  <1>4. ASSUME NEW d \in Device, Write(d)
        PROVE  HeldOK'
    BY <1>4, WriterHeld
  <1>5. ASSUME NEW d \in Device, Directory(d)
        PROVE  HeldOK'
    BY <1>5, DirectoryHeld
  <1>6. ASSUME NEW d \in Device, Work(d) \/ GiveUp(d) \/ Restart(d)
        PROVE  HeldOK'
    BY <1>6, WorkHeld
  <1> QED  BY <1>1, <1>2, <1>3, <1>4, <1>5, <1>6 DEF Next

\* What a step has to show for a device whose latest stays.
LEMMA WarmedOn ==
    ASSUME NEW e, NEW c, Latest(e) = c, Latest(e)' = c, Warmed(e),
           Brings(e, c)' => Brings(e, c),
           Brings(e, c) /\ OnTheWay(e, c) => OnTheWay(e, c)'
    PROVE  Warmed(e)'
  <1>1. Brings(e, c) => OnTheWay(e, c)
    BY DEF Warmed
  <1>2. Brings(e, c)' => OnTheWay(e, c)'
    BY <1>1
  <1> QED  BY <1>2 DEF Warmed, Brings, OnTheWay, Promises, SoonRead

LEMMA WayOn ==
    ASSUME NEW e, NEW c, OnTheWay(e, c),
           rows[e][c] # Missing => OnTheWay(e, c)',
           \A k \in Range(writer[e]) : Prompts(k, c) => \/ k \in Range(writer'[e])
                                                        \/ OnTheWay(e, c)',
           \A j \in jobs[e] : Promises(e, j, c) => \/ j \in jobs'[e] /\ Promises(e, j, c)'
                                                   \/ OnTheWay(e, c)'
    PROVE  OnTheWay(e, c)'
  <1>1. \A k : Prompts(k, c)' <=> Prompts(k, c)
    BY DEF Prompts
  <1> QED  BY <1>1 DEF OnTheWay

LEMMA Undisturbed ==
    ASSUME NEW e, Warmed(e), Latest(e)' = Latest(e), disk'[e] = disk[e],
           directory'[e] = directory[e], rows'[e] = rows[e],
           \A k \in Range(writer[e]) : k \in Range(writer'[e]) \/ k.op \in {"learned", "placed"},
           \A j \in jobs[e] : j.who \notin Device /\ j.stage \notin {"asking", "absent"}
                                  => j \in jobs'[e]
    PROVE  Warmed(e)'
  <1>1. PICK c : c = Latest(e)
    OBVIOUS
  <1>2. Brings(e, c)' <=> Brings(e, c)
    BY DEF Brings
  <1>3. \A j : Promises(e, j, c) => Promises(e, j, c)' /\ j.who \notin Device
                                       /\ j.stage \notin {"asking", "absent"}
    BY DEF Promises, SoonRead
  <1>4. ASSUME OnTheWay(e, c)
        PROVE  OnTheWay(e, c)'
    <2>1. \A k \in Range(writer[e]) : Prompts(k, c) => k \in Range(writer'[e])
      BY DEF Prompts
    <2>2. rows[e][c] # Missing => OnTheWay(e, c)'
      BY DEF OnTheWay
    <2> QED  BY <1>3, <1>4, <2>1, <2>2, WayOn
  <1> QED  BY <1>1, <1>2, <1>4, WarmedOn

\* Whatever happens at d, the others are as warm as before.
LEMMA Elsewhere ==
    ASSUME NEW d \in Device, NEW e \in Device \ {d}, Warmed(e), Latest(e)' = Latest(e),
           disk'[e] = disk[e], directory'[e] = directory[e], rows'[e] = rows[e],
           writer'[e] = writer[e], Stay(jobs[e], jobs'[e])
    PROVE  Warmed(e)'
  BY Undisturbed DEF Stay

LEMMA AppendGrows ==
    ASSUME NEW S, NEW q \in Seq(S), NEW k
    PROVE  Range(Append(q, k)) = Range(q) \cup {k}
  <1>1. PICK T : T = S \cup {k}
    OBVIOUS
  <1>2. q \in Seq(T) /\ k \in T
    BY <1>1, SeqMonotonic
  <1> QED  BY <1>2, RangeAppend

LEMMA ComesIn ==
    ASSUME Typed, NEW d \in Device, NEW k, writer' = [writer EXCEPT ![d] = Append(@, k)]
    PROVE  /\ \A e \in Device : Range(writer[e]) \subseteq Range(writer'[e])
           /\ k \in Range(writer'[d])
  <1>1. PICK q \in Seq(TypedCommand) : q = writer[d]
    BY DEF Typed
  <1>2. Range(Append(q, k)) = Range(q) \cup {k}
    BY <1>1, AppendGrows
  <1>3. writer'[d] = Append(q, k) /\ \A e \in Device \ {d} : writer'[e] = writer[e]
    BY <1>1 DEF Typed
  <1> QED  BY <1>1, <1>2, <1>3

LEMMA EagerIs == Eager \subseteq Device /\ Eager \subseteq Generates
  BY PreviewsAssumption

LEMMA NewsWarm ==
    ASSUME Typed, Warmth, NEW d \in Device, NEW k,
           writer' = [writer EXCEPT ![d] = Append(@, k)],
           \A e \in Device : Latest(e)' = Latest(e),
           UNCHANGED <<disk, directory, rows, jobs>>
    PROVE  Warmth'
  <1>1. \A e \in Device : Range(writer[e]) \subseteq Range(writer'[e])
    BY ComesIn
  <1>2. ASSUME NEW e \in Eager  PROVE  Warmed(e)'
    BY <1>1, Undisturbed, EagerIs DEF Warmth
  <1> QED  BY <1>2 DEF Warmth

\* What the user writes is not what a version was of.
LEMMA EditWarm ==
    ASSUME IInv, Typed, Warmth, Edit, Reuse = FALSE
    PROVE  Warmth'
  <1>1. PICK c \in Content : c \notin Range(written) /\ disk' = [disk EXCEPT ![Author] = c]
    BY DEF Edit
  <1>2. UNCHANGED <<directory, rows, writer, jobs>> /\ \A e \in Device : Latest(e)' = Latest(e)
    BY LatestSteps DEF Edit, tasks
  <1>3. disk'[Author] = c /\ \A e \in Device \ {Author} : disk'[e] = disk[e]
    BY <1>1, PreviewsAssumption DEF Typed
  <1>4. ASSUME NEW e \in Eager  PROVE  Warmed(e)'
    <2>1. CASE e # Author
      BY <1>2, <1>3, <2>1, Undisturbed, EagerIs DEF Warmth
    <2>2. CASE e = Author
      <3>1. PICK x : x = Latest(e)
        OBVIOUS
      <3>2. x \in Range(written) /\ Latest(e)' = x
        BY <1>2, <3>1, LatestHeard, EagerIs DEF IInv
      <3>3. \A i \in 1..Len(directory[e]) : directory[e][i].op # "place"
        BY <2>2, PlacesHeard, PreviewsAssumption
      <3>4. PlaceOrder(x) \notin Range(directory[e])
        <4>1. Range(directory[e]) = {directory[e][i] : i \in 1..Len(directory[e])}
          BY RangeEquality, EagerIs DEF Typed
        <4>2. PlaceOrder(x).op = "place"
          BY DEF PlaceOrder
        <4> QED  BY <3>3, <4>1, <4>2
      <3>5. ~Brings(e, x)'
        BY <1>1, <1>2, <1>3, <2>2, <3>2, <3>4 DEF Brings, PlaceOrder
      <3> QED  BY <3>2, <3>5 DEF Warmed, Brings
    <2> QED  BY <2>1, <2>2
  <1> QED  BY <1>4 DEF Warmth

\* The writer takes a command of d, which for another device changes nothing.
LEMMA WriterElsewhere ==
    ASSUME Typed, Warmth, NEW d \in Device, NEW e \in Eager \ {d}, Latest(e)' = Latest(e),
           NEW op, NEW more, more = <<>> \/ more = Warm(d), Take(d, op, more),
           disk' = disk, directory'[e] = directory[e], rows'[e] = rows[e],
           jobs'[e] = jobs[e]
    PROVE  Warmed(e)'
  <1>1. writer'[e] = writer[e] /\ e \in Device \ {d} /\ Warmed(e)
    BY TakesOne, EagerIs DEF Warmth
  <1>2. Stay(jobs[e], jobs'[e])
    BY DEF Stay
  <1> QED  BY <1>1, <1>2, Elsewhere

\* The device asks itself for the preview.
LEMMA AsksItself ==
    ASSUME NEW d, Preview("cache") \in Range(writer'[d])
    PROVE  Warmed(d)'
  <1>1. \A c : Prompts(Preview("cache"), c)
    BY DEF Prompts, Preview
  <1>2. \A c : OnTheWay(d, c)'
    <2>1. \A c : Prompts(Preview("cache"), c)' <=> Prompts(Preview("cache"), c)
      BY DEF Prompts, Preview
    <2>2. Preview("cache")' = Preview("cache")
      BY DEF Preview
    <2> QED  BY <1>1, <2>1, <2>2 DEF OnTheWay
  <1> QED  BY <1>2 DEF Warmed, OnTheWay, Promises, Prompts, SoonRead

LEMMA RecordWarm ==
    ASSUME IInv, Typed, NewsOK, Warmth, NEW d \in Device, Change(d) \/ Learn(d)
    PROVE  Warmth'
  <1>1. UNCHANGED <<disk, directory, jobs, versions>>
    BY DEF Change, Learn
  <1>2. PICK op, more : /\ Take(d, op, more) /\ (more = <<>> \/ more = Warm(d))
                        /\ Change(d) => op = "changed" /\ more = Warm(d)
                        /\ Learn(d) => op = "learned"
    <2>1. CASE Change(d)
      <3>1. Take(d, "changed", Warm(d)) /\ Head(writer[d]).op = "changed"
        BY <2>1 DEF Change, Take
      <3>2. ~Learn(d)
        BY <3>1 DEF Learn, Take
      <3> QED  BY <3>1, <3>2
    <2>2. CASE ~Change(d)
      <3>1. Take(d, "learned", <<>>)
        BY <2>2 DEF Learn
      <3> QED  BY <2>2, <3>1
    <2> QED  BY <2>1, <2>2
  <1>3. \A e \in Device \ {d} : latest'[e] = latest[e] /\ rows'[e] = rows[e]
    BY DEF Change, Learn, RecordVersion, Typed
  <1>4. \A e \in Device \ {d} : Latest(e)' = Latest(e)
    BY <1>1, <1>3 DEF Latest
  <1>5. ASSUME NEW e \in Eager \ {d}  PROVE  Warmed(e)'
    BY <1>1, <1>2, <1>3, <1>4, WriterElsewhere, EagerIs
  <1>6. ASSUME d \in Eager  PROVE  Warmed(d)'
    <2>1. CASE Change(d)
      <3>1. Preview("cache") \in Range(writer'[d])
        BY <1>2, <1>6, <2>1, TakesOne
      <3> QED  BY <3>1, AsksItself
    <2>2. CASE Learn(d) /\ Head(writer[d]).version > latest[d]
      <3>1. /\ disk[d] # Latest(d)'
            /\ \A i \in 1..Len(directory[d]) :
                  directory[d][i].op = "place" => directory[d][i].hash # Latest(d)'
        BY <2>2, LearnsNew
      <3>2. PICK x : x = Latest(d)'
        OBVIOUS
      <3>3. Range(directory[d]) = {directory[d][i] : i \in 1..Len(directory[d])}
        BY RangeEquality DEF Typed
      <3>4. PlaceOrder(x).op = "place" /\ PlaceOrder(x).hash = x
        BY DEF PlaceOrder
      <3>5. PlaceOrder(x) \notin Range(directory[d])
        BY <3>1, <3>2, <3>3, <3>4
      <3>6. ~Brings(d, x)'
        BY <1>1, <3>1, <3>2, <3>5 DEF Brings, PlaceOrder
      <3> QED  BY <3>2, <3>6 DEF Warmed, Brings
    <2>3. CASE Learn(d) /\ ~(Head(writer[d]).version > latest[d])
      <3>1. UNCHANGED <<latest, rows>> /\ Latest(d)' = Latest(d)
        BY <1>1, <2>3 DEF Learn, Latest
      <3>2. \A k \in Range(writer[d]) : k \in Range(writer'[d]) \/ k.op = "learned"
        BY <1>2, <2>3, TakesOne
      <3> QED  BY <1>1, <1>6, <3>1, <3>2, Undisturbed DEF Warmth
    <2> QED  BY <2>1, <2>2, <2>3
  <1>7. ASSUME NEW e \in Eager  PROVE  Warmed(e)'
    BY <1>5, <1>6
  <1> QED  BY <1>7 DEF Warmth

LEMMA MaterializeWarm ==
    ASSUME IInv, Typed, Warmth, NEW d \in Device, Materialize(d)
    PROVE  Warmth'
  <1>1. PICK c, more : /\ c = Head(writer[d]).hash
                       /\ more = IF c = Latest(d) THEN Warm(d) ELSE <<>>
    OBVIOUS
  <1>2. /\ Take(d, "placed", more) /\ (more = <<>> \/ more = Warm(d))
        /\ UNCHANGED <<files, rows, jobs>>
        /\ \A e \in Device \ {d} : directory'[e] = directory[e]
        /\ c # Latest(d) => UNCHANGED directory
    BY <1>1 DEF Materialize, Typed
  <1>3. \A e \in Device : Latest(e)' = Latest(e)
    BY <1>2, LatestSteps
  <1>4. disk' = disk
    BY <1>2 DEF files
  <1>5. ASSUME NEW e \in Eager \ {d}  PROVE  Warmed(e)'
    BY <1>2, <1>3, <1>4, WriterElsewhere, EagerIs
  <1>6. ASSUME d \in Eager  PROVE  Warmed(d)'
    <2>1. CASE c = Latest(d)
      <3>1. Preview("cache") \in Range(writer'[d])
        BY <1>1, <1>2, <1>6, <2>1, TakesOne
      <3> QED  BY <3>1, AsksItself
    <2>2. CASE c # Latest(d)
      <3>1. \A k \in Range(writer[d]) : k \in Range(writer'[d]) \/ k.op = "placed"
        BY <1>2, TakesOne
      <3> QED  BY <1>2, <1>3, <1>4, <1>6, <2>2, <3>1, Undisturbed DEF Warmth
    <2> QED  BY <2>1, <2>2
  <1>7. ASSUME NEW e \in Eager  PROVE  Warmed(e)'
    BY <1>5, <1>6
  <1> QED  BY <1>7 DEF Warmth

LEMMA PurgeWarm ==
    ASSUME IInv, Typed, Warmth, NEW d \in Device, Purge(d)
    PROVE  Warmth'
  <1>1. /\ Take(d, "purge", Warm(d)) /\ UNCHANGED <<files, directory, jobs>> /\ disk' = disk
        /\ \A e \in Device \ {d} : rows'[e] = rows[e]
    BY DEF Purge, files, Typed
  <1>2. \A e \in Device : Latest(e)' = Latest(e)
    BY <1>1, LatestSteps
  <1>3. ASSUME NEW e \in Eager \ {d}  PROVE  Warmed(e)'
    BY <1>1, <1>2, WriterElsewhere, EagerIs
  <1>4. ASSUME d \in Eager  PROVE  Warmed(d)'
    <2>1. Preview("cache") \in Range(writer'[d])
      BY <1>1, <1>4, TakesOne
    <2> QED  BY <2>1, AsksItself
  <1>5. ASSUME NEW e \in Eager  PROVE  Warmed(e)'
    BY <1>3, <1>4
  <1> QED  BY <1>5 DEF Warmth

LEMMA ResolveWarm ==
    ASSUME IInv, Typed, Warmth, NEW d \in Device, Resolve(d)
    PROVE  Warmth'
  <1>1. /\ Take(d, "preview", <<>>) /\ UNCHANGED <<files, directory, rows>> /\ disk' = disk
        /\ \A e \in Device \ {d} : jobs'[e] = jobs[e]
    BY DEF Resolve, files, Typed
  <1>2. \A e \in Device : Latest(e)' = Latest(e)
    BY <1>1, LatestSteps
  <1>3. ASSUME NEW e \in Eager \ {d}  PROVE  Warmed(e)'
    BY <1>1, <1>2, WriterElsewhere, EagerIs
  <1>4. ASSUME d \in Eager  PROVE  Warmed(d)'
    <2>1. PICK c, who : c = Latest(d) /\ who = Head(writer[d]).who
      OBVIOUS
    <2>2. OnTheWay(d, c)'
      <3>1. CASE rows[d][c] # Missing
        BY <1>1, <3>1 DEF OnTheWay
      <3>2. CASE rows[d][c] = Missing
        <4>1. PICK k : k = Job(who, c, "waiting")
          OBVIOUS
        <4>2. k \in jobs'[d]
          BY <2>1, <3>2, <4>1 DEF Resolve, Typed
        <4>3. who \notin Device
          BY <1>1, <2>1, TakesOne DEF TypedCommand
        <4>4. k.who = who /\ k.hash = c /\ k.stage = "waiting"
          BY <4>1 DEF Job
        <4>5. Promises(d, k, c)'
          BY <4>3, <4>4 DEF Promises
        <4> QED  BY <4>2, <4>5 DEF OnTheWay
      <3> QED  BY <3>1, <3>2
    <2>3. Brings(d, c)' => Brings(d, c)
      BY <1>1 DEF Brings
    <2> QED  BY <1>2, <1>4, <2>1, <2>2, <2>3, WarmedOn DEF Warmth
  <1>5. ASSUME NEW e \in Eager  PROVE  Warmed(e)'
    BY <1>3, <1>4
  <1> QED  BY <1>5 DEF Warmth

\* The answer of a job is cached; what was cached of another content stays.
LEMMA ApplyWarm ==
    ASSUME IInv, Typed, Warmth, NEW d \in Device, ApplyPreview(d)
    PROVE  Warmth'
  <1>1. /\ Take(d, "apply", <<>>) /\ UNCHANGED <<files, directory, jobs>> /\ disk' = disk
        /\ \A e \in Device \ {d} : rows'[e] = rows[e]
    BY DEF ApplyPreview, files, Typed
  <1>2. \A e \in Device : Latest(e)' = Latest(e)
    BY <1>1, LatestSteps
  <1>3. ASSUME NEW e \in Eager \ {d}  PROVE  Warmed(e)'
    BY <1>1, <1>2, WriterElsewhere, EagerIs
  <1>4. ASSUME d \in Eager  PROVE  Warmed(d)'
    <2>1. PICK c, job : c = Latest(d) /\ job = Head(writer[d]).job
      OBVIOUS
    <2>2. /\ Head(writer[d]).op = "apply" /\ Head(writer[d]) \in TypedCommand
          /\ \A k \in Range(writer[d]) : k = Head(writer[d]) \/ k \in Range(writer'[d])
      BY <1>1, TakesOne
    <2>3. job \in Jobs /\ job.hash \in Content
      BY <2>1, <2>2 DEF TypedCommand, Commands, Jobs
    <2>4. /\ job.result # Missing => rows'[d][job.hash] = job.result
          /\ rows'[d][c] = rows[d][c] \/ (c = job.hash /\ job.result # Missing)
      BY <2>1, <2>3 DEF ApplyPreview, Typed
    <2>5. rows[d][c] # Missing => OnTheWay(d, c)'
      BY <2>4 DEF OnTheWay
    <2>6. \A k \in Range(writer[d]) : Prompts(k, c) => \/ k \in Range(writer'[d])
                                                       \/ OnTheWay(d, c)'
      BY <2>1, <2>2, <2>4 DEF Prompts, OnTheWay
    <2>7. \A j \in jobs[d] : Promises(d, j, c) => j \in jobs'[d] /\ Promises(d, j, c)'
      BY <1>1 DEF Promises, SoonRead
    <2>8. OnTheWay(d, c) => OnTheWay(d, c)'
      BY <2>5, <2>6, <2>7, WayOn
    <2>9. Brings(d, c)' => Brings(d, c)
      BY <1>1 DEF Brings
    <2> QED  BY <1>2, <1>4, <2>1, <2>8, <2>9, WarmedOn DEF Warmth
  <1>5. ASSUME NEW e \in Eager  PROVE  Warmed(e)'
    BY <1>3, <1>4
  <1> QED  BY <1>5 DEF Warmth

\* A file to read is added: what was promised still is.
LEMMA ReadAdded ==
    ASSUME Typed, NEW d \in Device, NEW k \in Jobs, NEW c,
           directory' = [directory EXCEPT ![d] = Append(@, ReadOrder(k))], disk'[d] = disk[d]
    PROVE  /\ Brings(d, c)' => Brings(d, c)
           /\ \A j : SoonRead(d, j, c) => SoonRead(d, j, c)'
           /\ Brings(d, c) => SoonRead(d, k, c)'
           /\ \A e \in Device \ {d} : directory'[e] = directory[e]
  <1>1. PICK q, r : q = directory[d] /\ r = directory'[d]
    OBVIOUS
  <1>2. q \in Seq(Orders) /\ r = Append(q, ReadOrder(k)) /\ ReadOrder(k) \in Orders
        /\ \A e \in Device \ {d} : directory'[e] = directory[e]
    BY <1>1 DEF Typed, ReadOrder, Orders
  <1>3. /\ Len(r) = Len(q) + 1 /\ Len(q) \in Nat /\ r[Len(q) + 1] = ReadOrder(k)
        /\ \A i \in 1..Len(q) : r[i] = q[i]
    BY <1>2, AppendProperties, LenProperties
  <1>4. \A i \in 1..Len(q) : i \in 1..Len(r) /\ i < Len(q) + 1
    BY <1>3
  <1>5. Range(r) = Range(q) \cup {ReadOrder(k)} /\ Range(q) = {q[i] : i \in 1..Len(q)}
    BY <1>2, AppendGrows, RangeEquality
  <1>6. ReadOrder(k) # PlaceOrder(c) /\ PlaceOrder(c)' = PlaceOrder(c)
    BY DEF ReadOrder, PlaceOrder
  <1>7. Brings(d, c)' => Brings(d, c)
    BY <1>1, <1>5, <1>6 DEF Brings
  <1>8. ASSUME NEW j, SoonRead(d, j, c)  PROVE  SoonRead(d, j, c)'
    <2>1. ReadOrder(j)' = ReadOrder(j)
      BY DEF ReadOrder
    <2>2. PICK i \in 1..Len(q) : /\ q[i] = ReadOrder(j)
                                 /\ \/ disk[d] = c
                                    \/ \E m \in 1..Len(q) : m < i /\ q[m] = PlaceOrder(c)
      BY <1>1, <1>8 DEF SoonRead
    <2>3. \E i2 \in 1..Len(r) : /\ r[i2] = ReadOrder(j)
                                /\ \/ disk[d] = c
                                   \/ \E m \in 1..Len(r) : m < i2 /\ r[m] = PlaceOrder(c)
      <3>1. i \in 1..Len(r) /\ r[i] = ReadOrder(j)
        BY <1>3, <1>4, <2>2
      <3>2. disk[d] = c \/ \E m \in 1..Len(r) : m < i /\ r[m] = PlaceOrder(c)
        BY <1>3, <1>4, <2>2
      <3> QED  BY <3>1, <3>2
    <2> QED  BY <1>1, <1>6, <2>1, <2>3 DEF SoonRead
  <1>9. ASSUME Brings(d, c)  PROVE  SoonRead(d, k, c)'
    <2>1. ReadOrder(k)' = ReadOrder(k)
      BY DEF ReadOrder
    <2>2. disk[d] = c \/ \E m \in 1..Len(q) : q[m] = PlaceOrder(c)
      BY <1>1, <1>5, <1>9 DEF Brings
    <2>3. Len(q) + 1 \in 1..Len(r)
      BY <1>3
    <2>4. disk[d] = c \/ \E m \in 1..Len(r) : m < Len(q) + 1 /\ r[m] = PlaceOrder(c)
      BY <1>3, <1>4, <2>2
    <2>5. \E i \in 1..Len(r) : /\ r[i] = ReadOrder(k)
                               /\ disk[d] = c \/ \E m \in 1..Len(r) : m < i /\ r[m] = PlaceOrder(c)
      BY <1>3, <2>3, <2>4
    <2> QED  BY <1>1, <1>6, <2>1, <2>5 DEF SoonRead
  <1> QED  BY <1>2, <1>7, <1>8, <1>9

LEMMA StartWarm ==
    ASSUME IInv, Typed, Warmth, NEW d \in Device, Start(d)
    PROVE  Warmth'
  <1>1. /\ UNCHANGED <<files, rows, writer>> /\ disk' = disk
        /\ \A e \in Device \ {d} : jobs'[e] = jobs[e] /\ directory'[e] = directory[e]
    BY DEF Start, files, Typed
  <1>2. \A e \in Device : Latest(e)' = Latest(e)
    BY <1>1, LatestSteps
  <1>3. ASSUME NEW e \in Eager \ {d}  PROVE  Warmed(e)'
    <2>1. Stay(jobs[e], jobs'[e])
      BY <1>1, EagerIs DEF Stay
    <2> QED  BY <1>1, <1>2, <2>1, Elsewhere, EagerIs DEF Warmth
  <1>4. ASSUME d \in Eager  PROVE  Warmed(d)'
    <2>1. PICK j \in jobs[d] :
            /\ j.stage = "waiting"
            /\ jobs' = [jobs EXCEPT ![d] = (@ \ {j}) \cup {To(j, "reading")}]
            /\ directory' = [directory EXCEPT ![d] = Append(@, ReadOrder(To(j, "reading")))]
      BY <1>4, EagerIs DEF Start, ReadOrder
    <2>2. PICK k : k = To(j, "reading")
      OBVIOUS
    <2>3. /\ k \in TypedJob /\ k.who = j.who /\ k.hash = j.hash /\ k.stage = "reading"
          /\ k \in Jobs
      <3>1. j \in TypedJob
        BY DEF Typed
      <3> QED  BY <2>2, <3>1, TypedTo DEF Stages, TypedJob
    <2>4. PICK c : c = Latest(d)
      OBVIOUS
    <2>5. /\ Brings(d, c)' => Brings(d, c)
          /\ \A x : SoonRead(d, x, c) => SoonRead(d, x, c)'
          /\ Brings(d, c) => SoonRead(d, k, c)'
      BY <1>1, <2>1, <2>2, <2>3, ReadAdded
    <2>6. jobs'[d] = (jobs[d] \ {j}) \cup {k}
      BY <2>1, <2>2 DEF Typed
    <2>7. ASSUME Brings(d, c), OnTheWay(d, c)  PROVE  OnTheWay(d, c)'
      <3>1. ASSUME NEW x \in jobs[d], Promises(d, x, c)
            PROVE  \E y \in jobs'[d] : Promises(d, y, c)'
        <4>1. CASE x = j
          <5>1. Promises(d, k, c)'
            BY <2>3, <2>5, <2>7, <3>1, <4>1 DEF Promises
          <5> QED  BY <2>6, <5>1
        <4>2. CASE x # j
          <5>1. Promises(d, x, c)'
            BY <2>5, <3>1 DEF Promises
          <5> QED  BY <2>6, <4>2, <5>1
        <4> QED  BY <4>1, <4>2
      <3>2. \A x \in jobs[d] : Promises(d, x, c) => OnTheWay(d, c)'
        BY <3>1 DEF OnTheWay
      <3>3. rows[d][c] # Missing => OnTheWay(d, c)'
        BY <1>1 DEF OnTheWay
      <3>4. \A x \in Range(writer[d]) : x \in Range(writer'[d])
        BY <1>1
      <3> QED  BY <2>7, <3>2, <3>3, <3>4, WayOn
    <2> QED  BY <1>2, <1>4, <2>4, <2>5, <2>7, WarmedOn DEF Warmth
  <1>5. ASSUME NEW e \in Eager  PROVE  Warmed(e)'
    BY <1>3, <1>4
  <1> QED  BY <1>5 DEF Warmth

LEMMA ServeWarm ==
    ASSUME IInv, Typed, Warmth, NEW d \in Device, Serve(d)
    PROVE  Warmth'
  <1>1. /\ UNCHANGED <<files, rows, writer>> /\ disk' = disk
        /\ \A e \in Device : Stay(jobs[e], jobs'[e])
    BY AnswersStay DEF Serve, files
  <1>2. \A e \in Device : Latest(e)' = Latest(e)
    BY <1>1, LatestSteps
  <1>3. PICK r \in requests :
          \/ UNCHANGED directory
          \/ directory' = [directory EXCEPT ![d] =
                               Append(@, ReadOrder(Job(r[1], r[3], "reading")))]
    BY DEF Serve, ReadOrder
  <1>4. PICK k \in Jobs : k = Job(r[1], r[3], "reading")
    <2>1. r[1] \in Asker /\ r[3] \in Content
      BY DEF Typed, Asker
    <2> QED  BY <2>1, JobParts DEF Stages
  <1>5. ASSUME NEW e \in Eager, directory'[e] = directory[e]
        PROVE  Warmed(e)'
    BY <1>1, <1>2, <1>5, Undisturbed, EagerIs DEF Warmth, Stay
  <1>6. ASSUME NEW e \in Eager, directory'[e] # directory[e]
        PROVE  Warmed(e)'
    <2>1. e = d /\ directory' = [directory EXCEPT ![d] = Append(@, ReadOrder(k))]
      BY <1>3, <1>4, <1>6, EagerIs DEF Typed
    <2>2. PICK c : c = Latest(d)
      OBVIOUS
    <2>3. /\ Brings(d, c)' => Brings(d, c)
          /\ \A x : SoonRead(d, x, c) => SoonRead(d, x, c)'
      BY <1>1, <2>1, ReadAdded
    <2>4. \A x \in jobs[d] : Promises(d, x, c) => x \in jobs'[d] /\ Promises(d, x, c)'
      BY <1>1, <2>3 DEF Promises, Stay
    <2>5. rows[d][c] # Missing => OnTheWay(d, c)'
      BY <1>1 DEF OnTheWay
    <2>6. OnTheWay(d, c) => OnTheWay(d, c)'
      BY <1>1, <2>4, <2>5, WayOn
    <2> QED  BY <1>2, <2>1, <2>2, <2>3, <2>6, WarmedOn DEF Warmth
  <1>7. ASSUME NEW e \in Eager  PROVE  Warmed(e)'
    BY <1>5, <1>6
  <1> QED  BY <1>7 DEF Warmth

\* The orders that are left after the first.
LEMMA FirstTaken ==
    ASSUME Typed, NEW d \in Device, directory[d] # <<>>, directory'[d] = Tail(directory[d])
    PROVE  /\ Len(directory[d]) \in Nat /\ Len(directory'[d]) = Len(directory[d]) - 1
           /\ \A i \in 1..Len(directory'[d]) : directory'[d][i] = directory[d][i + 1]
           /\ Head(directory[d]) = directory[d][1]
           /\ Range(directory[d]) = {directory[d][i] : i \in 1..Len(directory[d])}
           /\ Range(directory'[d]) \subseteq Range(directory[d])
           /\ Head(directory[d]) \in Range(directory[d])
  <1>1. PICK q \in Seq(Orders) : q = directory[d] /\ q # <<>>
    BY DEF Typed
  <1>2. /\ Len(Tail(q)) = Len(q) - 1 /\ Len(q) \in Nat /\ Head(q) = q[1]
        /\ \A i \in 1..Len(Tail(q)) : Tail(q)[i] = q[i + 1]
    BY <1>1, HeadTailProperties, LenProperties
  <1>3. /\ Range(q) = {q[i] : i \in 1..Len(q)}
        /\ Range(Tail(q)) \subseteq Range(q) /\ Head(q) \in Range(q)
    BY <1>1, RangeEquality, PartsOfRange
  <1> QED  BY <1>1, <1>2, <1>3

\* What is read after the first order is read after it is taken, and the bytes for
\* it are there or still to be placed.
LEMMA StillRead ==
    ASSUME Typed, NEW d \in Device, directory[d] # <<>>, directory'[d] = Tail(directory[d]),
           NEW j, NEW c,
           Head(directory[d]) # ReadOrder(j)
               \/ (disk[d] # c /\ Head(directory[d]) # PlaceOrder(c)),
           disk[d] = c \/ Head(directory[d]) = PlaceOrder(c) => disk'[d] = c,
           SoonRead(d, j, c)
    PROVE  SoonRead(d, j, c)'
  <1>1. PICK q, r : q = directory[d] /\ r = directory'[d]
    OBVIOUS
  <1>2. /\ Len(q) \in Nat /\ Len(r) = Len(q) - 1 /\ Head(q) = q[1]
        /\ \A i \in 1..Len(r) : r[i] = q[i + 1]
    BY <1>1, FirstTaken
  <1>3. ReadOrder(j)' = ReadOrder(j) /\ PlaceOrder(c)' = PlaceOrder(c)
    BY DEF ReadOrder, PlaceOrder
  <1>4. PICK i \in 1..Len(q) : /\ q[i] = ReadOrder(j)
                               /\ \/ disk[d] = c
                                  \/ \E m \in 1..Len(q) : m < i /\ q[m] = PlaceOrder(c)
    BY <1>1 DEF SoonRead
  <1>5. i # 1
    <2>1. CASE Head(q) # ReadOrder(j)
      BY <1>2, <1>4, <2>1
    <2>2. CASE disk[d] # c
      BY <1>2, <1>4, <2>2
    <2> QED  BY <1>1, <2>1, <2>2
  <1>6. i - 1 \in 1..Len(r) /\ r[i - 1] = q[i]
    <2>1. i - 1 \in 1..Len(r) /\ (i - 1) + 1 = i
      BY <1>2, <1>5
    <2> QED  BY <1>2, <2>1
  <1>7. disk'[d] = c \/ \E m \in 1..Len(r) : m < i - 1 /\ r[m] = PlaceOrder(c)
    <2>1. CASE disk[d] = c
      BY <2>1
    <2>2. ASSUME NEW m \in 1..Len(q), m < i, q[m] = PlaceOrder(c)
          PROVE  disk'[d] = c \/ \E n \in 1..Len(r) : n < i - 1 /\ r[n] = PlaceOrder(c)
      <3>1. CASE m = 1
        BY <1>1, <1>2, <2>2, <3>1
      <3>2. CASE m # 1
        <4>1. m - 1 \in 1..Len(r) /\ (m - 1) + 1 = m /\ m - 1 < i - 1
          BY <1>2, <2>2, <3>2
        <4> QED  BY <1>2, <2>2, <4>1
      <3> QED  BY <3>1, <3>2
    <2> QED  BY <1>4, <2>1, <2>2
  <1> QED  BY <1>1, <1>3, <1>4, <1>6, <1>7 DEF SoonRead

LEMMA PlaceWarm ==
    ASSUME IInv, Typed, PlacesOK, Warmth, NEW d \in Device, Place(d)
    PROVE  Warmth'
  <1>1. /\ UNCHANGED <<rows, writer, jobs>> /\ directory[d] # <<>>
        /\ directory'[d] = Tail(directory[d]) /\ disk'[d] = Head(directory[d]).hash
        /\ Head(directory[d]) = PlaceOrder(Head(directory[d]).hash)
        /\ \A e \in Device \ {d} : directory'[e] = directory[e] /\ disk'[e] = disk[e]
    BY PlaceTakes DEF Place
  <1>2. \A e \in Device : Latest(e)' = Latest(e)
    BY LatestSteps DEF Directory
  <1>3. ASSUME NEW e \in Eager \ {d}  PROVE  Warmed(e)'
    <2>1. Stay(jobs[e], jobs'[e])
      BY <1>1 DEF Stay
    <2> QED  BY <1>1, <1>2, <2>1, Elsewhere, EagerIs DEF Warmth
  <1>4. ASSUME d \in Eager  PROVE  Warmed(d)'
    <2>1. PICK c, o : c = Latest(d) /\ o = Head(directory[d])
      OBVIOUS
    <2>2. o.op = "place" /\ (o = PlaceOrder(c) => o.hash = c)
      BY <1>1, <2>1 DEF PlaceOrder
    <2>3. disk[d] = c => o.hash = c
      <3>1. Ordered(directory[d], disk[d], Past(d)) /\ directory[d] \in Seq(Orders)
        BY DEF PlacesOK, Typed
      <3>2. disk[d] \in Past(d) \/ disk[d] = o.hash
        BY <1>1, <2>1, <2>2, <3>1, OrderTail
      <3> QED  BY <2>1, <3>2 DEF Past
    <2>4. disk[d] = c \/ o = PlaceOrder(c) => disk'[d] = c
      BY <1>1, <2>1, <2>2, <2>3
    <2>5. Brings(d, c)' => Brings(d, c)
      <3>1. o \in Range(directory[d]) /\ Range(directory'[d]) \subseteq Range(directory[d])
        BY <1>1, <2>1, FirstTaken
      <3>2. PlaceOrder(c)' = PlaceOrder(c)
        BY DEF PlaceOrder
      <3> QED  BY <1>1, <2>1, <3>1, <3>2 DEF Brings
    <2>6. \A j : SoonRead(d, j, c) => SoonRead(d, j, c)'
      <3>1. \A j : o # ReadOrder(j)
        BY <2>2 DEF ReadOrder
      <3> QED  BY <1>1, <2>1, <2>4, <3>1, StillRead
    <2>7. \A j \in jobs[d] : Promises(d, j, c) => j \in jobs'[d] /\ Promises(d, j, c)'
      BY <1>1, <2>6 DEF Promises
    <2>8. rows[d][c] # Missing => OnTheWay(d, c)'
      BY <1>1 DEF OnTheWay
    <2>9. OnTheWay(d, c) => OnTheWay(d, c)'
      BY <1>1, <2>7, <2>8, WayOn
    <2> QED  BY <1>2, <1>4, <2>1, <2>5, <2>9, WarmedOn DEF Warmth
  <1>5. ASSUME NEW e \in Eager  PROVE  Warmed(e)'
    BY <1>3, <1>4
  <1> QED  BY <1>5 DEF Warmth

\* The file is read for a job: it is rendered if it is there, and if the job is to
\* be read for once more, it waits.
LEMMA ReadFileWarm ==
    ASSUME IInv, Typed, HeldOK, Warmth, NEW d \in Device, ReadFile(d)
    PROVE  Warmth'
  <1>1. /\ UNCHANGED <<files, rows, writer>> /\ disk' = disk /\ directory[d] # <<>>
        /\ directory'[d] = Tail(directory[d])
        /\ \A e \in Device \ {d} : directory'[e] = directory[e] /\ jobs'[e] = jobs[e]
    BY DEF ReadFile, files, Typed
  <1>2. \A e \in Device : Latest(e)' = Latest(e)
    BY <1>1, LatestSteps
  <1>3. ASSUME NEW e \in Eager \ {d}  PROVE  Warmed(e)'
    <2>1. Stay(jobs[e], jobs'[e])
      BY <1>1, EagerIs DEF Stay
    <2> QED  BY <1>1, <1>2, <2>1, Elsewhere, EagerIs DEF Warmth
  <1>4. ASSUME d \in Eager  PROVE  Warmed(d)'
    <2>1. PICK c, j : c = Latest(d) /\ j = Head(directory[d]).job
      OBVIOUS
    <2>2. Head(directory[d]) = ReadOrder(j) /\ (j \in jobs[d] => j.stage = "reading")
      <3>1. Head(directory[d]) \in Range(directory[d])
        BY <1>1, FirstTaken
      <3>2. Head(directory[d]) \in Orders
        BY <1>1, HeadTailProperties DEF Typed
      <3>3. Head(directory[d]).op = "read"
        BY DEF ReadFile
      <3>4. Head(directory[d]) = ReadOrder(j)
        BY <2>1, <3>2, <3>3 DEF Orders, ReadOrder
      <3> QED  BY <2>1, <3>1, <3>3, <3>4 DEF HeldOK
    <2>3. PICK k : k = To(j, IF disk[d] = j.hash THEN "generating" ELSE "absent")
      OBVIOUS
    <2>4. /\ j \notin jobs[d] => jobs'[d] = jobs[d]
          /\ j \in jobs[d] => k \in jobs'[d]
          /\ \A x \in jobs[d] : x # j \/ ReadOrder(j) \in Range(directory'[d]) => x \in jobs'[d]
      BY <1>1, <2>1, <2>2, <2>3 DEF ReadFile, Typed
    <2>5. ReadOrder(j) # PlaceOrder(c)
      BY DEF ReadOrder, PlaceOrder
    <2>6. \A x : ReadOrder(x) = ReadOrder(j) => x = j
      BY DEF ReadOrder
    <2>7. \A x : x # j \/ disk[d] # c => (SoonRead(d, x, c) => SoonRead(d, x, c)')
      BY <1>1, <2>2, <2>5, <2>6, StillRead
    <2>8. ASSUME NEW x \in jobs[d], Promises(d, x, c), x # j
          PROVE  x \in jobs'[d] /\ Promises(d, x, c)'
      BY <2>4, <2>7, <2>8 DEF Promises
    <2>9. ASSUME j \in jobs[d], Promises(d, j, c)
          PROVE  OnTheWay(d, c)'
      <3>1. j.who \notin Device /\ j.hash = c /\ SoonRead(d, j, c)
        BY <2>2, <2>9 DEF Promises
      <3>2. CASE disk[d] = c
        <4>1. j \in Jobs
          BY <2>9 DEF Typed, TypedJob
        <4>2. k.who = j.who /\ k.hash = j.hash /\ k.stage = "generating"
          BY <2>3, <3>1, <3>2, <4>1 DEF To, Jobs
        <4>3. Promises(d, k, c)'
          BY <3>1, <4>2 DEF Promises
        <4> QED  BY <2>4, <2>9, <4>3 DEF OnTheWay
      <3>3. CASE disk[d] # c
        <4>1. SoonRead(d, j, c)'
          BY <2>7, <3>1, <3>3
        <4>2. ReadOrder(j) \in Range(directory'[d])
          <5>1. PICK i \in 1..Len(directory'[d]) : directory'[d][i] = ReadOrder(j)'
            BY <4>1 DEF SoonRead
          <5>2. ReadOrder(j)' = ReadOrder(j)
            BY DEF ReadOrder
          <5>3. directory'[d] \in Seq(Orders)
            BY <1>1, HeadTailProperties DEF Typed
          <5> QED  BY <5>1, <5>2, <5>3, RangeEquality
        <4>3. j \in jobs'[d] /\ Promises(d, j, c)'
          BY <2>2, <2>4, <2>9, <3>1, <4>1, <4>2 DEF Promises
        <4> QED  BY <4>3 DEF OnTheWay
      <3> QED  BY <3>2, <3>3
    <2>10. \A x \in jobs[d] : Promises(d, x, c) => \/ x \in jobs'[d] /\ Promises(d, x, c)'
                                                   \/ OnTheWay(d, c)'
      BY <2>8, <2>9
    <2>11. rows[d][c] # Missing => OnTheWay(d, c)'
      BY <1>1 DEF OnTheWay
    <2>12. OnTheWay(d, c) => OnTheWay(d, c)'
      BY <1>1, <2>10, <2>11, WayOn
    <2>13. Brings(d, c)' => Brings(d, c)
      <3>1. Range(directory'[d]) \subseteq Range(directory[d])
        BY <1>1, FirstTaken
      <3>2. PlaceOrder(c)' = PlaceOrder(c)
        BY DEF PlaceOrder
      <3> QED  BY <1>1, <3>1, <3>2 DEF Brings
    <2> QED  BY <1>2, <1>4, <2>1, <2>12, <2>13, WarmedOn DEF Warmth
  <1>5. ASSUME NEW e \in Eager  PROVE  Warmed(e)'
    BY <1>3, <1>4
  <1> QED  BY <1>5 DEF Warmth

\* A file that is held shows something, be it that there is nothing to show.
LEMMA RenderWarm ==
    ASSUME IInv, Typed, HeldOK, Warmth, NEW d \in Device, Render(d)
    PROVE  Warmth'
  <1>1. UNCHANGED <<files, rows, writer, directory>> /\ disk' = disk
    BY DEF Render, files
  <1>2. \A e \in Device : Latest(e)' = Latest(e)
    BY <1>1, LatestSteps
  <1>3. PICK shown : shown = Generate(disk[d])
    OBVIOUS
  <1>4. PICK j \in jobs[d] :
          /\ j.stage = "generating"
          /\ CASE shown = Missing ->
                    jobs' = [jobs EXCEPT ![d] = (@ \ {j}) \cup {To(j, "absent")}]
               [] shown # Missing /\ j.who \in Device ->
                    Data([jobs EXCEPT ![d] = @ \ {j}], j.who, j.hash, shown)
               [] OTHER -> jobs' = [jobs EXCEPT ![d] = (@ \ {j}) \cup {Done(j, shown)}]
    BY <1>3 DEF Render
  <1>5. shown # Missing /\ shown \in Shown
    <2>1. disk[d] # Missing /\ disk[d] \in Content \cup {Missing}
      BY <1>4 DEF HeldOK, Typed
    <2> QED  BY <1>3, <2>1, GenerateShown, PreviewsAssumption DEF Generate
  <1>6. CASE j.who \in Device
    <2>1. PICK js : js = [jobs EXCEPT ![d] = @ \ {j}]
      OBVIOUS
    <2>2. /\ js \in [Device -> SUBSET TypedJob]
          /\ \A e \in Device : \A x \in jobs[e] : x \in js[e] \/ x.who \in Device
      BY <1>6, <2>1 DEF Typed
    <2>3. Data(js, j.who, j.hash, shown)
      BY <1>4, <1>5, <1>6, <2>1
    <2>4. \A e \in Device : Stay(js[e], jobs'[e])
      BY <1>6, <2>2, <2>3, DataStay
    <2>5. ASSUME NEW e \in Eager  PROVE  Warmed(e)'
      BY <1>1, <1>2, <2>2, <2>4, Undisturbed, EagerIs DEF Warmth, Stay
    <2> QED  BY <2>5 DEF Warmth
  <1>7. CASE j.who \notin Device
    <2>1. PICK k : k = Done(j, shown)
      OBVIOUS
    <2>2. jobs' = [jobs EXCEPT ![d] = (@ \ {j}) \cup {k}]
      BY <1>4, <1>5, <1>7, <2>1
    <2>3. /\ jobs'[d] = (jobs[d] \ {j}) \cup {k}
          /\ \A e \in Device \ {d} : jobs'[e] = jobs[e]
      BY <2>2 DEF Typed
    <2>4. k.who = j.who /\ k.hash = j.hash /\ k.stage = "done" /\ k.result = shown
      <3>1. j \in Jobs
        BY DEF Typed, TypedJob
      <3> QED  BY <2>1, <3>1 DEF Done, Jobs
    <2>5. ASSUME NEW e \in Eager \ {d}  PROVE  Warmed(e)'
      <3>1. Stay(jobs[e], jobs'[e])
        BY <2>3, EagerIs DEF Stay
      <3> QED  BY <1>1, <1>2, <3>1, Elsewhere, EagerIs DEF Warmth
    <2>6. ASSUME d \in Eager  PROVE  Warmed(d)'
      <3>1. PICK c : c = Latest(d)
        OBVIOUS
      <3>2. Brings(d, c)' => Brings(d, c)
        BY <1>1 DEF Brings
      <3>3. \A x \in jobs[d] : Promises(d, x, c) => \/ x \in jobs'[d] /\ Promises(d, x, c)'
                                                    \/ OnTheWay(d, c)'
        <4>1. \A x : Promises(d, x, c) => Promises(d, x, c)'
          BY <1>1 DEF Promises, SoonRead
        <4>2. Promises(d, j, c) => Promises(d, k, c)'
          BY <1>5, <2>4 DEF Promises
        <4>3. Promises(d, j, c) => OnTheWay(d, c)'
          BY <2>3, <4>2 DEF OnTheWay
        <4> QED  BY <2>3, <4>1, <4>3
      <3>4. rows[d][c] # Missing => OnTheWay(d, c)'
        BY <1>1 DEF OnTheWay
      <3>5. OnTheWay(d, c) => OnTheWay(d, c)'
        BY <1>1, <3>3, <3>4, WayOn
      <3> QED  BY <1>2, <2>6, <3>1, <3>2, <3>5, WarmedOn DEF Warmth
    <2>7. ASSUME NEW e \in Eager  PROVE  Warmed(e)'
      BY <2>5, <2>6
    <2> QED  BY <2>7 DEF Warmth
  <1> QED  BY <1>6, <1>7

LEMMA AskWarm ==
    ASSUME IInv, Typed, Warmth, NEW d \in Device, AskPeers(d) \/ Decline(d) \/ GiveUp(d)
    PROVE  Warmth'
  <1>1. UNCHANGED <<files, rows, writer, directory>> /\ disk' = disk
    BY DEF AskPeers, Decline, GiveUp, files
  <1>2. \A e \in Device : Latest(e)' = Latest(e)
    BY <1>1, LatestSteps
  <1>3. ASSUME NEW e \in Device, NEW x \in jobs[e],
               x.who \notin Device, x.stage \notin {"asking", "absent"}
        PROVE  x \in jobs'[e]
    <2>1. CASE AskPeers(d)
      <3>1. PICK j, k : j.stage = "absent" /\ jobs' = [jobs EXCEPT ![d] = (@ \ {j}) \cup {k}]
        BY <2>1 DEF AskPeers
      <3> QED  BY <1>3, <3>1 DEF Typed
    <2>2. CASE Decline(d)
      <3>1. PICK T \in SUBSET jobs[e] : /\ Stay(T, jobs'[e])
                                        /\ \A j \in jobs[e] \ T : j.who \in Device
        BY <2>2, AnswersStay
      <3> QED  BY <1>3, <3>1 DEF Stay
    <2>3. CASE GiveUp(d)
      <3>1. Stay(jobs[e], jobs'[e])
        BY <2>3, AnswersStay
      <3> QED  BY <1>3, <3>1 DEF Stay
    <2> QED  BY <2>1, <2>2, <2>3
  <1>4. ASSUME NEW e \in Eager  PROVE  Warmed(e)'
    BY <1>1, <1>2, <1>3, Undisturbed, EagerIs DEF Warmth
  <1> QED  BY <1>4 DEF Warmth

LEMMA FinishWarm ==
    ASSUME IInv, Typed, Warmth, NEW d \in Device, Finish(d)
    PROVE  Warmth'
  <1>1. PICK j \in jobs[d] : /\ j.stage = "done"
                             /\ jobs' = [jobs EXCEPT ![d] = @ \ {j}]
                             /\ writer' = [writer EXCEPT ![d] = Append(@, Apply(j))]
    BY DEF Finish
  <1>2. UNCHANGED <<files, rows, directory>> /\ disk' = disk
    BY DEF Finish, files
  <1>3. \A e \in Device : Latest(e)' = Latest(e)
    BY <1>2, LatestSteps
  <1>4. /\ \A e \in Device \ {d} : jobs'[e] = jobs[e] /\ writer'[e] = writer[e]
        /\ jobs'[d] = jobs[d] \ {j}
    BY <1>1 DEF Typed
  <1>5. Range(writer[d]) \subseteq Range(writer'[d]) /\ Apply(j) \in Range(writer'[d])
    BY <1>1, ComesIn
  <1>6. ASSUME NEW e \in Eager \ {d}  PROVE  Warmed(e)'
    <2>1. Stay(jobs[e], jobs'[e])
      BY <1>4, EagerIs DEF Stay
    <2> QED  BY <1>2, <1>3, <1>4, <2>1, Elsewhere, EagerIs DEF Warmth
  <1>7. ASSUME d \in Eager  PROVE  Warmed(d)'
    <2>1. PICK c : c = Latest(d)
      OBVIOUS
    <2>2. Brings(d, c)' => Brings(d, c)
      BY <1>2 DEF Brings
    <2>3. \A x \in jobs[d] : Promises(d, x, c) => \/ x \in jobs'[d] /\ Promises(d, x, c)'
                                                  \/ OnTheWay(d, c)'
      <3>1. \A x : Promises(d, x, c) => Promises(d, x, c)'
        BY <1>2 DEF Promises, SoonRead
      <3>2. PICK k : k = Apply(j)
        OBVIOUS
      <3>3. Promises(d, j, c) => Prompts(k, c)'
        BY <1>1, <3>2 DEF Promises, Prompts, Apply
      <3>4. Promises(d, j, c) => OnTheWay(d, c)'
        BY <1>5, <3>2, <3>3 DEF OnTheWay
      <3> QED  BY <1>4, <3>1, <3>4
    <2>4. rows[d][c] # Missing => OnTheWay(d, c)'
      BY <1>2 DEF OnTheWay
    <2>5. OnTheWay(d, c) => OnTheWay(d, c)'
      BY <1>5, <2>3, <2>4, WayOn
    <2> QED  BY <1>3, <1>7, <2>1, <2>2, <2>5, WarmedOn DEF Warmth
  <1>8. ASSUME NEW e \in Eager  PROVE  Warmed(e)'
    BY <1>6, <1>7
  <1> QED  BY <1>8 DEF Warmth

\* What was under way is lost; with the latest bytes in place the device asks again.
LEMMA RestartWarm ==
    ASSUME IInv, Typed, Warmth, NEW d \in Device, Restart(d)
    PROVE  Warmth'
  <1>1. /\ disk' = disk /\ rows' = rows /\ directory'[d] = <<>>
        /\ \A e \in Device \ {d} : directory'[e] = directory[e] /\ writer'[e] = writer[e]
    BY DEF Restart, Typed
  <1>2. \A e \in Device : Latest(e)' = Latest(e)
    BY LatestSteps
  <1>3. ASSUME NEW e \in Eager \ {d}  PROVE  Warmed(e)'
    <2>1. Stay(jobs[e], jobs'[e])
      BY AnswersStay, EagerIs
    <2> QED  BY <1>1, <1>2, <2>1, Elsewhere, EagerIs DEF Warmth
  <1>4. ASSUME d \in Eager  PROVE  Warmed(d)'
    <2>1. CASE disk[d] = Latest(d)
      <3>1. writer'[d] = Warm(d)
        BY <2>1 DEF Restart, Typed
      <3>2. writer'[d] = <<Preview("cache")>>
        BY <1>4, <3>1 DEF Warm
      <3>3. PICK k : k = Preview("cache")
        OBVIOUS
      <3>4. k \in Range(<<k>>)
        BY DEF Range
      <3> QED  BY <3>2, <3>3, <3>4, AsksItself
    <2>2. CASE disk[d] # Latest(d)
      <3>1. PICK c : c = Latest(d)
        OBVIOUS
      <3>2. Range(<<>>) = {}
        BY DEF Range
      <3>3. ~Brings(d, c)'
        BY <1>1, <2>2, <3>1, <3>2 DEF Brings
      <3>4. Latest(d)' = c
        BY <1>2, <3>1
      <3> QED  BY <3>3, <3>4 DEF Warmed, Brings
    <2> QED  BY <2>1, <2>2
  <1>5. ASSUME NEW e \in Eager  PROVE  Warmed(e)'
    BY <1>3, <1>4
  <1> QED  BY <1>5 DEF Warmth

\* What comes to the writer takes nothing away.
LEMMA ComesWarm ==
    ASSUME IInv, Typed, Warmth, NEW d \in Device,
           \/ Notice
           \/ \E e \in Device : Announce(d, e)
           \/ Land(d) \/ GetPreview(d) \/ PurgePreviews(d)
    PROVE  Warmth'
  <1>1. UNCHANGED <<disk, directory, rows, jobs>>
    BY DEF Notice, Announce, Land, GetPreview, PurgePreviews, files
  <1>2. \A e \in Device : Latest(e)' = Latest(e)
    <2>1. Notice \/ UNCHANGED files
      BY DEF Announce, Land, GetPreview, PurgePreviews
    <2> QED  BY <2>1, LatestSteps
  <1>3. \E e \in Device : \E k : writer' = [writer EXCEPT ![e] = Append(@, k)]
    BY PreviewsAssumption DEF Notice, Announce, Land, GetPreview, PurgePreviews
  <1> QED  BY <1>1, <1>2, <1>3, NewsWarm

LEMMA InitWarm ==
    ASSUME Init
    PROVE  PlacesOK /\ HeldOK /\ Warmth
  <1>1. \A d \in Device : directory[d] = <<>> /\ jobs[d] = {}
    BY DEF Init
  <1>2. Range(<<>>) = {}
    BY DEF Range
  <1>3. PlacesOK
    BY <1>1, OrderNone DEF PlacesOK
  <1>4. HeldOK
    BY <1>1, <1>2 DEF HeldOK
  <1>5. ASSUME NEW d \in Eager  PROVE  Warmed(d)
    <2>1. CASE disk[d] # Missing
      <3>1. writer[d] = <<Preview("cache")>>
        BY <1>5, <2>1, EagerIs DEF Init, Warm
      <3>2. PICK k : k = Preview("cache")
        OBVIOUS
      <3>3. k \in Range(<<k>>)
        BY DEF Range
      <3>4. \A c : Prompts(k, c)
        BY <3>2 DEF Prompts, Preview
      <3> QED  BY <3>1, <3>2, <3>3, <3>4 DEF Warmed, OnTheWay
    <2>2. CASE disk[d] = Missing
      <3>1. PICK x \in Content : versions = <<x>> /\ latest[d] = 1
        BY EagerIs DEF Init
      <3>2. Latest(d) \in Content
        BY <3>1 DEF Latest
      <3> QED  BY <1>1, <1>2, <2>2, <3>2, EagerIs, PreviewsAssumption DEF Warmed, Brings
    <2> QED  BY <2>1, <2>2
  <1> QED  BY <1>3, <1>4, <1>5 DEF Warmth

LEMMA SameWarm ==
    ASSUME Warmth, UNCHANGED vars
    PROVE  Warmth'
  <1>1. UNCHANGED <<rows, disk, directory, jobs, writer, versions, latest>>
    BY DEF vars, files, tasks
  <1>2. ASSUME NEW e \in Eager  PROVE  Warmed(e)'
    <2>1. Latest(e)' = Latest(e)
      BY <1>1 DEF Latest
    <2> QED  BY <1>1, <2>1, Undisturbed DEF Warmth
  <1> QED  BY <1>2 DEF Warmth

LEMMA NextWarm ==
    ASSUME IInv, Typed, NewsOK, PlacesOK, HeldOK, Warmth, [Next]_vars, Reuse = FALSE
    PROVE  Warmth'
  <1>1. CASE UNCHANGED vars
    BY <1>1, SameWarm
  <1>2. CASE Edit
    BY <1>2, EditWarm, Zenon
  <1>3. CASE Notice
    BY <1>3, ComesWarm, PreviewsAssumption
  <1>4. ASSUME NEW d \in Device,
               (\E e \in Device : Announce(d, e)) \/ Land(d) \/ GetPreview(d) \/ PurgePreviews(d)
        PROVE  Warmth'
    BY <1>4, ComesWarm
  <1>5. ASSUME NEW d \in Device, Write(d)
        PROVE  Warmth'
    BY <1>5, RecordWarm, MaterializeWarm, ResolveWarm, ApplyWarm, PurgeWarm DEF Write
  <1>6. ASSUME NEW d \in Device, Directory(d)
        PROVE  Warmth'
    BY <1>6, PlaceWarm, ReadFileWarm DEF Directory
  <1>7. ASSUME NEW d \in Device, Work(d) \/ GiveUp(d)
        PROVE  Warmth'
    BY <1>7, StartWarm, RenderWarm, AskWarm, ServeWarm, FinishWarm DEF Work
  <1>8. ASSUME NEW d \in Device, Restart(d)
        PROVE  Warmth'
    BY <1>8, RestartWarm
  <1> QED  BY <1>1, <1>2, <1>3, <1>4, <1>5, <1>6, <1>7, <1>8 DEF Next

\* An eager device at rest has nothing left to do but what it has done: with the
\* latest bytes in place their preview is in the cache, whatever came between, a
\* newer version while the older was rendered, a purge, a restart.
THEOREM EagerStaysWarm ==
    ASSUME Reuse = FALSE
    PROVE  Spec => []StaysWarm
  <1> DEFINE Inv == /\ IInv /\ Typed /\ Tended
                    /\ NewsOK /\ PlacesOK /\ HeldOK /\ Warmth
  <1>1. Init => Inv
    BY Starts, InitTends, InitNews, InitWarm
  <1>2. Inv /\ [Next]_vars => Inv'
    <2> SUFFICES ASSUME Inv, [Next]_vars
                 PROVE  Inv'
      OBVIOUS
    <2>1. IInv'
      BY NextKeeps, Zenon
    <2>2. Typed' /\ Tended'
      BY NextTends, Zenon
    <2>3. NewsOK'
      BY NextNews, Zenon
    <2>4. PlacesOK' /\ HeldOK'
      BY NextPlaces, NextHeld, Zenon
    <2>5. Warmth'
      BY NextWarm, Zenon
    <2> QED  BY <2>1, <2>2, <2>3, <2>4, <2>5
  <1>3. Inv => StaysWarm
    <2> SUFFICES ASSUME Warmth, NEW d \in Eager, Settled(d), disk[d] = Latest(d)
                 PROVE  rows[d][Latest(d)] # Missing
      BY DEF StaysWarm
    <2>1. OnTheWay(d, Latest(d))
      BY DEF Warmth, Warmed, Brings
    <2>2. writer[d] = <<>> /\ jobs[d] = {}
      BY DEF Settled
    <2>3. Range(<<>>) = {}
      BY DEF Range
    <2> QED  BY <2>1, <2>2, <2>3 DEF OnTheWay
  <1> HIDE DEF Inv
  <1> QED  BY <1>1, <1>2, <1>3, PTL DEF Spec
====

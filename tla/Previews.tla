------------------------------ MODULE Previews ------------------------------
(***************************************************************************)
(* The previews of one file (tagsyd/src/catalog/previews.rs, the preview   *)
(* commands of catalog/mod.rs, store/previews.rs, peer/session.rs).        *)
(*                                                                         *)
(* A device caches what a content looks like under the file and the hash   *)
(* of the content.  A request that misses the cache leaves the catalog     *)
(* writer for a job of its own: it waits for a permit, has the sync        *)
(* directories read and hash the file, renders what the path holds by then *)
(* and, when it cannot, asks the other devices; the result comes back to   *)
(* the writer as one more command.  Recording a version drops every cached *)
(* preview of the file.  Eager devices ask themselves for a preview when   *)
(* bytes land, after a purge of the cache and when they start.             *)
(*                                                                         *)
(* The author's file is written by its user; the other device follows its  *)
(* versions.  A content stands for its bytes and for their hash.  There    *)
(* are two devices, each the only neighbour of the other, so that nobody   *)
(* relays a request: what becomes of requests on a tree of more, where     *)
(* devices may wait for each other until a time-out, is in ChunkRelay,     *)
(* whose table of pending requests is the one used here.                   *)
(***************************************************************************)
EXTENDS Naturals, Sequences, FiniteSets, SequencesExt

CONSTANTS
    Device,       \* two devices
    Author,       \* the device whose user writes the file
    Content,
    Previewable,  \* the contents the generators do not decline
    Missing,      \* no bytes, no cached row, no preview this time
    Blank,        \* Preview::None, "this content has no preview"
    Generates,    \* the devices whose policy is Lazy or Eager
    Eager,
    MaxRunning,   \* max_concurrent_preview_generations
    MaxEdits, MaxRequests, MaxPurges, MaxRestarts,   \* bounds
    Reuse         \* the user may write a content the file had before

ASSUME PreviewsAssumption ==
    /\ Author \in Device /\ Cardinality(Device) = 2
    /\ Previewable \subseteq Content
    /\ Eager \subseteq Generates /\ Generates \subseteq Device
    /\ Missing \notin Content /\ Blank \notin Content \cup {Missing}
    /\ {"client", "cache"} \cap Device = {}
    /\ MaxRunning \in Nat \ {0}
    /\ {MaxEdits, MaxRequests, MaxPurges, MaxRestarts} \subseteq Nat
    /\ Reuse \in BOOLEAN

VARIABLES
    written,     \* what the user has written, oldest first
    disk,        \* [Device -> Content or Missing], the file in the directory
    unseen,      \* the watcher has not reported the user's last write
    versions,    \* the contents of the versions announced, oldest first
    latest,      \* [Device -> the newest version its catalog has]
    writer,      \* [Device -> Seq(Command)], the inbox of the catalog writer
    directory,   \* [Device -> Seq(..)], the inbox of the sync directories
    rows,        \* [Device -> [Content -> preview or Missing]], previews_v1
    jobs,        \* [Device -> SUBSET Job], resolutions that left the writer
    pending,     \* [Device -> [Content -> SUBSET Device]], who is still asked
    requests,    \* {<<from, to, content>>}, PreviewRequest frames on their way
    client,      \* [Device -> {"idle", "asked"}], a user waiting for a preview
    asked, purges, restarts

files == <<written, disk, unseen, versions, latest>>
tasks == <<writer, directory, jobs, pending, requests>>
bounds == <<asked, purges, restarts>>
vars == <<files, rows, tasks, client, bounds>>

\* preview::generate: a content the generators decline has no preview, and
\* bytes that are gone give no answer at all.
Generate(c) == IF c \in Previewable \cup {Missing} THEN c ELSE Blank

Latest(d) == versions[latest[d]]

\* GetPreview for a user who waits, or for the cache alone.
Preview(who) == [op |-> "preview", who |-> who]
Apply(job) == [op |-> "apply", job |-> job]

\* A job resolves one content for the user, for the cache or for a peer.
Job(who, c, stage) == [who |-> who, hash |-> c, stage |-> stage, result |-> Missing]

To(job, stage) == [job EXCEPT !.stage = stage]
Done(job, result) == [job EXCEPT !.stage = "done", !.result = result]

Own(d) == {j \in jobs[d] : j.who \notin Device}

\* maybe_eager_preview
Warm(d) == IF d \in Eager THEN <<Preview("cache")>> ELSE <<>>

NoRows == [c \in Content |-> Missing]
NobodyAsked == [c \in Content |-> {}]

Init ==
    /\ \E c \in Content : written = <<c>>
    /\ disk \in [Device -> {written[1], Missing}] /\ disk[Author] = written[1]
    /\ unseen = FALSE
    /\ versions = written /\ latest = [d \in Device |-> 1]
    /\ writer = [d \in Device |-> IF disk[d] # Missing THEN Warm(d) ELSE <<>>]
    /\ directory = [d \in Device |-> <<>>]
    /\ rows = [d \in Device |-> NoRows]
    /\ jobs = [d \in Device |-> {}]
    /\ pending = [d \in Device |-> NobodyAsked]
    /\ requests = {}
    /\ client = [d \in Device |-> "idle"]
    /\ asked = 0 /\ purges = 0 /\ restarts = 0

(***************************************************************************)
(* The file and its versions.                                              *)
(***************************************************************************)

Edit ==
    /\ Len(written) <= MaxEdits
    /\ \E c \in Content \ {disk[Author]} :
           /\ Reuse \/ c \notin Range(written)
           /\ written' = Append(written, c)
           /\ disk' = [disk EXCEPT ![Author] = c]
    /\ unseen' = TRUE
    /\ UNCHANGED <<versions, latest, rows, tasks, client, bounds>>

\* The watcher hashes the file and hands a new version to the writer.
Notice ==
    /\ unseen
    /\ unseen' = FALSE
    /\ versions' = Append(versions, disk[Author])
    /\ writer' = [writer EXCEPT ![Author] =
                      Append(@, [op |-> "changed", version |-> Len(versions')])]
    /\ UNCHANGED <<written, disk, latest, rows, directory, jobs, pending, requests,
                   client, bounds>>

\* d announces its latest version to e, live or by manifest.
Announce(d, e) ==
    LET news == [op |-> "learned", version |-> latest[d]]
    IN  /\ latest[d] > latest[e] /\ news \notin Range(writer[e])
        /\ writer' = [writer EXCEPT ![e] = Append(@, news)]
        /\ UNCHANGED <<files, rows, directory, jobs, pending, requests, client, bounds>>

\* The bytes of d's latest version have arrived from a device that has them.
Land(d) ==
    LET placed == [op |-> "placed", hash |-> Latest(d)]
    IN  /\ d # Author /\ disk[d] # Latest(d)
        /\ \E e \in Device : disk[e] = Latest(d)
        /\ placed \notin Range(writer[d])
        /\ [op |-> "place", hash |-> Latest(d)] \notin Range(directory[d])
        /\ writer' = [writer EXCEPT ![d] = Append(@, placed)]
        /\ UNCHANGED <<files, rows, directory, jobs, pending, requests, client, bounds>>

(***************************************************************************)
(* Requests.                                                               *)
(***************************************************************************)

\* ApiService::get_preview
GetPreview(d) ==
    /\ asked < MaxRequests /\ client[d] = "idle"
    /\ asked' = asked + 1
    /\ client' = [client EXCEPT ![d] = "asked"]
    /\ writer' = [writer EXCEPT ![d] = Append(@, Preview("client"))]
    /\ UNCHANGED <<files, rows, directory, jobs, pending, requests, purges, restarts>>

PurgePreviews(d) ==
    /\ purges < MaxPurges
    /\ purges' = purges + 1
    /\ writer' = [writer EXCEPT ![d] = Append(@, [op |-> "purge"])]
    /\ UNCHANGED <<files, rows, directory, jobs, pending, requests, client, asked,
                   restarts>>

(***************************************************************************)
(* The catalog writer.                                                     *)
(***************************************************************************)

\* The writer of d takes a command and sends itself more.
Take(d, op, more) ==
    /\ writer[d] # <<>> /\ Head(writer[d]).op = op
    /\ writer' = [writer EXCEPT ![d] = Tail(@) \o more]

Reply(d, who) == client' = IF who = "client" THEN [client EXCEPT ![d] = "idle"] ELSE client

\* record_version_at: every preview of the file goes with the old version.
RecordVersion(d, v) ==
    /\ latest' = [latest EXCEPT ![d] = v]
    /\ rows' = [rows EXCEPT ![d] = NoRows]

Change(d) ==
    /\ Take(d, "changed", Warm(d))
    /\ RecordVersion(d, Head(writer[d]).version)
    /\ UNCHANGED <<written, disk, unseen, versions, directory, jobs, pending, requests,
                   client, bounds>>

Learn(d) ==
    /\ Take(d, "learned", <<>>)
    /\ IF Head(writer[d]).version > latest[d]
       THEN RecordVersion(d, Head(writer[d]).version)
       ELSE UNCHANGED <<latest, rows>>
    /\ UNCHANGED <<written, disk, unseen, versions, directory, jobs, pending, requests,
                   client, bounds>>

\* Seeded mistake: nobody asks for the preview of bytes that came from a peer; it was
\* asked for when the version was announced.
MaterializeCold(d) ==
    LET c == Head(writer[d]).hash
    IN  /\ Take(d, "placed", <<>>)
        /\ directory' = IF c # Latest(d) THEN directory
                        ELSE [directory EXCEPT ![d] = Append(@, [op |-> "place", hash |-> c])]
        /\ UNCHANGED <<files, rows, jobs, pending, requests, client, bounds>>

\* Bytes that are no longer the latest are not placed.
Materialize(d) ==
    LET c == Head(writer[d]).hash
    IN  /\ Take(d, "placed", IF c = Latest(d) THEN Warm(d) ELSE <<>>)
        /\ directory' = IF c # Latest(d) THEN directory
                        ELSE [directory EXCEPT ![d] = Append(@, [op |-> "place", hash |-> c])]
        /\ UNCHANGED <<files, rows, jobs, pending, requests, client, bounds>>

Resolve(d) ==
    LET who == Head(writer[d]).who
    IN  /\ Take(d, "preview", <<>>)
        /\ IF rows[d][Latest(d)] # Missing
           THEN Reply(d, who) /\ UNCHANGED jobs
           ELSE /\ jobs' = [jobs EXCEPT ![d] = @ \cup {Job(who, Latest(d), "waiting")}]
                /\ UNCHANGED client
        /\ UNCHANGED <<files, rows, directory, pending, requests, bounds>>

\* Seeded mistake: an answer is filed under whatever the latest content is by then.
ApplyToLatest(d) ==
    LET job == Head(writer[d]).job
    IN  /\ Take(d, "apply", <<>>)
        /\ rows' = IF job.result = Missing THEN rows
                   ELSE [rows EXCEPT ![d][Latest(d)] = job.result]
        /\ Reply(d, job.who)
        /\ UNCHANGED <<files, directory, jobs, pending, requests, bounds>>

\* Only an answer is cached; "unavailable" goes to the caller alone.
ApplyPreview(d) ==
    LET job == Head(writer[d]).job
    IN  /\ Take(d, "apply", <<>>)
        /\ rows' = IF job.result = Missing THEN rows
                   ELSE [rows EXCEPT ![d][job.hash] = job.result]
        /\ Reply(d, job.who)
        /\ UNCHANGED <<files, directory, jobs, pending, requests, bounds>>

Purge(d) ==
    /\ Take(d, "purge", Warm(d))
    /\ rows' = [rows EXCEPT ![d] = NoRows]
    /\ UNCHANGED <<files, directory, jobs, pending, requests, client, bounds>>

(***************************************************************************)
(* A resolution, off the writer (resolve_preview), and a request served    *)
(* for a peer, on its session (try_serve_generated_preview).               *)
(***************************************************************************)

\* Jobs that wait on the answer of d's last neighbour asked, when it misses.
Missed(js, c) == {IF j.stage = "asking" /\ j.hash = c THEN Done(j, Missing) ELSE j : j \in js}

\* Seeded mistake: a device that misses is struck off, the wait goes on.
MissUnheard(table, js, d, m, c) ==
    /\ pending' = [table EXCEPT ![d][c] = @ \ {m}]
    /\ jobs' = js

\* Device m says it has no preview of c for d: handle_preview_miss.
Miss(table, js, d, m, c) ==
    /\ pending' = [table EXCEPT ![d][c] = @ \ {m}]
    /\ jobs' = IF table[d][c] = {m} THEN [js EXCEPT ![d] = Missed(@, c)] ELSE js

\* Device m sends d a preview of c: the first answer ends the wait.
Data(js, d, c, shown) ==
    LET waiting == {j \in js[d] : j.stage = "asking" /\ j.hash = c}
    IN  /\ pending' = [pending EXCEPT ![d][c] = {}]
        /\ jobs' = [js EXCEPT ![d] = (@ \ waiting) \cup {Done(j, shown) : j \in waiting}]

\* PreviewScheduler::submit: a permit is held from here to "done".
Start(d) ==
    /\ Cardinality({j \in Own(d) : j.stage # "waiting"}) < MaxRunning
    /\ \E j \in jobs[d] :
           /\ j.stage = "waiting"
           /\ IF d \in Generates
              THEN /\ jobs' = [jobs EXCEPT ![d] = (@ \ {j}) \cup {To(j, "reading")}]
                   /\ directory' = [directory EXCEPT ![d] =
                                        Append(@, [op |-> "read", job |-> To(j, "reading")])]
              ELSE /\ jobs' = [jobs EXCEPT ![d] = (@ \ {j}) \cup {To(j, "absent")}]
                   /\ UNCHANGED directory
    /\ UNCHANGED <<files, rows, writer, pending, requests, client, bounds>>

\* The directories place bytes and read files in the order they were told to;
\* a file that does not hash to what the job wants is no source for it.
Place(d) ==
    /\ directory[d] # <<>> /\ Head(directory[d]).op = "place"
    /\ directory' = [directory EXCEPT ![d] = Tail(@)]
    /\ disk' = [disk EXCEPT ![d] = Head(directory[d]).hash]
    /\ UNCHANGED <<written, unseen, versions, latest, rows, writer, jobs, pending,
                   requests, client, bounds>>

\* Two requests alike are one job here, which waits for the last of its reads.
ReadFile(d) ==
    LET j == Head(directory[d]).job
        over == IF Head(directory[d]) \in Range(Tail(directory[d])) THEN {} ELSE {j}
    IN  /\ directory[d] # <<>> /\ Head(directory[d]).op = "read"
        /\ directory' = [directory EXCEPT ![d] = Tail(@)]
        /\ jobs' = IF j \notin jobs[d] THEN jobs
                   ELSE [jobs EXCEPT ![d] = (@ \ over) \cup
                            {To(j, IF disk[d] = j.hash THEN "generating" ELSE "absent")}]
        /\ UNCHANGED <<files, rows, writer, pending, requests, client, bounds>>

\* The generators open the path again: it may hold other bytes by now.  That one
\* fails on bytes that are there, which the code treats like absent ones, is left out.
Render(d) ==
    \E j \in jobs[d] :
        LET shown == Generate(disk[d])
        IN  /\ j.stage = "generating"
            /\ CASE shown = Missing ->
                      /\ jobs' = [jobs EXCEPT ![d] = (@ \ {j}) \cup {To(j, "absent")}]
                      /\ UNCHANGED pending
                 [] shown # Missing /\ j.who \in Device ->
                      Data([jobs EXCEPT ![d] = @ \ {j}], j.who, j.hash, shown)
                 [] OTHER ->
                      /\ jobs' = [jobs EXCEPT ![d] = (@ \ {j}) \cup {Done(j, shown)}]
                      /\ UNCHANGED pending
            /\ UNCHANGED <<files, rows, writer, directory, requests, client, bounds>>

\* request_preview_local: whoever is connected is asked, unless somebody has been
\* asked for the same content already, whose answer is waited for.
AskPeers(d) ==
    \E j \in Own(d), up \in SUBSET (Device \ {d}) :
        LET to == IF pending[d][j.hash] = {} THEN up ELSE {}
        IN  /\ j.stage = "absent"
            /\ jobs' = [jobs EXCEPT ![d] = (@ \ {j}) \cup
                            {IF up = {} THEN Done(j, Missing) ELSE To(j, "asking")}]
            /\ pending' = [pending EXCEPT ![d][j.hash] = @ \cup to]
            /\ requests' = requests \cup {<<d, e, j.hash>> : e \in to}
            /\ UNCHANGED <<files, rows, writer, directory, client, bounds>>

\* A peer answers from its cache, from its bytes, or not at all: it has nobody
\* else to relay the request to (relay_preview_request).
Serve(m) ==
    \E r \in requests :
        LET d == r[1]  c == r[3]  reading == Job(d, c, "reading")
        IN  /\ r[2] = m
            /\ requests' = requests \ {r}
            /\ CASE rows[m][c] # Missing ->
                      Data(jobs, d, c, rows[m][c]) /\ UNCHANGED directory
                 [] rows[m][c] = Missing /\ m \in Generates ->
                      /\ jobs' = [jobs EXCEPT ![m] = @ \cup {reading}]
                      /\ directory' = [directory EXCEPT ![m] =
                                           Append(@, [op |-> "read", job |-> reading])]
                      /\ UNCHANGED pending
                 [] OTHER -> Miss(pending, jobs, d, m, c) /\ UNCHANGED directory
            /\ UNCHANGED <<files, rows, writer, client, bounds>>

Decline(m) ==
    \E j \in jobs[m] \ Own(m) :
        /\ j.stage = "absent"
        /\ Miss(pending, [jobs EXCEPT ![m] = @ \ {j}], j.who, m, j.hash)
        /\ UNCHANGED <<files, rows, writer, directory, requests, client, bounds>>

\* HOP_TIMEOUT, or the links all asked were on have dropped.
GiveUp(d) ==
    \E c \in Content :
        /\ pending[d][c] # {}
        /\ pending' = [pending EXCEPT ![d][c] = {}]
        /\ jobs' = [jobs EXCEPT ![d] = Missed(@, c)]
        /\ UNCHANGED <<files, rows, writer, directory, requests, client, bounds>>

\* The job hands its result to the writer and returns the permit.
Finish(d) ==
    \E j \in jobs[d] :
        /\ j.stage = "done"
        /\ jobs' = [jobs EXCEPT ![d] = @ \ {j}]
        /\ writer' = [writer EXCEPT ![d] = Append(@, Apply(j))]
        /\ UNCHANGED <<files, rows, directory, pending, requests, client, bounds>>

(***************************************************************************)
(* Restart.                                                                *)
(***************************************************************************)

\* What was queued is lost, links drop, and the scan of the directory reports
\* the author's file if it is not what the catalog has (initial_sync.rs).  A
\* replica with bytes of an older version is left to SyncDirectory.
Restart(d) ==
    LET Pruned(e) == [c \in Content |-> pending[e][c] \ {d}]
        Alone(e) == {c \in Content : pending[e][c] = {d}}
        changed == d = Author /\ disk[d] # Latest(d)
    IN  /\ restarts < MaxRestarts
        /\ d = Author \/ disk[d] \in {Missing, Latest(d)}
        /\ restarts' = restarts + 1
        /\ client' = [client EXCEPT ![d] = "idle"]
        /\ directory' = [directory EXCEPT ![d] = <<>>]
        /\ unseen' = (unseen /\ d # Author)
        /\ versions' = IF changed THEN Append(versions, disk[d]) ELSE versions
        /\ writer' = [writer EXCEPT ![d] =
                          IF changed THEN <<[op |-> "changed", version |-> Len(versions')]>>
                          ELSE IF disk[d] = Latest(d) THEN Warm(d) ELSE <<>>]
        /\ requests' = {r \in requests : d \notin {r[1], r[2]}}
        /\ pending' = [e \in Device |-> IF e = d THEN NobodyAsked ELSE Pruned(e)]
        /\ jobs' = [e \in Device |->
                        IF e = d THEN {}
                        ELSE {IF j.stage = "asking" /\ j.hash \in Alone(e)
                              THEN Done(j, Missing) ELSE j : j \in jobs[e]}]
        /\ UNCHANGED <<written, disk, latest, rows, asked, purges>>

(***************************************************************************)
(* Specification.                                                          *)
(***************************************************************************)

Write(d) == Change(d) \/ Learn(d) \/ Materialize(d) \/ Resolve(d)
                \/ ApplyPreview(d) \/ Purge(d)

Directory(d) == Place(d) \/ ReadFile(d)

Work(d) == Start(d) \/ Render(d) \/ AskPeers(d) \/ Serve(d) \/ Decline(d) \/ Finish(d)

Next ==
    \/ Edit \/ Notice
    \/ \E d, e \in Device : Announce(d, e)
    \/ \E d \in Device : \/ Land(d) \/ GetPreview(d) \/ PurgePreviews(d)
                         \/ Write(d) \/ Directory(d) \/ Work(d)
                         \/ GiveUp(d) \/ Restart(d)

Spec == Init /\ [][Next]_vars

(***************************************************************************)
(* Properties.                                                             *)
(***************************************************************************)

\* No device has, for what the author's file holds, a preview of something
\* else: neither what a job rendered from newer bytes than it had hashed, nor
\* "no preview" for one that could not be had (store/previews.rs, a stale
\* preview can never be served for fresh content).
NoStalePreview ==
    \A d \in Device : LET c == disk[Author]
                      IN  rows[d][c] \in {Missing, Generate(c)}

Settled(d) == /\ ~unseen /\ writer[d] = <<>> /\ directory[d] = <<>> /\ jobs[d] = {}

\* An eager device that has come to rest with the latest bytes in place has
\* their preview, whatever came between: a newer version while the older was
\* rendered, a purge, a restart (catalog/previews.rs, maybe_eager_preview).
StaysWarm ==
    \A d \in Eager : Settled(d) /\ disk[d] = Latest(d) => rows[d][Latest(d)] # Missing

\* A request is in the writer's inbox, or a job or its result stands for it.
Carried(d, who) ==
    \/ Preview(who) \in Range(writer[d])
    \/ \E j \in jobs[d] : j.who = who
    \/ \E command \in Range(writer[d]) : command.op = "apply" /\ command.job.who = who

\* Someone is at work on an answer for d.
Attended(d, c) ==
    \E m \in pending[d][c] :
        <<d, m, c>> \in requests \/ \E j \in jobs[m] : j.who = d /\ j.hash = c

\* Whoever waits for a preview on one of two devices is going to be answered,
\* whatever dropped, restarted or declined meanwhile: the request is always with somebody whose
\* next step nothing holds up, so no permit is kept for ever and no answer is
\* left to the deadline of the API (frontend/api/request.rs, get_preview;
\* catalog/preview_scheduler.rs; peer/relay/previews.rs).
NobodyForgotten ==
    \A d \in Device :
        /\ client[d] = "asked" => Carried(d, "client")
        /\ \A j \in jobs[d] :
               /\ j.stage = "reading" => [op |-> "read", job |-> j] \in Range(directory[d])
               /\ j.stage = "asking" => Attended(d, j.hash)
=============================================================================

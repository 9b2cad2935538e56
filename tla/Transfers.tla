------------------------------ MODULE Transfers ------------------------------
(***************************************************************************)
(* The bytes of one file: from the outbox of the device where the user     *)
(* uploads or edits it (tagsyd/src/outbox.rs), through pulls that are      *)
(* admitted a few at a time (peer/pull_scheduler.rs), into the sync        *)
(* directories that take the file, until the outbox may let go of them.    *)
(*                                                                         *)
(* Clocks are in step here (one clock stamps versions and deletions;       *)
(* TreeSync has those that are not).  A connection comes up at both ends   *)
(* at once, and what reconciliation makes of two rows (TreeSync, Reconcile)*)
(* is one frame with the row of the other side.  A chunk is requested and  *)
(* answered in one step, by a neighbour that holds the bytes (ChunkRelay   *)
(* has the requests on their way, and those that go further).              *)
(***************************************************************************)
EXTENDS Naturals, Sequences, FiniteSets

CONSTANTS
    Device,
    Tree,        \* the configured links, as sets {d, e} of devices
    Acting,      \* the devices on which the file is uploaded, edited, deleted
    Holder,      \* the devices with a sync directory that takes the file
    Content,
    None,        \* no content: not in Content
    Chunks,      \* chunks of a content
    Permits,     \* pulls of a device that may run at once
    MaxActs,     \* how often the user uploads, edits or deletes
    MaxDrops,    \* how often a link breaks, a device is killed, a pull times out
    TimeOuts,    \* pulls do time out
    Reuse        \* the user may go back to a content the file had before

ASSUME TransfersAssumption ==
    /\ Tree \subseteq SUBSET Device
    /\ \A l \in Tree : Cardinality(l) = 2
    /\ Acting \subseteq Device /\ Holder \subseteq Device
    /\ Content # {} /\ None \notin Content
    /\ Chunks \in Nat \ {0} /\ Permits \in Nat \ {0}
    /\ MaxActs \in Nat /\ MaxDrops \in Nat
    /\ TimeOuts \in BOOLEAN /\ Reuse \in BOOLEAN

VARIABLES
    recorded,   \* [Device -> SUBSET Content], every version of the file (durable)
    latest,     \* [Device -> Version], the last of them (durable)
    deleted,    \* [Device -> Nat], the stamp of its deletion (durable)
    disk,       \* [Device -> Content or None], in the sync directory (durable)
    outbox,     \* [Device -> SUBSET Content] (durable)
    inbox,      \* [Device -> Seq(...)], commands for the catalog writer
    pull,       \* [Device -> [Content -> Pull]], the pull scheduler
    pass,       \* [Device -> ...], the release pass over the outbox
    linked,     \* the links that are up
    wire,       \* [Ends -> Seq(...)], frames on their way from d to e
    asked,      \* [Ends -> SUBSET Order], StartReceive for the session of d with e
    done,       \* [Ends -> SUBSET Order], bytes received for that session
    clock,
    acts, drops, \* so far
    used,       \* history: the contents uploaded so far
    misjudged,  \* history: the entry of an upload not yet announced was dropped,
                \* because the file was deleted at the time
    lost        \* [Device -> BOOLEAN], history: a pull of the latest content was
                \* lost, and none that begins afresh has taken its place

catalog == <<recorded, latest, deleted>>
bytes   == <<disk, outbox>>
session == <<linked, asked, done>>
counts  == <<clock, acts, drops, used>>
vars == <<catalog, bytes, inbox, pull, pass, session, wire, counts, misjudged, lost>>

Ends == {l \in Device \X Device : {l[1], l[2]} \in Tree}

Connected(d) == {e \in Device : {d, e} \in linked}

Version == [content : Content \cup {None}, at : Nat]

Unknown == [content |-> None, at |-> 0]

Known(d) == latest[d].at > 0

Deleted(d) == Known(d) /\ deleted[d] > latest[d].at

Live(d) == Known(d) /\ ~Deleted(d)

\* What to do with bytes: make the file where it is missing, or put them in its
\* place as well.
Placement == {"Create", "Change"}

Order == [content : Content, placement : Placement]

\* from: the session a pull is for, or the device itself for one of the
\* catalog writer; live: that session still runs.
Idle == [state |-> "idle"]

Pull == [state : {"queued", "running", "ended"}, from : Device, live : BOOLEAN,
         placement : Placement, got : 0 .. Chunks]

NoPass == [stage |-> "idle", entry |-> None]

Original == CHOOSE c \in Content : TRUE

\* Nobody has the file, or everybody does.
Init == /\ \E shared \in BOOLEAN :
               /\ recorded = [d \in Device |-> IF shared THEN {Original} ELSE {}]
               /\ latest = [d \in Device |->
                               IF shared THEN [content |-> Original, at |-> 1] ELSE Unknown]
               /\ disk = [d \in Device |-> IF shared /\ d \in Holder THEN Original ELSE None]
               /\ used = IF shared THEN {Original} ELSE {}
        /\ deleted = [d \in Device |-> 0]
        /\ outbox = [d \in Device |-> {}]
        /\ inbox = [d \in Device |-> <<>>]
        /\ pull = [d \in Device |-> [c \in Content |-> Idle]]
        /\ pass = [d \in Device |-> NoPass]
        /\ linked = {}
        /\ wire = [l \in Ends |-> <<>>]
        /\ asked = [l \in Ends |-> {}]
        /\ done = [l \in Ends |-> {}]
        /\ clock = 1 /\ acts = 0 /\ drops = 0
        /\ misjudged = FALSE
        /\ lost = [d \in Device |-> FALSE]

-----------------------------------------------------------------------------
(***************************************************************************)
(* What users do.  The bytes are in the outbox before the writer hears of  *)
(* them.                                                                   *)
(***************************************************************************)
Enqueued(d, command) == [inbox EXCEPT ![d] = Append(@, command)]

Upload(d, c) ==
    /\ acts < MaxActs
    /\ Reuse \/ c \notin used
    /\ Known(d) \/ used = {}
    /\ outbox' = [outbox EXCEPT ![d] = @ \cup {c}]
    /\ inbox' = Enqueued(d, [kind |-> "AnnounceUpload", content |-> c,
                             placement |-> IF Known(d) THEN "Change" ELSE "Create"])
    /\ acts' = acts + 1
    /\ used' = used \cup {c}
    /\ UNCHANGED <<catalog, disk, pull, pass, session, wire, clock, drops, misjudged, lost>>

Delete(d) ==
    /\ acts < MaxActs
    /\ Live(d)
    /\ acts' = acts + 1
    /\ clock' = clock + 1
    /\ inbox' = Enqueued(d, [kind |-> "Deletion", at |-> clock', from |-> d])
    /\ UNCHANGED <<catalog, bytes, pull, pass, session, wire, drops, used, misjudged, lost>>

-----------------------------------------------------------------------------
(***************************************************************************)
(* The pull scheduler: one pull per content, Permits at a time.            *)
(***************************************************************************)
Queued(from, placement) ==
    [state |-> "queued", from |-> from, live |-> TRUE, placement |-> placement, got |-> 0]

\* Dropped if a pull of the same content is in flight, whatever it is for.
Submitted(d, c, from, placement) ==
    IF pull[d][c] = Idle THEN [pull EXCEPT ![d][c] = Queued(from, placement)] ELSE pull

\* History: a pull of the latest content that begins afresh makes up for one lost.
MadeUp(d, c) == [lost EXCEPT ![d] = @ /\ pull[d][c] # Idle]

Admit(d, c) ==
    /\ pull[d][c].state = "queued"
    /\ Cardinality({x \in Content : pull[d][x].state \in {"running", "ended"}}) < Permits
    /\ pull' = [pull EXCEPT ![d][c].state = "running"]
    /\ UNCHANGED <<catalog, bytes, inbox, pass, session, wire, counts, misjudged, lost>>

Answers(e, c) == c \in outbox[e] \/ disk[e] = c

\* A chunk is asked of the device's own outbox, then of the peer whose session
\* the pull is for, or of every peer if that is gone or there is none.
Sources(d, c) ==
    LET from == pull[d][c].from
        peers == IF from \in Connected(d) THEN {from} ELSE Connected(d)
    IN  IF c \in outbox[d] THEN {d} ELSE {e \in peers : Answers(e, c)}

FetchChunk(d, c) ==
    /\ pull[d][c].state = "running" /\ pull[d][c].got < Chunks
    /\ Sources(d, c) # {}
    /\ pull' = [pull EXCEPT ![d][c].got = @ + 1]
    /\ UNCHANGED <<catalog, bytes, inbox, pass, session, wire, counts, misjudged, lost>>

\* Seeded mistake: a pull that finds nobody to answer begins again.
StarveAndRetry(d, c) ==
    /\ pull[d][c].state = "running" /\ pull[d][c].got < Chunks
    /\ Sources(d, c) = {}
    /\ pull' = [pull EXCEPT ![d][c].state = "queued", ![d][c].got = 0]
    /\ lost' = [lost EXCEPT ![d] = TRUE]
    /\ UNCHANGED <<catalog, bytes, inbox, pass, session, wire, counts, misjudged>>

\* Nobody answers a chunk: the pull fails, and is not tried again.
Starve(d, c) ==
    /\ pull[d][c].state = "running" /\ pull[d][c].got < Chunks
    /\ Sources(d, c) = {}
    /\ pull' = [pull EXCEPT ![d][c].state = "ended"]
    /\ lost' = [lost EXCEPT ![d] = TRUE]
    /\ UNCHANGED <<catalog, bytes, inbox, pass, session, wire, counts, misjudged>>

TimeOut(d, c) ==
    /\ TimeOuts /\ drops < MaxDrops
    /\ pull[d][c].state = "running" /\ pull[d][c].got < Chunks
    /\ drops' = drops + 1
    /\ pull' = [pull EXCEPT ![d][c].state = "ended"]
    /\ lost' = [lost EXCEPT ![d] = TRUE]
    /\ UNCHANGED <<catalog, bytes, inbox, pass, session, wire, clock, acts, used,
                   misjudged>>

OrderOf(d, c) == [content |-> c, placement |-> pull[d][c].placement]

Materialize(order) ==
    [kind |-> "Materialize", content |-> order.content, placement |-> order.placement]

\* The bytes go to the session the pull was started for, if it still runs, or
\* straight to the catalog writer.
Deliver(d, c) ==
    /\ pull[d][c].state = "running" /\ pull[d][c].got = Chunks
    /\ LET from == pull[d][c].from
       IN  /\ inbox' = IF from = d THEN Enqueued(d, Materialize(OrderOf(d, c))) ELSE inbox
           /\ done' = IF from # d /\ pull[d][c].live
                      THEN [done EXCEPT ![<<d, from>>] = @ \cup {OrderOf(d, c)}]
                      ELSE done
           /\ lost' = [lost EXCEPT ![d] = @ \/ (from # d /\ ~pull[d][c].live)]
    /\ pull' = [pull EXCEPT ![d][c].state = "ended"]
    /\ UNCHANGED <<catalog, bytes, pass, linked, asked, wire, counts, misjudged>>

\* The permit is given back, and the content may be pulled again.
Finish(d, c) ==
    /\ pull[d][c].state = "ended"
    /\ pull' = [pull EXCEPT ![d][c] = Idle]
    /\ UNCHANGED <<catalog, bytes, inbox, pass, session, wire, counts, misjudged, lost>>

Transfer(d, c) == Admit(d, c) \/ FetchChunk(d, c) \/ Starve(d, c) \/ Deliver(d, c) \/ Finish(d, c)

-----------------------------------------------------------------------------
(***************************************************************************)
(* The catalog writer.                                                     *)
(***************************************************************************)
Command(d, kind) == inbox[d] # <<>> /\ Head(inbox[d]).kind = kind

Handled(d) == inbox' = [inbox EXCEPT ![d] = Tail(@)]

VersionFrame(version) == [kind |-> "Version", content |-> version.content, at |-> version.at]

DeletionFrame(at) == [kind |-> "Deletion", at |-> at]

Forwarded(d, frame, origin) ==
    [l \in Ends |-> IF l[1] = d /\ l[2] \in Connected(d) \ {origin}
                    THEN Append(wire[l], frame) ELSE wire[l]]

Recorded(d, version) ==
    /\ recorded' = [recorded EXCEPT ![d] = @ \cup {version.content}]
    /\ latest' = [latest EXCEPT ![d] = version]

\* announce_upload: stamped now, so never behind what is recorded.
WriteUpload(d) ==
    /\ Command(d, "AnnounceUpload")
    /\ LET c == Head(inbox[d]).content
           version == [content |-> c, at |-> clock + 1]
       IN  /\ Recorded(d, version)
           /\ wire' = Forwarded(d, VersionFrame(version), d)
           /\ pull' = IF d \in Holder
                      THEN Submitted(d, c, d, Head(inbox[d]).placement) ELSE pull
           /\ lost' = MadeUp(d, c)
    /\ clock' = clock + 1
    /\ Handled(d)
    /\ UNCHANGED <<deleted, bytes, pass, session, acts, drops, used, misjudged>>

\* Seeded mistake: looked at after the version was recorded.
NeedsTransferRecorded(d, version) == Deleted(d)

\* version_needs_transfer, before the version is recorded.
NeedsTransfer(d, version) == latest[d].content # version.content \/ Deleted(d)

\* FileMetadataAdded or FileMetadataChanged of a peer.  The session with the
\* peer is told to pull; without one, nobody is.  A device that knows the file
\* knows a later version than the one that FileMetadataAdded announces, stamps
\* being in step here, so what it pulls for is never that.
WriteVersion(d) ==
    /\ Command(d, "Version")
    /\ LET version == [content |-> Head(inbox[d]).content, at |-> Head(inbox[d]).at]
           from    == Head(inbox[d]).from
           order   == [content |-> version.content,
                       placement |-> IF Known(d) THEN "Change" ELSE "Create"]
           newer   == version.at > latest[d].at
           wanted  == newer /\ d \in Holder /\ NeedsTransfer(d, version)
                            /\ (Known(d) => version.at > deleted[d])
       IN  /\ IF newer THEN Recorded(d, version) ELSE UNCHANGED <<recorded, latest>>
           /\ wire' = Forwarded(d, VersionFrame(version), from)
           /\ asked' = IF wanted /\ from \in Connected(d)
                       THEN [asked EXCEPT ![<<d, from>>] = @ \cup {order}] ELSE asked
           /\ lost' = [lost EXCEPT ![d] = @ \/ (wanted /\ from \notin Connected(d))]
    /\ Handled(d)
    /\ UNCHANGED <<deleted, bytes, pull, pass, linked, done, counts, misjudged>>

\* FileDeleted: the bytes go with the file, unless something newer keeps it.
WriteDeletion(d) ==
    /\ Command(d, "Deletion")
    /\ LET at == Head(inbox[d]).at
       IN  IF Live(d) /\ at > latest[d].at
           THEN /\ deleted' = [deleted EXCEPT ![d] = at]
                /\ disk' = [disk EXCEPT ![d] = None]
                /\ wire' = Forwarded(d, DeletionFrame(at), Head(inbox[d]).from)
           ELSE UNCHANGED <<deleted, disk, wire>>
    /\ Handled(d)
    /\ UNCHANGED <<recorded, latest, outbox, pull, pass, session, counts, misjudged, lost>>

\* Only bytes of the latest version of a live file are placed, and a file that
\* is there already is not made again.
WriteBytes(d) ==
    /\ Command(d, "Materialize")
    /\ LET order == Head(inbox[d])
       IN  disk' = IF /\ d \in Holder /\ Live(d) /\ order.content = latest[d].content
                      /\ order.placement = "Change" \/ disk[d] = None
                   THEN [disk EXCEPT ![d] = order.content] ELSE disk
    /\ Handled(d)
    /\ UNCHANGED <<catalog, outbox, pull, pass, session, wire, counts, misjudged, lost>>

\* SweepMissingContent: only a file without any bytes is asked for.
Sweep(d) ==
    /\ Command(d, "Sweep")
    /\ IF d \in Holder /\ Live(d) /\ disk[d] = None
       THEN /\ pull' = Submitted(d, latest[d].content, d, "Create")
            /\ lost' = MadeUp(d, latest[d].content)
       ELSE UNCHANGED <<pull, lost>>
    /\ Handled(d)
    /\ UNCHANGED <<catalog, bytes, pass, session, wire, counts, misjudged>>

Write(d) == WriteUpload(d) \/ WriteVersion(d) \/ WriteDeletion(d) \/ WriteBytes(d) \/ Sweep(d)

-----------------------------------------------------------------------------
(***************************************************************************)
(* Sessions.                                                               *)
(***************************************************************************)
Row(d) == IF ~Known(d) THEN <<>>
          ELSE IF Deleted(d) THEN <<DeletionFrame(deleted[d])>>
          ELSE <<VersionFrame(latest[d])>>

Connect(link) ==
    /\ link \notin linked
    /\ linked' = linked \cup {link}
    /\ wire' = [l \in Ends |-> IF {l[1], l[2]} = link THEN Row(l[1]) ELSE wire[l]]
    /\ inbox' = [d \in Device |-> IF d \in link THEN Append(inbox[d], [kind |-> "Sweep"])
                                  ELSE inbox[d]]
    /\ UNCHANGED <<catalog, bytes, pull, pass, asked, done, counts, misjudged, lost>>

Receive(d, e) ==
    /\ wire[<<d, e>>] # <<>>
    /\ LET frame == Head(wire[<<d, e>>])
       IN  inbox' = Enqueued(e, IF frame.kind = "Version"
                                THEN [kind |-> "Version", content |-> frame.content,
                                      at |-> frame.at, from |-> d]
                                ELSE [kind |-> "Deletion", at |-> frame.at, from |-> d])
    /\ wire' = [wire EXCEPT ![<<d, e>>] = Tail(@)]
    /\ UNCHANGED <<catalog, bytes, pull, pass, session, counts, misjudged, lost>>

StartReceive(d, e) ==
    \E order \in asked[<<d, e>>] :
        /\ asked' = [asked EXCEPT ![<<d, e>>] = @ \ {order}]
        /\ pull' = Submitted(d, order.content, e, order.placement)
        /\ lost' = IF order.content = latest[d].content
                   THEN MadeUp(d, order.content) ELSE lost
        /\ UNCHANGED <<catalog, bytes, inbox, pass, linked, done, wire, counts, misjudged>>

TakeDone(d, e) ==
    \E order \in done[<<d, e>>] :
        /\ done' = [done EXCEPT ![<<d, e>>] = @ \ {order}]
        /\ inbox' = Enqueued(d, Materialize(order))
        /\ UNCHANGED <<catalog, bytes, pull, pass, linked, asked, wire, counts, misjudged,
                       lost>>

\* A pull for a session that ends goes on, but nobody waits for its bytes.
Orphaned(d, p, broken) ==
    IF p # Idle /\ p.from # d /\ {d, p.from} \in broken THEN [p EXCEPT !.live = FALSE] ELSE p

Down(broken, killed) ==
    /\ drops < MaxDrops
    /\ drops' = drops + 1
    /\ linked' = linked \ broken
    /\ wire' = [l \in Ends |-> IF {l[1], l[2]} \in broken THEN <<>> ELSE wire[l]]
    /\ asked' = [l \in Ends |-> IF {l[1], l[2]} \in broken THEN {} ELSE asked[l]]
    /\ done' = [l \in Ends |-> IF {l[1], l[2]} \in broken THEN {} ELSE done[l]]
    /\ pull' = [d \in Device |-> [c \in Content |->
                   IF d \in killed THEN Idle ELSE Orphaned(d, pull[d][c], broken)]]
    /\ lost' = [d \in Device |->
                   \/ lost[d]
                   \/ \E e \in Device : /\ <<d, e>> \in Ends /\ {d, e} \in broken
                                        /\ asked[<<d, e>>] \cup done[<<d, e>>] # {}
                   \/ /\ d \in killed
                      /\ \/ \E c \in Content : pull[d][c] # Idle
                         \/ \E i \in 1 .. Len(inbox[d]) : inbox[d][i].kind = "Materialize"]
    /\ UNCHANGED <<catalog, bytes, clock, acts, used, misjudged>>

Disconnect(link) ==
    /\ link \in linked
    /\ Down({link}, {})
    /\ UNCHANGED <<inbox, pass>>

Crash(d) ==
    /\ Down({l \in Tree : d \in l}, {d})
    /\ inbox' = [inbox EXCEPT ![d] = <<>>]
    /\ pass' = [pass EXCEPT ![d] = NoPass]

-----------------------------------------------------------------------------
(***************************************************************************)
(* The release pass: at the start, when a peer connects, and now and then. *)
(* It takes the entries one at a time, in any order.                       *)
(***************************************************************************)
\* Seeded mistakes: what is not recorded counts as superseded; a deletion does not
\* make an entry obsolete.
ObsoleteUnlessLatest(d, c) == Deleted(d) \/ latest[d].content # c

ObsoleteIfSuperseded(d, c) == c \in recorded[d] /\ latest[d].content # c

Obsolete(d, c) == Deleted(d) \/ (c \in recorded[d] /\ latest[d].content # c)

Awaited(d, c) == \E i \in 1 .. Len(inbox[d]) : /\ inbox[d][i].kind = "AnnounceUpload"
                                               /\ inbox[d][i].content = c

\* The catalog and the sync directories decide, and otherwise the peers.
Judge(d, c) ==
    /\ pass[d].stage = "idle" /\ c \in outbox[d]
    /\ pass' = [pass EXCEPT ![d] =
                   [entry |-> c, stage |-> IF Obsolete(d, c) \/ disk[d] = c THEN "remove"
                                           ELSE "probe"]]
    /\ misjudged' = (misjudged \/ (Deleted(d) /\ Awaited(d, c)))
    /\ UNCHANGED <<catalog, bytes, inbox, pull, session, wire, counts, lost>>

Probe(d) ==
    /\ pass[d].stage = "probe"
    /\ pass' = [pass EXCEPT ![d] = IF \E e \in Connected(d) : Answers(e, pass[d].entry)
                                   THEN [@ EXCEPT !.stage = "remove"] ELSE NoPass]
    /\ UNCHANGED <<catalog, bytes, inbox, pull, session, wire, counts, misjudged, lost>>

Release(d) ==
    /\ pass[d].stage = "remove"
    /\ outbox' = [outbox EXCEPT ![d] = @ \ {pass[d].entry}]
    /\ pass' = [pass EXCEPT ![d] = NoPass]
    /\ UNCHANGED <<catalog, disk, inbox, pull, session, wire, counts, misjudged, lost>>

ReleasePass(d) == (\E c \in Content : Judge(d, c)) \/ Probe(d) \/ Release(d)

-----------------------------------------------------------------------------
Session(d, e) == Receive(d, e) \/ StartReceive(d, e) \/ TakeDone(d, e)

Next == \/ \E d \in Acting : Delete(d) \/ \E c \in Content : Upload(d, c)
        \/ \E d \in Device : Write(d) \/ ReleasePass(d) \/ Crash(d)
        \/ \E d \in Device, c \in Content : Transfer(d, c) \/ TimeOut(d, c)
        \/ \E l \in Ends : Session(l[1], l[2])
        \/ \E link \in Tree : Connect(link) \/ Disconnect(link)

Spec == Init /\ [][Next]_vars

\* The writer, the pulls, the sessions and the passes go on as long as they have
\* something to do, a pass leaves no entry out, and a peer that is not connected
\* is dialled again.
Fairness ==
    /\ \A d \in Device : WF_vars(Write(d))
    /\ \A d \in Holder, c \in Content : WF_vars(Transfer(d, c))
    /\ \A d \in Acting, c \in Content : SF_vars(Judge(d, c))
    /\ \A d \in Acting : WF_vars(Probe(d) \/ Release(d))
    /\ \A l \in Ends : WF_vars(Session(l[1], l[2]))
    /\ \A link \in Tree : WF_vars(Connect(link))

FairSpec == Spec /\ Fairness

-----------------------------------------------------------------------------
(***************************************************************************)
(* Properties.                                                             *)
(***************************************************************************)
Commands ==
    [kind : {"AnnounceUpload", "Materialize"}, content : Content, placement : Placement]
      \cup [kind : {"Version"}, content : Content, at : Nat, from : Device]
      \cup [kind : {"Deletion"}, at : Nat, from : Device]
      \cup [kind : {"Sweep"}]

Frames == [kind : {"Version"}, content : Content, at : Nat]
            \cup [kind : {"Deletion"}, at : Nat]

TypeOK ==
    /\ recorded \in [Device -> SUBSET Content]
    /\ latest \in [Device -> Version]
    /\ \A d \in Device : Known(d) => latest[d].content \in recorded[d]
    /\ deleted \in [Device -> Nat]
    /\ disk \in [Device -> Content \cup {None}]
    /\ outbox \in [Device -> SUBSET Content]
    /\ inbox \in [Device -> Seq(Commands)]
    /\ pull \in [Device -> [Content -> Pull \cup {Idle}]]
    /\ pass \in [Device -> [stage : {"idle", "probe", "remove"},
                            entry : Content \cup {None}]]
    /\ linked \subseteq Tree
    /\ wire \in [Ends -> Seq(Frames)]
    /\ asked \in [Ends -> SUBSET Order] /\ done \in [Ends -> SUBSET Order]
    /\ clock \in Nat /\ acts \in Nat /\ drops \in Nat
    /\ used \subseteq Content
    /\ misjudged \in BOOLEAN /\ lost \in [Device -> BOOLEAN]

\* The version that is the newest anywhere, while no device has a newer deletion.
Newest(version) == /\ version.at > 0
                   /\ \E d \in Device : latest[d] = version
                   /\ \A d \in Device : latest[d].at <= version.at /\ deleted[d] <= version.at

\* The bytes of the newest version are somewhere, on disk or in an outbox, whatever
\* is dropped from outboxes because it is obsolete or held elsewhere (outbox.rs).
LatestSurvives ==
    ~misjudged => \A d \in Device :
                      Newest(latest[d]) => \E e \in Device : Answers(e, latest[d].content)

Quiet == /\ linked = Tree
         /\ \A d \in Device : inbox[d] = <<>> /\ \A c \in Content : pull[d][c] = Idle
         /\ \A l \in Ends : wire[l] = <<>> /\ asked[l] = {} /\ done[l] = {}

\* Once all is connected and done, a device whose directory takes the file has its
\* latest bytes, unless a pull of them was lost and none has been made since
\* (pull_scheduler.rs, session.rs, the sweep of catalog/mod.rs).
QuietDelivered ==
    Quiet => \A d \in Holder : Live(d) /\ ~lost[d] => disk[d] = latest[d].content

\* No pull is in flight for ever: it would keep its content from being pulled
\* again, and its permit from others.
EveryPullEnds ==
    \A d \in Device, c \in Content : (pull[d][c] # Idle) ~> (pull[d][c] = Idle)

Needless(d, c) ==
    \/ Deleted(d)
    \/ c \in recorded[d] /\ latest[d].content # c
    \/ disk[d] = c
    \/ \E e \in Connected(d) : Answers(e, c)

\* The outbox is no archive: in the end it has only what no one else holds and the
\* file still needs.
OutboxDrains == <>[](\A d \in Device, c \in Content : c \in outbox[d] => ~Needless(d, c))

(***************************************************************************)
(* What the documentation says and the code does not keep.                 *)
(***************************************************************************)

\* fetch.rs: what could not be pulled for want of a session is picked up by the
\* reconciliation of the next connect; so, unless pulls time out, all that is there
\* to have arrives in the end.
ReconnectDelivers ==
    Quiet => \A d \in Holder :
        Live(d) /\ (\E e \in Connected(d) : Answers(e, latest[d].content))
            => disk[d] = latest[d].content

\* outbox.rs: an entry that is still being announced is kept.
UploadsSurvive ==
    \A d \in Device : Newest(latest[d]) => \E e \in Device : Answers(e, latest[d].content)
=============================================================================

------------------------------ MODULE TreeSync ------------------------------
(***************************************************************************)
(* Devices that keep their catalogs in step about one file, over peer      *)
(* sessions that come and go (tagsyd/src/peer/session.rs, dial.rs, and the *)
(* catalog writer behind them).                                            *)
(*                                                                         *)
(* Each device has one catalog writer that takes commands from one queue.  *)
(* A change it applies is forwarded to every neighbour whose outbound slot *)
(* is filled, except the one it came from; the graph of peers is a tree.   *)
(* A session registers its outbound sender, then queues its manifests,     *)
(* and only then starts to read frames.  A link that breaks loses what was *)
(* in flight; what a session handed to the writer is in its queue.         *)
(***************************************************************************)
EXTENDS Reconcile, FiniteSets

CONSTANTS
    Device,
    Tree,        \* the configured links, as pairs {d, e} of devices
    Acting,      \* the devices on which files are changed
    Setting,     \* the bounds, one of which a behaviour takes: the stamps,
                 \* paths and contents of local changes, whether the devices'
                 \* clocks disagree, and how often a link breaks or a device
                 \* is killed
    Everywhere   \* every device has the file to begin with

ASSUME TreeAssumption == /\ Tree \subseteq SUBSET Device
                         /\ Path # {} /\ Content # {}
                         /\ \A l \in Tree : Cardinality(l) = 2
                         /\ Acting \subseteq Device
                         /\ \A s \in Setting : /\ s.stamps \subseteq Nat \ {0, 1}
                                             /\ s.skewed \in BOOLEAN
                                             /\ s.drops \in Nat
                                             /\ s.paths \subseteq Path
                                             /\ s.contents \subseteq Content
                         /\ Everywhere \in BOOLEAN

VARIABLES
    file,     \* [Device -> File], the catalogs (durable)
    queue,    \* [Device -> Seq(...)], commands for the writer, with origin
    stage,    \* [Ends -> Stage], how far the session of d with e is
    wire,     \* [Ends -> Seq(...)], frames on their way from d to e
    stamps,   \* history: the stamps taken so far
    clock,    \* [Device -> Nat], the last stamp the device issued
    drops,    \* breakdowns so far
    setting   \* the bounds of this behaviour

vars == <<file, queue, stage, wire, stamps, clock, drops, setting>>

Ends == {l \in Device \X Device : {l[1], l[2]} \in Tree}

Neighbours(d) == {e \in Device : {d, e} \in Tree}

Stage == {"down", "registered", "announcing", "reading"}

First == CHOOSE h \in Content : TRUE

SharedFile ==
    [Unknown EXCEPT !.known = TRUE, !.path = CHOOSE p \in Path : TRUE,
                    !.pathAt = 1, !.log = <<[hash |-> First, at |-> 1]>>]

Init == /\ file = [d \in Device |-> IF Everywhere THEN SharedFile ELSE Unknown]
        /\ queue = [d \in Device |-> <<>>]
        /\ stage = [l \in Ends |-> "down"]
        /\ wire = [l \in Ends |-> <<>>]
        /\ stamps = {}
        /\ clock = [d \in Device |-> 0]
        /\ drops = 0
        /\ setting \in Setting

-----------------------------------------------------------------------------
(***************************************************************************)
(* The writer.                                                             *)
(***************************************************************************)

ChangeFrame(c) == [frame |-> "Change", change |-> c]

Sending(w, d, to, frames) ==
    [l \in Ends |-> IF l[1] = d /\ l[2] \in to THEN w[l] \o frames ELSE w[l]]

\* Seeded mistakes: a change goes back to where it came from; a change is not
\* sent while the session is still announcing.
ForwardedToOrigin(d, changes, origin) ==
    LET to == {e \in Neighbours(d) : stage[<<d, e>>] # "down"}
    IN  IF changes = {}
        THEN wire
        ELSE Sending(wire, d, to, <<ChangeFrame(CHOOSE c \in changes : TRUE)>>)

ForwardedOnceReading(d, changes, origin) ==
    LET to == {e \in Neighbours(d) \ {origin} : stage[<<d, e>>] = "reading"}
    IN  IF changes = {}
        THEN wire
        ELSE Sending(wire, d, to, <<ChangeFrame(CHOOSE c \in changes : TRUE)>>)

\* To every neighbour whose session has registered, but the origin (the
\* device itself for a change made on it).
Forwarded(d, changes, origin) ==
    LET to == {e \in Neighbours(d) \ {origin} : stage[<<d, e>>] # "down"}
    IN  IF changes = {}
        THEN wire
        ELSE Sending(wire, d, to, <<ChangeFrame(CHOOSE c \in changes : TRUE)>>)

Commit(d, outcome, origin) ==
    /\ file' = [file EXCEPT ![d] = outcome.file]
    /\ wire' = Forwarded(d, outcome.announce, origin)

\* The next command from the writer's queue.
Write(d) ==
    /\ queue[d] # <<>>
    /\ Commit(d, Handle(file[d], Head(queue[d]).command), Head(queue[d]).from)
    /\ queue' = [queue EXCEPT ![d] = Tail(@)]
    /\ UNCHANGED <<stage, stamps, clock, drops, setting>>

\* A change made on this device, stamped by its clock: later than any stamp
\* the device issued before, and not one another device takes.
Stamped(d, at) == /\ at \in setting.stamps \ stamps
                  /\ at > clock[d]
                  /\ setting.skewed \/ \A s \in stamps : at > s
                  /\ stamps' = stamps \cup {at}
                  /\ clock' = [clock EXCEPT ![d] = at]
                  /\ UNCHANGED <<queue, stage, drops, setting>>

Create(d, at) ==
    /\ ~Everywhere /\ stamps = {}
    /\ Stamped(d, at)
    /\ \E p \in setting.paths : Commit(d, LocalAdd(file[d], p, at, First, at), d)

\* Only edits that do not lag behind a version already recorded (see
\* CatalogWriter for those that do).
Edit(d, at) ==
    /\ file[d].known /\ at > LatestAt(file[d])
    /\ Stamped(d, at)
    /\ \E h \in setting.contents : Commit(d, LocalEdit(file[d], h, at), d)

Move(d, at) ==
    /\ Live(file[d])
    /\ Stamped(d, at)
    /\ \E p \in setting.paths \ {file[d].path} :
           Commit(d, ApplyChange(file[d], Moved(p, at)), d)

Delete(d, at) ==
    /\ Live(file[d])
    /\ Stamped(d, at)
    /\ Commit(d, ApplyChange(file[d], Deleted(at)), d)

Restore(d, at) ==
    /\ file[d].known /\ file[d].deleted
    /\ Stamped(d, at)
    /\ Commit(d, ApplyProbedRestore(file[d], Latest(file[d]).hash, at), d)

Purge(d) ==
    /\ file[d].known
    /\ Commit(d, ApplyChange(file[d], Purged), d)
    /\ UNCHANGED <<queue, stage, stamps, clock, drops, setting>>

-----------------------------------------------------------------------------
(***************************************************************************)
(* Sessions.                                                               *)
(***************************************************************************)

\* The outbound slot is filled: from here on live changes are forwarded.
Register(d, e) ==
    /\ stage[<<d, e>>] = "down"
    /\ stage' = [stage EXCEPT ![<<d, e>>] = "registered"]
    /\ UNCHANGED <<file, queue, wire, stamps, clock, drops, setting>>

AnnouncePurges(d, e) ==
    /\ stage[<<d, e>>] = "registered"
    /\ stage' = [stage EXCEPT ![<<d, e>>] = "announcing"]
    /\ wire' = Sending(wire, d, {e}, <<[frame |-> "PurgeManifest",
                                        purged |-> file[d].purged]>>)
    /\ UNCHANGED <<file, queue, stamps, clock, drops, setting>>

AnnounceFile(d, e) ==
    /\ stage[<<d, e>>] = "announcing"
    /\ stage' = [stage EXCEPT ![<<d, e>>] = "reading"]
    /\ wire' = Sending(wire, d, {e}, <<[frame |-> "Manifest",
                                        entries |-> Manifest(file[d])]>>)
    /\ UNCHANGED <<file, queue, stamps, clock, drops, setting>>

\* What the session of e makes of a frame, from what the catalog holds now.
Planned(f, frame) ==
    CASE frame.frame = "Change" -> <<frame.change>>
      [] frame.frame = "PurgeManifest" ->
             IF frame.purged THEN PlanPurge(f) ELSE <<>>
      [] frame.frame = "Manifest" ->
             IF frame.entries = {} THEN <<>>
             ELSE PlanFile(f, CHOOSE entry \in frame.entries : TRUE)

Receive(d, e) ==
    /\ stage[<<e, d>>] = "reading"
    /\ wire[<<d, e>>] # <<>>
    /\ LET commands == Planned(file[e], Head(wire[<<d, e>>]))
       IN  queue' = [queue EXCEPT ![e] =
                        @ \o [i \in 1..Len(commands) |->
                                 [command |-> commands[i], from |-> d]]]
    /\ wire' = [wire EXCEPT ![<<d, e>>] = Tail(@)]
    /\ UNCHANGED <<file, stage, stamps, clock, drops, setting>>

\* Seeded mistake: frames of a broken connection come out of the next one.
DownKeepsFrames(broken) ==
    /\ drops < setting.drops
    /\ UNCHANGED setting
    /\ drops' = drops + 1
    /\ stage' = [l \in Ends |-> IF {l[1], l[2]} \in broken THEN "down" ELSE stage[l]]
    /\ UNCHANGED wire

\* The connection breaks: both sessions end.
Down(broken) ==
    /\ drops < setting.drops
    /\ UNCHANGED setting
    /\ drops' = drops + 1
    /\ stage' = [l \in Ends |-> IF {l[1], l[2]} \in broken THEN "down" ELSE stage[l]]
    /\ wire' = [l \in Ends |-> IF {l[1], l[2]} \in broken THEN <<>> ELSE wire[l]]

Disconnect(d, e) ==
    /\ stage[<<d, e>>] # "down"
    /\ Down({{d, e}})
    /\ UNCHANGED <<file, queue, stamps, clock>>

\* The daemon is killed between two commands, and started again.
Crash(d) ==
    /\ Down({l \in Tree : d \in l})
    /\ queue' = [queue EXCEPT ![d] = <<>>]
    /\ file' = [file EXCEPT ![d] = ReconcilePurged(@)]
    /\ UNCHANGED <<stamps, clock>>

-----------------------------------------------------------------------------
Change(d) == \/ \E at \in setting.stamps : \/ Create(d, at) \/ Edit(d, at) \/ Move(d, at)
                                  \/ Delete(d, at) \/ Restore(d, at)
             \/ Purge(d)

Session(d, e) == \/ Register(d, e)
                 \/ AnnouncePurges(d, e)
                 \/ AnnounceFile(d, e)
                 \/ Receive(d, e)

Next == \/ \E d \in Acting : Change(d)
        \/ \E d \in Device : Write(d) \/ Crash(d)
        \/ \E l \in Ends : Session(l[1], l[2]) \/ Disconnect(l[1], l[2])

Spec == Init /\ [][Next]_vars

\* The writer loop, the session loops and the dialler of every device run for
\* ever; nobody has to change a file.
FairSpec == /\ Spec
            /\ \A d \in Device : WF_vars(Write(d))
            /\ \A l \in Ends : WF_vars(Session(l[1], l[2]))

-----------------------------------------------------------------------------
(***************************************************************************)
(* Properties.                                                             *)
(***************************************************************************)

\* Commands come from neighbours, and a link that is down carries nothing.
TypeOK ==
    /\ file \in [Device -> File]
    /\ DOMAIN queue = Device
    /\ \A d \in Device : \A i \in 1..Len(queue[d]) :
           queue[d][i].from \in Neighbours(d)
    /\ stage \in [Ends -> Stage]
    /\ DOMAIN wire = Ends
    /\ \A l \in Ends : stage[l] = "down" => wire[l] = <<>>
    /\ setting \in Setting
    /\ stamps \subseteq setting.stamps
    /\ clock \in [Device -> stamps \cup {0}]
    /\ drops \in 0..setting.drops

\* The rows of neighbours can be compared stamp by stamp: changes keep the
\* stamp of the device that made them all along the tree (catalog/files.rs),
\* and rows stay sound under whatever arrives.
RowsCompare == \A l \in Ends : /\ SoundRow(file[l[1]])
                               /\ Coherent(file[l[1]], file[l[2]])

Quiet == /\ \A d \in Device : queue[d] = <<>>
         /\ \A l \in Ends : stage[l] = "reading" /\ wire[l] = <<>>

\* When neither side of a link learns anything from the other's manifest, the
\* two catalogs show the same file: repeated exchanges do not get stuck in a
\* disagreement (peer/plan.rs, plan_file_sync against the handlers of
\* catalog/files.rs).
FixpointAgrees ==
    \A l \in Ends : LET f == file[l[1]]
                        g == file[l[2]]
                    IN  Absorbs(f, g) /\ Absorbs(g, f) => Agree(f, g)

\* With clocks in step, once everything that was sent has been applied, the
\* devices agree on
\* whether the file is there, whatever was changed offline and whatever
\* changed while the sessions were setting up (session.rs registers the
\* outbound slot before it takes the snapshot it announces).
QuietPresence ==
    ~setting.skewed /\ Quiet =>
        \A l \in Ends : Live(file[l[1]]) = Live(file[l[2]])

\* A purge made anywhere ends up everywhere, also on devices that were away,
\* that crashed, or that the purge overtook (plan_purge.rs, forward.rs).
PurgeReachesAll ==
    (\E d \in Device : file[d].purged)
        ~> (\A d \in Device : file[d].purged /\ ~file[d].known)

\* Changes that lost are passed on like those that won, and the devices still
\* stop talking: nothing goes back to where it came from (forward.rs).
Settles == <>[]Quiet

(***************************************************************************)
(* What the documentation says and the code does not keep.                 *)
(***************************************************************************)

\* README: edits on any device propagate to the others.
QuietAgrees == Quiet => \A l \in Ends : Agree(file[l[1]], file[l[2]])

\* store/files.rs: on reconnect a delete loses to a newer restore.
QuietRestores ==
    Quiet => \A l \in Ends :
                 \/ Live(file[l[1]]) = Live(file[l[2]])
                 \/ \A d, e \in {l[1], l[2]} :
                        file[d].deletedAt >= file[e].restoredAt

\* README: every device holds the full metadata.
QuietMetadata ==
    Quiet => \A l \in Ends : file[l[1]].known = file[l[2]].known
=============================================================================

----------------------------- MODULE Maintenance -----------------------------
(***************************************************************************)
(* The commands an operator runs over a whole catalog: delete-duplicates,  *)
(* purge-deleted, purge-broken and retag (tagsyd/src/frontend/api, catalog *)
(* /duplicates.rs, mod.rs), while users add, tag, move, delete and restore *)
(* files, on devices that keep many files in step.                         *)
(*                                                                         *)
(* A command plans from the catalog of its own device and is carried out   *)
(* change by change, before the writer takes anything else; its changes    *)
(* are forwarded like any others.  Retag only plans, beside the writer,    *)
(* and its changes wait for their turn.  Links do not break here (see      *)
(* TreeSync), every device has a directory for all files, and no file is   *)
(* edited.                                                                 *)
(***************************************************************************)
EXTENDS FileCommands, FiniteSets

CONSTANTS
    Device,
    Tree,      \* the configured links, as sets {d, e} of devices
    FileId,    \* ids are ordered
    Hash,      \* [FileId -> Content], what the file is created with
    Tag,
    Rules,     \* [Path -> SUBSET Tag], the tag rules of every device
    Setting    \* [acts, commands: how many; may: which; path: where files go;
               \*  resting: which of them wait until nothing is under way]

ASSUME MaintenanceAssumption == /\ Tree \subseteq SUBSET Device
                                /\ \A l \in Tree : Cardinality(l) = 2
                                /\ FileId \subseteq Nat
                                /\ Hash \in [FileId -> Content]
                                /\ Rules \in [Path -> SUBSET Tag]
                                /\ \A s \in Setting : s.path \subseteq Path

VARIABLES
    file,      \* [Device -> [FileId -> File]], the catalogs
    tag,       \* [Device -> [FileId \X Tag -> Row]], what is tagged
    held,      \* [Device -> SUBSET FileId], whose bytes are on its disk
    wire,      \* [Ends -> Seq(Frame)], changes on their way from d to e
    todo,      \* [Device -> SUBSET Frame], what is left of a command
    queued,    \* [Device -> SUBSET Frame], what retag gave the writer
    now,       \* the clocks
    acts, commands,  \* how many there were
    setting,
    racing,    \* no user has acted since commands began to
    put,       \* history: tags put on a content and not taken off again
    lost       \* history: contents of which a user deleted or a disk lost a file

control == <<now, acts, commands, setting, racing, put, lost>>
vars == <<file, tag, held, wire, todo, queued, control>>

Ends == {l \in Device \X Device : {l[1], l[2]} \in Tree}

NoRow == [deleted |-> FALSE, at |-> 0]

On(rows, f, t) == rows[<<f, t>>].at > 0 /\ ~rows[<<f, t>>].deleted

LiveFiles(d) == {f \in FileId : Live(file[d][f])}

Seen(d, f) == file[d][f].known \/ file[d][f].purged

Quiet == /\ \A l \in Ends : wire[l] = <<>>
         /\ \A d \in Device : todo[d] = {} /\ queued[d] = {}

\* Nothing is under way, the bytes of files included.
Rest == /\ Quiet
        /\ \A d \in Device : \A f \in LiveFiles(d) \ held[d] : Hash[f] \in lost

Init == /\ file = [d \in Device |-> [f \in FileId |-> Unknown]]
        /\ tag = [d \in Device |-> [r \in FileId \X Tag |-> NoRow]]
        /\ held = [d \in Device |-> {}]
        /\ wire = [l \in Ends |-> <<>>]
        /\ todo = [d \in Device |-> {}]
        /\ queued = [d \in Device |-> {}]
        /\ now = 0 /\ acts = 0 /\ commands = 0
        /\ setting \in Setting /\ racing = FALSE
        /\ put = {} /\ lost = {}

-----------------------------------------------------------------------------
(***************************************************************************)
(* Changes of many files, and what the writer does with one of them.       *)
(***************************************************************************)
Tagged(t, at) == [kind |-> "FileTagged", tag |-> t, at |-> at]
Untagged(t, at) == [kind |-> "FileUntagged", tag |-> t, at |-> at]

OfTag(change) == change.kind \in {"FileTagged", "FileUntagged"}

\* tags: those a new file is announced with.
Frame(f, change, tags) == [file |-> f, change |-> change, tags |-> tags]

Written(row, deleted, at) ==
    IF at > row.at THEN [deleted |-> deleted, at |-> at] ELSE row

\* A new file brings its tags, a purge strips them; a tag is written whether
\* or not there is such a file, a purged one included.
TagsAfter(rows, frame, old) ==
    LET c == frame.change
    IN  [r \in FileId \X Tag |->
            IF r[1] # frame.file THEN rows[r]
            ELSE CASE OfTag(c) /\ r[2] = c.tag -> Written(rows[r], c.kind = "FileUntagged", c.at)
                   [] c.kind = "FileMetadataAdded" /\ r[2] \in frame.tags /\ ~old.known /\ ~old.purged ->
                          Written(rows[r], FALSE, c.pathAt)
                   [] c.kind = "FilePurged" /\ (old.known \/ ~old.purged) -> NoRow
                   [] OTHER -> rows[r]]

Forwarded(w, d, frames, from) ==
    [l \in Ends |-> IF l[1] = d /\ l[2] # from THEN w[l] \o frames ELSE w[l]]

\* One change, come from a neighbour or made on d itself.
Apply(d, frame, from, w) ==
    LET f == frame.file
        old == file[d][f]
        outcome == IF OfTag(frame.change) THEN Relayed(old, frame.change)
                   ELSE ApplyChange(old, frame.change)
    IN  /\ file' = [file EXCEPT ![d] = [@ EXCEPT ![f] = outcome.file]]
        /\ tag' = [tag EXCEPT ![d] = TagsAfter(@, frame, old)]
        /\ held' = [held EXCEPT ![d] = IF outcome.place = "Remove" THEN @ \ {f} ELSE @]
        /\ wire' = Forwarded(w, d, IF outcome.announce = {} THEN <<>> ELSE <<frame>>, from)

\* Between two changes of a command the writer takes nothing else.
Free(d) == todo[d] = {}

Receive(d, e) ==
    /\ Free(e) /\ wire[<<d, e>>] # <<>>
    /\ Apply(e, Head(wire[<<d, e>>]), d, [wire EXCEPT ![<<d, e>>] = Tail(@)])
    /\ UNCHANGED <<todo, queued, control>>

-----------------------------------------------------------------------------
(***************************************************************************)
(* Users.                                                                  *)
(***************************************************************************)
May(what) == /\ what \in setting.may
             /\ what \in setting.resting => Rest

Act(d, what) == /\ May(what) /\ Free(d)
                /\ acts < setting.acts /\ acts' = acts + 1
                /\ now' = now + 1 /\ racing' = FALSE
                /\ UNCHANGED <<todo, queued, commands, setting>>

\* announce_upload: the rules tag what is created here, and only here.
Create(d, f, p) ==
    /\ Act(d, "Create")
    /\ \A e \in Device : file[e][f] = Unknown
    /\ LET frame == Frame(f, Added(p, now', Hash[f], now'), Rules[p])
       IN  /\ file' = [file EXCEPT ![d] = [@ EXCEPT ![f] = LocalAdd(Unknown, p, now', Hash[f], now').file]]
           /\ tag' = [tag EXCEPT ![d] = TagsAfter(@, frame, Unknown)]
           /\ wire' = Forwarded(wire, d, <<frame>>, d)
    /\ held' = [held EXCEPT ![d] = @ \cup {f}]
    /\ put' = put \cup {<<Hash[f], t>> : t \in Rules[p]}
    /\ UNCHANGED lost

Change(d, what, f, change) ==
    /\ Act(d, what)
    /\ Apply(d, Frame(f, change, {}), d, wire)

Move(d, f, p) ==
    /\ Live(file[d][f]) /\ file[d][f].path # p
    /\ Change(d, "Move", f, Moved(p, now'))
    /\ UNCHANGED <<put, lost>>

Delete(d, f) ==
    /\ Live(file[d][f])
    /\ Change(d, "Delete", f, Deleted(now'))
    /\ lost' = lost \cup {Hash[f]}
    /\ UNCHANGED put

\* After a probe that found the bytes; they may be gone again.
Restore(d, f) ==
    /\ file[d][f].known /\ file[d][f].deleted
    /\ Change(d, "Restore", f, Restored(Hash[f], now'))
    /\ UNCHANGED <<put, lost>>

TagFile(d, f, t) ==
    /\ Live(file[d][f]) /\ ~On(tag[d], f, t)
    /\ Change(d, "TagFile", f, Tagged(t, now'))
    /\ put' = put \cup {<<Hash[f], t>>}
    /\ UNCHANGED lost

UntagFile(d, f, t) ==
    /\ file[d][f].known /\ On(tag[d], f, t)
    /\ Change(d, "UntagFile", f, Untagged(t, now'))
    /\ put' = put \ {<<Hash[f], t>>}
    /\ UNCHANGED lost

-----------------------------------------------------------------------------
(***************************************************************************)
(* Commands.                                                               *)
(***************************************************************************)
\* Commands that wait for users need not wait for each other.
Command(d, what) == /\ May(what) \/ (racing /\ what \in setting.may /\ what # "PurgeBroken")
                    /\ commands < setting.commands /\ commands' = commands + 1
                    /\ now' = now + 1 /\ racing' = TRUE
                    /\ UNCHANGED <<file, tag, held, wire, acts, setting>>

\* A command that plans and writes in one turn of the writer.
Plan(d, what, frames) == /\ Free(d)
                         /\ Command(d, what)
                         /\ frames # {} /\ todo' = [todo EXCEPT ![d] = frames]
                         /\ UNCHANGED <<queued, put, lost>>

\* find_duplicate_sets: the live files with the path and the hash of f.
DuplicateSet(d, f) ==
    {g \in LiveFiles(d) : /\ file[d][g].path = file[d][f].path
                          /\ Latest(file[d][g]).hash = Latest(file[d][f]).hash}

\* Seeded mistake: the member with most tags survives.
KeptMostTagged(d, f) ==
    CHOOSE g \in DuplicateSet(d, f) :
        \A h \in DuplicateSet(d, f) \ {g} :
            LET tags(i) == Cardinality({t \in Tag : On(tag[d], i, t)})
            IN  tags(g) > tags(h) \/ (tags(g) = tags(h) /\ g < h)

\* plan_duplicate_group: the lowest id survives ...
Kept(d, f) == CHOOSE g \in DuplicateSet(d, f) : \A h \in DuplicateSet(d, f) : g <= h

Doomed(d) == {f \in LiveFiles(d) : Kept(d, f) # f}

\* Seeded mistake: the difference is taken the wrong way round.
TagsMergedSwapped(d, g) ==
    {t \in Tag : /\ On(tag[d], g, t)
                 /\ \E f \in Doomed(d) : Kept(d, f) = g /\ ~On(tag[d], f, t)}

\* ... and gains the tags of the others.
TagsMerged(d, g) ==
    {t \in Tag : /\ ~On(tag[d], g, t)
                 /\ \E f \in Doomed(d) : Kept(d, f) = g /\ On(tag[d], f, t)}

DeleteDuplicates(d) ==
    Plan(d, "DeleteDuplicates",
         {Frame(f, Deleted(now'), {}) : f \in Doomed(d)}
         \cup UNION {{Frame(g, Tagged(t, now'), {}) : t \in TagsMerged(d, g)} : g \in LiveFiles(d)})

PurgeDeleted(d) ==
    Plan(d, "PurgeDeleted",
         {Frame(f, Purged, {}) : f \in {g \in FileId : file[d][g].known /\ file[d][g].deleted}})

\* Live files whose bytes are missing here (MissingContent).
PurgeBroken(d) ==
    Plan(d, "PurgeBroken", {Frame(f, Purged, {}) : f \in LiveFiles(d) \ held[d]})

\* The duplicates of a set go before the survivor gains their tags.
Carry(d) ==
    \E frame \in todo[d] :
        /\ OfTag(frame.change) =>
               \A other \in todo[d] : other.change.kind = "FileDeleted" =>
                   Kept(d, other.file) # frame.file
        /\ Apply(d, frame, d, wire)
        /\ todo' = [todo EXCEPT ![d] = @ \ {frame}]
        /\ UNCHANGED <<queued, control>>

ToTag(d) == {r \in LiveFiles(d) \X Tag : r[2] \in Rules[file[d][r[1]].path] /\ ~On(tag[d], r[1], r[2])}

\* retag reads the catalog whatever the writer is at.
Retag(d) ==
    /\ Command(d, "Retag")
    /\ ToTag(d) # {}
    /\ queued' = [queued EXCEPT ![d] = @ \cup {Frame(r[1], Tagged(r[2], now'), {}) : r \in ToTag(d)}]
    /\ put' = put \cup {<<Hash[r[1]], r[2]>> : r \in ToTag(d)}
    /\ UNCHANGED <<todo, lost>>

WriteQueued(d) ==
    /\ Free(d)
    /\ \E frame \in queued[d] : /\ Apply(d, frame, d, wire)
                                /\ queued' = [queued EXCEPT ![d] = @ \ {frame}]
    /\ UNCHANGED <<todo, control>>

-----------------------------------------------------------------------------
(***************************************************************************)
(* Bytes.                                                                  *)
(***************************************************************************)
\* A pull, or the sweep of a later connect.
Pull(d, f) ==
    /\ f \in LiveFiles(d) \ held[d]
    /\ \E e \in Device : f \in held[e]
    /\ held' = [held EXCEPT ![d] = @ \cup {f}]
    /\ UNCHANGED <<file, tag, wire, todo, queued, control>>

Lose(d, f) ==
    /\ May("Lose") /\ Hash[f] \notin lost
    /\ f \in held[d]
    /\ held' = [held EXCEPT ![d] = @ \ {f}]
    /\ lost' = lost \cup {Hash[f]}
    /\ UNCHANGED <<file, tag, wire, todo, queued, now, acts, commands, setting, racing, put>>

-----------------------------------------------------------------------------
UserStep(d) ==
    \E f \in FileId :
        \/ \E p \in setting.path : Create(d, f, p) \/ Move(d, f, p)
        \/ Delete(d, f) \/ Restore(d, f)
        \/ \E t \in Tag : TagFile(d, f, t) \/ UntagFile(d, f, t)

CommandStep(d) == \/ DeleteDuplicates(d) \/ PurgeDeleted(d) \/ PurgeBroken(d)
                  \/ Retag(d)

Next == \/ \E d \in Device : UserStep(d) \/ CommandStep(d) \/ Carry(d) \/ WriteQueued(d)
        \/ \E l \in Ends : Receive(l[1], l[2])
        \/ \E d \in Device, f \in FileId : Pull(d, f) \/ Lose(d, f)

Spec == Init /\ [][Next]_vars

-----------------------------------------------------------------------------
(***************************************************************************)
(* Properties.                                                             *)
(***************************************************************************)
\* Whatever devices remove duplicates and purge what they removed, at the same
\* time and from catalogs that lag behind each other, each device keeps a copy
\* of a content that no user deleted and no disk lost: the one with the lowest
\* id it ever had of it (duplicates.rs, the choice of the survivor).
CopyKept ==
    "PurgeBroken" \in setting.resting =>
        \A d \in Device, f \in FileId :
            (/\ Seen(d, f) /\ Hash[f] \notin lost
             /\ \A g \in FileId : Seen(d, g) /\ Hash[g] = Hash[f] => f <= g) => Live(file[d][f])

\* Once all is quiet every device finds a content under every tag that was put
\* on a file of it, wherever its duplicates have gone (tags_merged).
TagsFollow ==
    Quiet => \A d \in Device : \A r \in put :
                 r[1] \notin lost =>
                     \E f \in LiveFiles(d) : Hash[f] = r[1] /\ On(tag[d], f, r[2])

\* So they do, though commands of several devices and retag may race, as long as
\* users wait for commands and commands for users.
TagsKept == setting.may \subseteq setting.resting \cup {"Delete", "Lose"} => TagsFollow
=============================================================================

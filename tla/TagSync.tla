------------------------------- MODULE TagSync -------------------------------
(***************************************************************************)
(* Devices that keep their tags in step: the definitions of tags (tags_v2, *)
(* tagsyd/src/store/tags.rs) and what is tagged with them (entries_v1,     *)
(* store/entries.rs), over the sessions of TreeSync.                       *)
(*                                                                         *)
(* A definition and a relationship each have one stamp.  A relationship is *)
(* always written whole.  A definition is written whole when the tag is    *)
(* made or restored, and in part when it is renamed, restyled or deleted.  *)
(* A session announces stamps and, of relationships, the rest as well;     *)
(* the other side asks for the definitions it lacks.                       *)
(***************************************************************************)
EXTENDS Naturals, Sequences, FiniteSets

CONSTANTS
    Device,
    Tree,        \* the configured links, as sets {d, e} of devices
    Acting,      \* the devices on which tags are changed
    Tag,
    Relation,    \* pairs of a tag and the file or tag that has it
    Name,
    Style,
    Stamp,       \* the stamps that changes may take
    MaxDrops,    \* how often a link breaks or a device is killed
    Everywhere   \* the tags that every device has to begin with

ASSUME TagAssumption == /\ Tree \subseteq SUBSET Device
                        /\ \A l \in Tree : Cardinality(l) = 2
                        /\ Acting \subseteq Device
                        /\ Name # {} /\ Style # {}
                        /\ Stamp \subseteq Nat \ {0, 1}
                        /\ MaxDrops \in Nat
                        /\ Everywhere \subseteq Tag

VARIABLES
    tag,       \* [Device -> [Tag -> Definition]], tags_v2 (durable)
    entry,     \* [Device -> [Relation -> Row]], entries_v1 (durable)
    queue,     \* [Device -> Seq(...)], commands for the writer, with origin
    stage,     \* [Ends -> Stage], how far the session of d with e is
    answer,    \* [Ends -> ...], the definition the session of d read for e
    wire,      \* [Ends -> Seq(...)], frames on their way from d to e
    created,   \* the tags that were made so far
    clock,     \* [Device -> Nat], the last stamp the device issued
    drops,     \* breakdowns so far
    stamps,    \* history: the stamps taken so far
    written,   \* history: every relationship written, by any device
    base,      \* history: [Tag -> [At -> At]], the stamp of the row that the
               \* deletion with a stamp was made on, 0 if there is no such
    contested  \* history: a part of a definition was written over another row
               \* than the one it was changed on, or over none, or a deleted
               \* definition was sent as if it were not

rows    == <<tag, entry>>
session == <<stage, answer>>
history == <<stamps, written, base>>
vars == <<rows, queue, session, wire, created, clock, drops, history, contested>>

Ends == {l \in Device \X Device : {l[1], l[2]} \in Tree}

Neighbours(d) == {e \in Device : {d, e} \in Tree}

Stage == {"down", "registered", "defined", "reading"}

At == Stamp \cup {0, 1}

Definition == [name : Name, style : Style, deleted : BOOLEAN, at : At]

NoTag == [name |-> CHOOSE n \in Name : TRUE, style |-> CHOOSE s \in Style : TRUE,
          deleted |-> FALSE, at |-> 0]

Known(definition) == definition.at > 0

NoRow == [deleted |-> FALSE, at |-> 0]

Nothing == [kind |-> "nothing"]

Init == /\ tag = [d \in Device |-> [t \in Tag |->
                     IF t \in Everywhere THEN [NoTag EXCEPT !.at = 1] ELSE NoTag]]
        /\ entry = [d \in Device |-> [r \in Relation |-> NoRow]]
        /\ queue = [d \in Device |-> <<>>]
        /\ stage = [l \in Ends |-> "down"]
        /\ answer = [l \in Ends |-> Nothing]
        /\ wire = [l \in Ends |-> <<>>]
        /\ created = Everywhere
        /\ clock = [d \in Device |-> 0]
        /\ drops = 0
        /\ stamps = {}
        /\ written = {}
        /\ base = [t \in Tag |-> [at \in At |-> 0]]
        /\ contested = FALSE

-----------------------------------------------------------------------------
(***************************************************************************)
(* The rows: what a change makes of a definition or a relationship.        *)
(* A change of a part of a definition remembers (on; not in the code) the  *)
(* stamp of the row it was made on, also when a manifest tells of it.      *)
(***************************************************************************)
AddTag(old, change) ==
    IF change.at > old.at
    THEN [name |-> change.name, style |-> change.style, deleted |-> FALSE, at |-> change.at]
    ELSE old

Newer(old, change) == Known(old) /\ change.at > old.at

UpdateTagName(old, change) ==
    IF Newer(old, change) THEN [old EXCEPT !.name = change.name, !.at = change.at] ELSE old

UpdateTagStyle(old, change) ==
    IF Newer(old, change) THEN [old EXCEPT !.style = change.style, !.at = change.at] ELSE old

RemoveTag(old, change) ==
    IF Newer(old, change) THEN [old EXCEPT !.deleted = TRUE, !.at = change.at] ELSE old

UpsertEntry(old, change) ==
    IF change.at > old.at THEN [deleted |-> FALSE, at |-> change.at] ELSE old

\* Seeded mistakes: a relationship nobody recorded leaves no tombstone; an
\* untag wins whatever its stamp.
UntagKnownEntry(old, change) ==
    IF old.at > 0 /\ change.at > old.at THEN [deleted |-> TRUE, at |-> change.at] ELSE old

UntagAnyway(old, change) == [deleted |-> TRUE, at |-> change.at]

UntagEntry(old, change) ==
    IF change.at > old.at THEN [deleted |-> TRUE, at |-> change.at] ELSE old

OfRelation(change) == change.kind \in {"Tagged", "Untagged"}

InPart(change) == change.kind \in {"TagRenamed", "TagRestyled", "TagRemoved"}

Defined(old, change) ==
    CASE change.kind = "TagAdded"    -> AddTag(old, change)
      [] change.kind = "TagRenamed"  -> UpdateTagName(old, change)
      [] change.kind = "TagRestyled" -> UpdateTagStyle(old, change)
      [] change.kind = "TagRemoved"  -> RemoveTag(old, change)

Related(old, change) ==
    CASE change.kind = "Tagged"   -> UpsertEntry(old, change)
      [] change.kind = "Untagged" -> UntagEntry(old, change)

\* The row is not the one the change was made on, and the change does not lose.
Misses(old, change) ==
    InPart(change) /\ (~Known(old) \/ (change.at > old.at /\ old.at # change.on))

-----------------------------------------------------------------------------
(***************************************************************************)
(* The writer.                                                             *)
(***************************************************************************)
ChangeFrame(change) == [frame |-> "Change", change |-> change]

Sending(to, d, frames) ==
    [l \in Ends |-> IF l[1] = d /\ l[2] \in to THEN wire[l] \o frames ELSE wire[l]]

\* Whether it won or not, to every neighbour but the one it came from.
Forwarded(d, change, origin) ==
    Sending({e \in Neighbours(d) \ {origin} : stage[<<d, e>>] # "down"}, d,
            <<ChangeFrame(change)>>)

WriteRelation(d) ==
    /\ queue[d] # <<>>
    /\ LET change == Head(queue[d]).change
       IN  /\ OfRelation(change)
           /\ entry' = [entry EXCEPT ![d][change.relation] = Related(@, change)]
           /\ wire' = Forwarded(d, change, Head(queue[d]).from)
    /\ queue' = [queue EXCEPT ![d] = Tail(@)]
    /\ UNCHANGED <<tag, session, created, clock, drops, history, contested>>

WriteDefinition(d) ==
    /\ queue[d] # <<>>
    /\ LET from   == Head(queue[d]).from
           old    == tag[d][Head(queue[d]).change.tag]
           change == IF from = d /\ InPart(Head(queue[d]).change)
                     THEN [Head(queue[d]).change EXCEPT !.on = old.at]
                     ELSE Head(queue[d]).change
       IN  /\ ~OfRelation(Head(queue[d]).change)
           /\ tag' = [tag EXCEPT ![d][change.tag] = Defined(@, change)]
           /\ contested' = (contested \/ Misses(old, change))
           /\ base' = IF from = d /\ change.kind = "TagRemoved"
                      THEN [base EXCEPT ![change.tag][change.at] = old.at] ELSE base
           /\ wire' = Forwarded(d, change, from)
    /\ queue' = [queue EXCEPT ![d] = Tail(@)]
    /\ UNCHANGED <<entry, session, created, clock, drops, stamps, written>>

-----------------------------------------------------------------------------
(***************************************************************************)
(* What users do (frontend/api/write.rs): a change is stamped, and then    *)
(* waits for the writer.  Clocks of devices disagree, but no two changes   *)
(* have the same stamp.                                                    *)
(***************************************************************************)
Submit(d, change) ==
    /\ change.at \in Stamp \ stamps
    /\ change.at > clock[d]
    /\ clock' = [clock EXCEPT ![d] = change.at]
    /\ stamps' = stamps \cup {change.at}
    /\ queue' = [queue EXCEPT ![d] = Append(@, [change |-> change, from |-> d])]
    /\ UNCHANGED <<rows, session, wire, drops, base, contested>>

TagAdded(t, name, style, at) ==
    [kind |-> "TagAdded", tag |-> t, name |-> name, style |-> style, at |-> at]

CreateTag(d, at) ==
    \E t \in Tag \ created, name \in Name, style \in Style :
        /\ Submit(d, TagAdded(t, name, style, at))
        /\ created' = created \cup {t}
        /\ UNCHANGED written

\* The definition is read now, and written when its turn comes.
RestoreTag(d, at) ==
    \E t \in Tag :
        /\ Known(tag[d][t]) /\ tag[d][t].deleted
        /\ Submit(d, TagAdded(t, tag[d][t].name, tag[d][t].style, at))
        /\ UNCHANGED <<created, written>>

ChangeTag(d, at) ==
    \E t \in Tag :
        /\ Known(tag[d][t])
        /\ \/ \E name \in Name \ {tag[d][t].name} :
                 Submit(d, [kind |-> "TagRenamed", tag |-> t, name |-> name,
                            at |-> at, on |-> 0])
           \/ \E style \in Style \ {tag[d][t].style} :
                 Submit(d, [kind |-> "TagRestyled", tag |-> t, style |-> style,
                            at |-> at, on |-> 0])
           \/ Submit(d, [kind |-> "TagRemoved", tag |-> t, at |-> at, on |-> 0])
        /\ UNCHANGED <<created, written>>

ChangeRelation(d, at) ==
    \E r \in Relation, kind \in {"Tagged", "Untagged"} :
        /\ Submit(d, [kind |-> kind, relation |-> r, at |-> at])
        /\ written' = written \cup {[relation |-> r, deleted |-> kind = "Untagged",
                                     at |-> at]}
        /\ UNCHANGED created

-----------------------------------------------------------------------------
(***************************************************************************)
(* Sessions.                                                               *)
(***************************************************************************)
Register(d, e) ==
    /\ stage[<<d, e>>] = "down"
    /\ stage' = [stage EXCEPT ![<<d, e>>] = "registered"]
    /\ UNCHANGED <<rows, queue, answer, wire, created, clock, drops, history, contested>>

TagEntries(d) == {[tag |-> t, at |-> tag[d][t].at, deleted |-> tag[d][t].deleted] :
                      t \in {u \in Tag : Known(tag[d][u])}}

RelationEntries(d) ==
    {[relation |-> r, deleted |-> entry[d][r].deleted, at |-> entry[d][r].at] :
        r \in {q \in Relation : entry[d][q].at > 0}}

\* One frame for the definitions and one for the relationships, each read at
\* once; the writer may come in between.
Frames(kind, entries) ==
    IF entries = {} THEN <<>> ELSE <<[frame |-> kind, entries |-> entries]>>

AnnounceTags(d, e) ==
    /\ stage[<<d, e>>] = "registered"
    /\ stage' = [stage EXCEPT ![<<d, e>>] = "defined"]
    /\ wire' = Sending({e}, d, Frames("Definitions", TagEntries(d)))
    /\ UNCHANGED <<rows, queue, answer, created, clock, drops, history, contested>>

AnnounceRelations(d, e) ==
    /\ stage[<<d, e>>] = "defined"
    /\ stage' = [stage EXCEPT ![<<d, e>>] = "reading"]
    /\ wire' = Sending({e}, d, Frames("Relations", RelationEntries(d)))
    /\ UNCHANGED <<rows, queue, answer, created, clock, drops, history, contested>>

Reading(d, e) == /\ stage[<<e, d>>] = "reading"
                 /\ answer[<<e, d>>] = Nothing
                 /\ wire[<<d, e>>] # <<>>

Incoming(d, e, kind) == Reading(d, e) /\ Head(wire[<<d, e>>]).frame = kind

Queued(e, change, origin) ==
    [queue EXCEPT ![e] = Append(@, [change |-> change, from |-> origin])]

ReceiveChange(d, e) ==
    /\ Incoming(d, e, "Change")
    /\ queue' = Queued(e, Head(wire[<<d, e>>]).change, d)
    /\ wire' = [wire EXCEPT ![<<d, e>>] = Tail(@)]
    /\ UNCHANGED <<rows, session, created, clock, drops, history, contested>>

\* What is left of the frames once an entry is dealt with.
Without(frames, item) ==
    IF Head(frames).entries = {item} THEN Tail(frames)
    ELSE <<[Head(frames) EXCEPT !.entries = @ \ {item}]>> \o Tail(frames)

\* Seeded mistake: only tags that are known are asked for.
NeededIfKnown(old, item) == Known(old) /\ item.at > old.at

Needed(old, item) == item.at > old.at

Requests(e, item) ==
    IF Needed(tag[e][item.tag], item) /\ ~item.deleted
    THEN <<[frame |-> "TagRequest", tag |-> item.tag]>>
    ELSE <<>>

\* plan_tag_sync for a definition: its deletion is applied, anything else newer
\* than what is here is asked for.
ReceiveDefinition(d, e) ==
    /\ Incoming(d, e, "Definitions")
    /\ \E item \in Head(wire[<<d, e>>]).entries :
        /\ queue' = IF Needed(tag[e][item.tag], item) /\ item.deleted
                    THEN Queued(e, [kind |-> "TagRemoved", tag |-> item.tag,
                                    at |-> item.at, on |-> base[item.tag][item.at]], d)
                    ELSE queue
        /\ wire' = [wire EXCEPT ![<<d, e>>] = Without(@, item),
                                ![<<e, d>>] = @ \o Requests(e, item)]
    /\ UNCHANGED <<rows, session, created, clock, drops, history, contested>>

\* plan_tag_sync for a relationship.
ReceiveRelation(d, e) ==
    /\ Incoming(d, e, "Relations")
    /\ \E item \in Head(wire[<<d, e>>]).entries :
        /\ queue' = IF item.at > entry[e][item.relation].at
                    THEN Queued(e, [kind |-> IF item.deleted THEN "Untagged" ELSE "Tagged",
                                    relation |-> item.relation, at |-> item.at], d)
                    ELSE queue
        /\ wire' = [wire EXCEPT ![<<d, e>>] = Without(@, item)]
    /\ UNCHANGED <<rows, session, created, clock, drops, history, contested>>

\* The definition is read, deleted or not; the writer may change it before the
\* answer is sent.
ReceiveRequest(d, e) ==
    /\ Incoming(d, e, "TagRequest")
    /\ LET t == Head(wire[<<d, e>>]).tag
       IN  /\ answer' = [answer EXCEPT ![<<e, d>>] =
                            TagAdded(t, tag[e][t].name, tag[e][t].style, tag[e][t].at)]
           /\ contested' = (contested \/ tag[e][t].deleted)
    /\ wire' = [wire EXCEPT ![<<d, e>>] = Tail(@)]
    /\ UNCHANGED <<rows, queue, stage, created, clock, drops, history>>

SendAnswer(d, e) ==
    /\ answer[<<d, e>>] # Nothing
    /\ wire' = Sending({e}, d, <<ChangeFrame(answer[<<d, e>>])>>)
    /\ answer' = [answer EXCEPT ![<<d, e>>] = Nothing]
    /\ UNCHANGED <<rows, queue, stage, created, clock, drops, history, contested>>

\* The connections of broken end, and with them both sessions of each.
Down(broken) ==
    /\ drops < MaxDrops
    /\ drops' = drops + 1
    /\ stage' = [l \in Ends |-> IF {l[1], l[2]} \in broken THEN "down" ELSE stage[l]]
    /\ answer' = [l \in Ends |-> IF {l[1], l[2]} \in broken THEN Nothing ELSE answer[l]]
    /\ wire' = [l \in Ends |-> IF {l[1], l[2]} \in broken THEN <<>> ELSE wire[l]]
    /\ UNCHANGED <<rows, created, clock, history, contested>>

Disconnect(d, e) ==
    /\ stage[<<d, e>>] # "down"
    /\ Down({{d, e}})
    /\ UNCHANGED queue

Crash(d) ==
    /\ Down({l \in Tree : d \in l})
    /\ queue' = [queue EXCEPT ![d] = <<>>]

-----------------------------------------------------------------------------
User(d, at) == CreateTag(d, at) \/ RestoreTag(d, at) \/ ChangeTag(d, at) \/ ChangeRelation(d, at)

Write(d) == WriteRelation(d) \/ WriteDefinition(d)

Session(d, e) ==
    \/ Register(d, e) \/ AnnounceTags(d, e) \/ AnnounceRelations(d, e)
    \/ ReceiveChange(d, e) \/ ReceiveDefinition(d, e) \/ ReceiveRelation(d, e)
    \/ ReceiveRequest(d, e) \/ SendAnswer(d, e)

Next == \/ \E d \in Acting, at \in Stamp : User(d, at)
        \/ \E d \in Device : Write(d) \/ Crash(d)
        \/ \E l \in Ends : Session(l[1], l[2]) \/ Disconnect(l[1], l[2])

Spec == Init /\ [][Next]_vars

-----------------------------------------------------------------------------
(***************************************************************************)
(* Properties.                                                             *)
(***************************************************************************)
Addition == [kind : {"TagAdded"}, tag : Tag, name : Name, style : Style, at : At]

PartChange ==
    [kind : {"TagRenamed"}, tag : Tag, name : Name, at : At, on : At]
      \cup [kind : {"TagRestyled"}, tag : Tag, style : Style, at : At, on : At]
      \cup [kind : {"TagRemoved"}, tag : Tag, at : At, on : At]

RelationChange == [kind : {"Tagged", "Untagged"}, relation : Relation, at : Stamp]

ChangeMade == Addition \cup PartChange \cup RelationChange

Item == [tag : Tag, at : At, deleted : BOOLEAN]

Fact == [relation : Relation, deleted : BOOLEAN, at : Stamp]

Frame == [frame : {"Change"}, change : ChangeMade]
           \cup [frame : {"Definitions"}, entries : SUBSET Item]
           \cup [frame : {"Relations"}, entries : SUBSET Fact]
           \cup [frame : {"TagRequest"}, tag : Tag]

\* Rows, and nothing is under way on a connection that is down.
TypeOK ==
    /\ tag \in [Device -> [Tag -> Definition]]
    /\ entry \in [Device -> [Relation -> [deleted : BOOLEAN, at : Stamp \cup {0}]]]
    /\ queue \in [Device -> Seq([change : ChangeMade, from : Device])]
    /\ stage \in [Ends -> Stage]
    /\ answer \in [Ends -> Addition \cup {Nothing}]
    /\ wire \in [Ends -> Seq(Frame)]
    /\ \A l \in Ends : stage[l] = "down" => wire[l] = <<>> /\ answer[l] = Nothing
    /\ stamps \subseteq Stamp
    /\ clock \in [Device -> stamps \cup {0}]
    /\ drops \in 0 .. MaxDrops
    /\ written \subseteq Fact
    /\ base \in [Tag -> [At -> At]]

Quiet == /\ \A d \in Device : queue[d] = <<>>
         /\ \A l \in Ends : /\ stage[l] = "reading"
                            /\ wire[l] = <<>> /\ answer[l] = Nothing

\* Once everything sent has been applied all devices hold the same row for a
\* relationship, tombstones included, whatever was changed while links were
\* down or coming up, on clocks that disagree (store/entries.rs, plan_tags.rs).
QuietRelations == Quiet => \A d, e \in Device : entry[d] = entry[e]

\* And the same definitions: reconciliation compares stamps alone, so equal
\* stamps must mean equal definitions (plan_tags.rs), as long as no part of a
\* definition was written over another row than the one it was changed on (or
\* over none) and no deleted definition was sent as if it were not.  A deletion
\* is such a part, whether its change or a manifest tells of it; that of a tag
\* renamed or restyled after its deletion was made on no row that counts.
QuietDefinitions == Quiet /\ ~contested => \A d, e \in Device : tag[d] = tag[e]

\* A row of entries_v1 is something that was written somewhere, and only ever
\* gives way to something later.
EntryRows == INSTANCE EntryRegister
RowsAreFacts == EntryRows!Spec

(***************************************************************************)
(* What the documentation says and the code does not keep.                 *)
(***************************************************************************)

\* tagging.rs: application and reconciliation are convergent; here for tags that
\* are not deleted on both devices.
QuietTags == Quiet => \A d, e \in Device, t \in Tag :
                          tag[d][t] = tag[e][t] \/ (tag[d][t].deleted /\ tag[e][t].deleted)
=============================================================================

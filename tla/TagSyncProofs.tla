--------------------------- MODULE TagSyncProofs ---------------------------
(***************************************************************************)
(* For any devices, tags, relationships and stamps: the rows of TagSync    *)
(* have their types, its relationships behave as EntryRegister, and where  *)
(* the links connect all devices relationships and definitions converge.   *)
(*                                                                         *)
(* The induction types what is under way by what was written: a change of  *)
(* a relationship in a queue or on a wire, and an entry of a manifest, is  *)
(* one of the facts written so far.  Facts have stamps that are taken, and *)
(* a new change takes a new one, so no two facts have the same stamp.      *)
(***************************************************************************)
EXTENDS TagSync, Functions, FiniteSetTheorems, TLAPS

FactOf(change) == [relation |-> change.relation, deleted |-> change.kind = "Untagged",
                   at |-> change.at]

SoundChange(w) == Addition \cup PartChange \cup {c \in RelationChange : FactOf(c) \in w}

SoundCommand(w) == [change : SoundChange(w), from : Device]

SoundFrame(w) == [frame : {"Change"}, change : SoundChange(w)]
                   \cup [frame : {"Definitions"}, entries : SUBSET Item]
                   \cup [frame : {"Relations"}, entries : SUBSET (w \cap Fact)]
                   \cup [frame : {"TagRequest"}, tag : Tag]

Row == [deleted : BOOLEAN, at : Stamp \cup {0}]

RowSound(r, row) ==
    row.at # 0 => [relation |-> r, deleted |-> row.deleted, at |-> row.at] \in written

RowsOK == /\ tag \in [Device -> [Tag -> Definition]]
          /\ entry \in [Device -> [Relation -> Row]]

QueueOK == queue \in [Device -> Seq(SoundCommand(written))]

SessionOK == /\ stage \in [Ends -> Stage]
             /\ answer \in [Ends -> Addition \cup {Nothing}]

WireOK == wire \in [Ends -> Seq(SoundFrame(written))]

DownOK == \A l \in Ends : stage[l] = "down" => wire[l] = <<>> /\ answer[l] = Nothing

ClockOK == /\ stamps \subseteq Stamp
           /\ clock \in [Device -> stamps \cup {0}]
           /\ drops \in 0 .. MaxDrops

FactsOK == /\ written \subseteq Fact /\ base \in [Tag -> [At -> At]]
           /\ \A fact \in written : fact.at \in stamps

EntriesSound == \A d \in Device, r \in Relation : RowSound(r, entry[d][r])

IInv == /\ RowsOK /\ QueueOK /\ SessionOK /\ WireOK /\ DownOK /\ ClockOK
        /\ FactsOK /\ EntriesSound

-----------------------------------------------------------------------------
\* The stamps are positive numbers.
LEMMA StampsArePositive == Stamp \subseteq Nat \ {0} /\ At \subseteq Nat
BY TagAssumption DEF TagAssumption, At

\* A row of the tags table that nobody wrote is a definition.
LEMMA NoTagOK == NoTag \in Definition
<1>1. (CHOOSE n \in Name : TRUE) \in Name
  BY TagAssumption DEF TagAssumption
<1>2. (CHOOSE s \in Style : TRUE) \in Style
  BY TagAssumption DEF TagAssumption
<1> QED
  BY <1>1, <1>2 DEF NoTag, Definition, At

\* What a change makes of a definition is a definition.
LEMMA DefinedOK ==
    ASSUME NEW old \in Definition, NEW c \in Addition \cup PartChange
    PROVE  Defined(old, c) \in Definition
<1>1. CASE c \in Addition
  BY <1>1 DEF Addition, Definition, Defined, AddTag
<1>2. CASE c \in [kind : {"TagRenamed"}, tag : Tag, name : Name, at : At, on : At]
  BY <1>2 DEF Definition, Defined, UpdateTagName
<1>3. CASE c \in [kind : {"TagRestyled"}, tag : Tag, style : Style, at : At, on : At]
  BY <1>3 DEF Definition, Defined, UpdateTagStyle
<1>4. CASE c \in [kind : {"TagRemoved"}, tag : Tag, at : At, on : At]
  BY <1>4 DEF Definition, Defined, RemoveTag
<1> QED
  BY <1>1, <1>2, <1>3, <1>4 DEF PartChange

\* A change of a relationship leaves the row, or makes it the fact it states.
LEMMA RelatedCases ==
    ASSUME NEW old \in Row, NEW c \in RelationChange
    PROVE  /\ Related(old, c) \in Row
           /\ \/ Related(old, c) = old
              \/ /\ c.at > old.at
                 /\ Related(old, c) = [deleted |-> c.kind = "Untagged", at |-> c.at]
BY DEF Row, RelationChange, Related, UpsertEntry, UntagEntry

\* A change is of a relationship, or else of a definition.
LEMMA ChangeCases ==
    ASSUME NEW w, NEW c \in SoundChange(w)
    PROVE  /\ OfRelation(c) => c \in RelationChange /\ FactOf(c) \in w
           /\ ~OfRelation(c) => c \in Addition \cup PartChange /\ c.tag \in Tag
           /\ InPart(c) => c \in PartChange
<1>1. CASE c \in RelationChange /\ FactOf(c) \in w
  BY <1>1 DEF RelationChange, OfRelation, InPart
<1>2. CASE c \in Addition
  BY <1>2 DEF Addition, OfRelation, InPart
<1>3. CASE c \in PartChange
  BY <1>3 DEF PartChange, OfRelation
<1> QED
  BY <1>1, <1>2, <1>3 DEF SoundChange

\* A frame holds what its kind says.
LEMMA FrameCases ==
    ASSUME NEW w, NEW f \in SoundFrame(w)
    PROVE  /\ f.frame = "Change" => f.change \in SoundChange(w)
           /\ f.frame = "Definitions" => f.entries \subseteq Item
           /\ f.frame = "Relations" => f.entries \subseteq (w \cap Fact)
           /\ f.frame = "TagRequest" => f.tag \in Tag
BY DEF SoundFrame

\* What is sent keeps the wires typed.
LEMMA SendingOK ==
    ASSUME NEW S, wire \in [Ends -> Seq(S)], NEW to, NEW d, NEW frames \in Seq(S)
    PROVE  Sending(to, d, frames) \in [Ends -> Seq(S)]
BY DEF Sending

\* A sequence over a set is one over a larger set.
LEMMA SeqMonotone ==
    ASSUME NEW S, NEW T, S \subseteq T
    PROVE  Seq(S) \subseteq Seq(T)
OBVIOUS

\* More facts, more changes and frames that are sound.
LEMMA Monotone ==
    ASSUME NEW w, NEW v, w \subseteq v
    PROVE  /\ [Device -> Seq(SoundCommand(w))] \subseteq [Device -> Seq(SoundCommand(v))]
           /\ [Ends -> Seq(SoundFrame(w))] \subseteq [Ends -> Seq(SoundFrame(v))]
<1>1. SoundChange(w) \subseteq SoundChange(v)
  BY DEF SoundChange
<1>2. SoundCommand(w) \subseteq SoundCommand(v)
  BY <1>1 DEF SoundCommand
<1>3. SoundFrame(w) \subseteq SoundFrame(v)
  BY <1>1 DEF SoundFrame
<1>4. Seq(SoundCommand(w)) \subseteq Seq(SoundCommand(v))
  BY <1>2
<1>5. Seq(SoundFrame(w)) \subseteq Seq(SoundFrame(v))
  BY <1>3
<1> QED
  BY <1>4, <1>5

-----------------------------------------------------------------------------
LEMMA InitIInv == Init => IInv
<1> SUFFICES ASSUME Init PROVE IInv
  OBVIOUS
<1>1. RowsOK
  <2>1. NoTag \in Definition /\ [NoTag EXCEPT !.at = 1] \in Definition
    BY NoTagOK DEF Definition, At
  <2>2. NoRow \in Row
    BY DEF NoRow, Row
  <2> QED
    BY <2>1, <2>2 DEF Init, RowsOK
<1>2. QueueOK /\ SessionOK /\ WireOK /\ DownOK
  BY DEF Init, QueueOK, SessionOK, WireOK, DownOK, Stage
<1>3. ClockOK
  BY TagAssumption DEF Init, ClockOK, TagAssumption
<1>4. FactsOK /\ EntriesSound
  BY DEF Init, FactsOK, EntriesSound, RowSound, NoRow, At
<1> QED
  BY <1>1, <1>2, <1>3, <1>4 DEF IInv

\* The parts of the invariant that a step does not touch.
LEMMA KeepFacts ==
    ASSUME FactsOK, EntriesSound, UNCHANGED <<entry, written, stamps, base>>
    PROVE  FactsOK' /\ EntriesSound'
BY DEF FactsOK, EntriesSound, RowSound

LEMMA KeepClock ==
    ASSUME ClockOK, UNCHANGED <<stamps, clock, drops>>
    PROVE  ClockOK'
BY DEF ClockOK

-----------------------------------------------------------------------------
(***************************************************************************)
(* The writer.                                                             *)
(***************************************************************************)

\* The command a device takes from its queue.
LEMMA HeadOK ==
    ASSUME QueueOK, NEW d \in Device, queue[d] # <<>>
    PROVE  /\ Head(queue[d]).change \in SoundChange(written)
           /\ Head(queue[d]).from \in Device
           /\ [queue EXCEPT ![d] = Tail(@)] \in [Device -> Seq(SoundCommand(written))]
<1>1. queue[d] \in Seq(SoundCommand(written))
  BY DEF QueueOK
<1>2. Head(queue[d]) \in SoundCommand(written) /\ Tail(queue[d]) \in Seq(SoundCommand(written))
  BY <1>1
<1> QED
  BY <1>2 DEF QueueOK, SoundCommand

\* What a session hands to the writer.
LEMMA QueuedOK ==
    ASSUME QueueOK, NEW e \in Device, NEW d \in Device, NEW c \in SoundChange(written)
    PROVE  Queued(e, c, d) \in [Device -> Seq(SoundCommand(written))]
<1>1. [change |-> c, from |-> d] \in SoundCommand(written)
  BY DEF SoundCommand
<1>2. queue[e] \in Seq(SoundCommand(written))
  BY DEF QueueOK
<1>3. Append(queue[e], [change |-> c, from |-> d]) \in Seq(SoundCommand(written))
  BY <1>1, <1>2
<1> QED
  BY <1>3 DEF Queued, QueueOK

LEMMA ChangeFrameOK ==
    ASSUME NEW c \in SoundChange(written)
    PROVE  <<ChangeFrame(c)>> \in Seq(SoundFrame(written))
BY DEF ChangeFrame, SoundFrame

LEMMA ForwardedOK ==
    ASSUME WireOK, NEW d \in Device, NEW c \in SoundChange(written), NEW origin
    PROVE  Forwarded(d, c, origin) \in [Ends -> Seq(SoundFrame(written))]
BY ChangeFrameOK, SendingOK DEF WireOK, Forwarded

\* Nothing is forwarded where the session is down.
LEMMA ForwardedDown ==
    ASSUME DownOK, NEW d \in Device, NEW c, NEW origin, NEW l \in Ends, stage[l] = "down"
    PROVE  Forwarded(d, c, origin)[l] = <<>>
BY DEF DownOK, Forwarded, Sending, Neighbours, Ends

\* Applying a relationship change is learning a fact, or nothing at all.
LEMMA WriteRelationStep ==
    ASSUME IInv, NEW d \in Device, WriteRelation(d)
    PROVE  /\ IInv'
           /\ (\E fact \in Fact : EntryRows!Learn(d, fact)) \/ UNCHANGED <<entry, written>>
<1> DEFINE c == Head(queue[d]).change
           r == c.relation
           row == Related(entry[d][r], c)
<1>1. queue[d] # <<>> /\ OfRelation(c)
  BY DEF WriteRelation
<1>2. c \in SoundChange(written) /\ c \in RelationChange /\ FactOf(c) \in written
  BY <1>1, HeadOK, ChangeCases DEF IInv
<1>3. r \in Relation /\ FactOf(c).relation = r
  BY <1>2 DEF RelationChange, FactOf
<1>4. entry' = [entry EXCEPT ![d][r] = row]
  BY DEF WriteRelation
<1>5. UNCHANGED <<tag, session, created, clock, drops, history, contested>>
  BY DEF WriteRelation
<1>6. entry[d][r] \in Row
  BY <1>3 DEF IInv, RowsOK
<1>7. /\ row \in Row
      /\ row = entry[d][r] \/ /\ c.at > entry[d][r].at
                              /\ row = [deleted |-> c.kind = "Untagged", at |-> c.at]
  BY <1>2, <1>6, RelatedCases
<1>8. RowsOK'
  BY <1>3, <1>4, <1>5, <1>7 DEF IInv, RowsOK
<1>9. QueueOK' /\ WireOK'
  <2>1. QueueOK'
    BY <1>1, <1>5, HeadOK DEF IInv, QueueOK, WriteRelation, history
  <2>2. wire' = Forwarded(d, c, Head(queue[d]).from)
    BY DEF WriteRelation
  <2>3. WireOK'
    BY <1>2, <1>5, <2>2, ForwardedOK DEF IInv, WireOK, history
  <2> QED
    BY <2>1, <2>3
<1>10. SessionOK' /\ ClockOK'
  BY <1>5 DEF IInv, SessionOK, ClockOK, session, history
<1>11. DownOK'
  <2> SUFFICES ASSUME NEW l \in Ends, stage'[l] = "down"
               PROVE  wire'[l] = <<>> /\ answer'[l] = Nothing
    BY DEF DownOK
  <2>1. stage[l] = "down" /\ answer'[l] = answer[l]
    BY <1>5 DEF session
  <2>2. wire' = Forwarded(d, c, Head(queue[d]).from)
    BY DEF WriteRelation
  <2> QED
    BY <2>1, <2>2, ForwardedDown DEF IInv, DownOK
<1>12. FactsOK' /\ EntriesSound'
  <2>1. FactsOK'
    BY <1>5 DEF IInv, FactsOK, history
  <2>2. RowSound(r, row)
    <3>1. CASE row = entry[d][r]
      BY <3>1, <1>3 DEF IInv, EntriesSound
    <3>2. CASE row = [deleted |-> c.kind = "Untagged", at |-> c.at]
      BY <3>2, <1>2, <1>3 DEF RowSound, FactOf
    <3> QED
      BY <1>7, <3>1, <3>2
  <2>3. ASSUME NEW e \in Device, NEW q \in Relation
        PROVE  RowSound(q, entry'[e][q])
    <3>1. entry'[e][q] = IF e = d /\ q = r THEN row ELSE entry[e][q]
      BY <1>3, <1>4 DEF IInv, RowsOK
    <3> QED
      BY <2>2, <3>1 DEF IInv, EntriesSound
  <2> QED
    BY <2>1, <2>3, <1>5 DEF EntriesSound, RowSound, history
<1>13. (\E fact \in Fact : EntryRows!Learn(d, fact)) \/ UNCHANGED <<entry, written>>
  <2>1. UNCHANGED written
    BY <1>5 DEF history
  <2>2. CASE row = entry[d][r]
    BY <1>3, <1>4, <2>1, <2>2 DEF IInv, RowsOK
  <2>3. CASE /\ c.at > entry[d][r].at
             /\ row = [deleted |-> c.kind = "Untagged", at |-> c.at]
    <3>1. FactOf(c) \in Fact
      BY <1>2 DEF IInv, FactsOK
    <3>2. /\ EntryRows!RowOf(FactOf(c)) = row
          /\ FactOf(c).at > entry[d][FactOf(c).relation].at
      BY <2>3, <1>3 DEF FactOf, EntryRows!RowOf
    <3>3. EntryRows!Learn(d, FactOf(c))
      BY <1>2, <1>3, <1>4, <2>1, <3>2 DEF EntryRows!Learn
    <3> QED
      BY <3>1, <3>3
  <2> QED
    BY <1>7, <2>2, <2>3
<1> QED
  BY <1>8, <1>9, <1>10, <1>11, <1>12, <1>13 DEF IInv

LEMMA WriteDefinitionStep ==
    ASSUME IInv, NEW d \in Device, WriteDefinition(d)
    PROVE  IInv' /\ UNCHANGED <<entry, written>>
<1> DEFINE c == Head(queue[d]).change
           from == Head(queue[d]).from
           old == tag[d][c.tag]
           change == IF from = d /\ InPart(c) THEN [c EXCEPT !.on = old.at] ELSE c
<1>1. queue[d] # <<>> /\ ~OfRelation(c)
  BY DEF WriteDefinition
<1>2. c \in SoundChange(written) /\ c \in Addition \cup PartChange /\ c.tag \in Tag
  BY <1>1, HeadOK, ChangeCases DEF IInv
<1>3. old \in Definition
  BY <1>2 DEF IInv, RowsOK
<1>4. change \in Addition \cup PartChange /\ change.tag = c.tag
  <2>1. CASE from = d /\ InPart(c)
    <3>1. c \in PartChange
      BY <1>2, <2>1, ChangeCases
    <3>2. old.at \in At
      BY <1>3 DEF Definition
    <3>3. [c EXCEPT !.on = old.at] \in PartChange /\ [c EXCEPT !.on = old.at].tag = c.tag
      BY <3>1, <3>2 DEF PartChange
    <3> QED
      BY <2>1, <3>3
  <2>2. CASE ~(from = d /\ InPart(c))
    BY <1>2, <2>2
  <2> QED
    BY <2>1, <2>2
<1>5. change \in SoundChange(written)
  BY <1>4 DEF SoundChange
<1>6. /\ tag' = [tag EXCEPT ![d][c.tag] = Defined(old, change)]
      /\ wire' = Forwarded(d, change, from)
      /\ queue' = [queue EXCEPT ![d] = Tail(@)]
      /\ UNCHANGED <<entry, session, created, clock, drops, stamps, written>>
  <2>1. tag' = [tag EXCEPT ![d][change.tag] = Defined(@, change)]
    BY DEF WriteDefinition
  <2>2. tag' = [tag EXCEPT ![d][c.tag] = Defined(old, change)]
    BY <1>4, <2>1
  <2> QED
    BY <2>2 DEF WriteDefinition
<1>7. Defined(old, change) \in Definition
  BY <1>3, <1>4, DefinedOK
<1>8. RowsOK'
  BY <1>2, <1>6, <1>7 DEF IInv, RowsOK
<1>9. QueueOK' /\ WireOK'
  BY <1>1, <1>5, <1>6, HeadOK, ForwardedOK DEF IInv, QueueOK, WireOK
<1>10. SessionOK' /\ ClockOK' /\ FactsOK' /\ EntriesSound'
  <2>1. base' \in [Tag -> [At -> At]]
    <3>1. old.at \in At /\ change.at \in At /\ base \in [Tag -> [At -> At]]
      BY <1>3, <1>4 DEF Definition, Addition, PartChange, IInv, FactsOK
    <3>2. base' = base \/ base' = [base EXCEPT ![c.tag][change.at] = old.at]
      BY <1>4 DEF WriteDefinition
    <3> QED
      BY <1>2, <3>1, <3>2
  <2>2. FactsOK' /\ EntriesSound'
    BY <1>6, <2>1 DEF IInv, FactsOK, EntriesSound, RowSound
  <2> QED
    BY <1>6, <2>2, KeepClock DEF IInv, SessionOK, session
<1>11. DownOK'
  <2>1. stage' = stage /\ answer' = answer /\ wire' = Forwarded(d, change, from)
    BY <1>6 DEF session
  <2>2. DownOK
    BY DEF IInv
  <2> HIDE DEF change, from
  <2>3. ASSUME NEW l \in Ends, stage[l] = "down"
        PROVE  wire'[l] = <<>> /\ answer'[l] = Nothing
    <3>1. Forwarded(d, change, from)[l] = <<>>
      BY <2>2, <2>3, ForwardedDown
    <3>2. answer[l] = Nothing
      BY <2>2, <2>3 DEF DownOK
    <3> QED
      BY ONLY <2>1, <3>1, <3>2
  <2> QED
    BY <2>1, <2>3 DEF DownOK
<1> QED
  BY <1>6, <1>8, <1>9, <1>10, <1>11 DEF IInv

-----------------------------------------------------------------------------
(***************************************************************************)
(* What users do.                                                          *)
(***************************************************************************)

\* A change of a definition that is submitted.
LEMMA SubmitStep ==
    ASSUME IInv, NEW d \in Device, NEW c \in Addition \cup PartChange,
           Submit(d, c), UNCHANGED written
    PROVE  IInv'
<1>1. /\ c.at \in Stamp
      /\ clock' = [clock EXCEPT ![d] = c.at]
      /\ stamps' = stamps \cup {c.at}
      /\ queue' = [queue EXCEPT ![d] = Append(@, [change |-> c, from |-> d])]
      /\ UNCHANGED <<rows, session, wire, drops, written, base>>
  BY DEF Submit
<1>2. c \in SoundChange(written)
  BY DEF SoundChange
<1>3. QueueOK'
  <2>1. queue' = Queued(d, c, d)
    BY <1>1 DEF Queued
  <2> QED
    BY <1>1, <1>2, <2>1, QueuedOK DEF IInv, QueueOK
<1>4. ClockOK'
  BY <1>1 DEF IInv, ClockOK
<1>5. RowsOK' /\ SessionOK' /\ WireOK' /\ DownOK'
  BY <1>1 DEF IInv, RowsOK, SessionOK, WireOK, DownOK, rows, session
<1>6. FactsOK' /\ EntriesSound'
  BY <1>1 DEF IInv, FactsOK, EntriesSound, RowSound, rows
<1> QED
  BY <1>3, <1>4, <1>5, <1>6 DEF IInv

\* A stamp that is taken is the change's own.
LEMMA CreateTagStep ==
    ASSUME IInv, NEW d \in Device, NEW at \in Stamp, CreateTag(d, at)
    PROVE  IInv' /\ UNCHANGED <<entry, written>>
<1>1. PICK t \in Tag, name \in Name, style \in Style :
          Submit(d, TagAdded(t, name, style, at)) /\ UNCHANGED written
  BY DEF CreateTag
<1>2. TagAdded(t, name, style, at) \in Addition
  BY DEF TagAdded, Addition, At
<1>3. IInv'
  BY <1>1, <1>2, SubmitStep
<1> QED
  BY <1>1, <1>3 DEF Submit, rows

LEMMA RestoreTagStep ==
    ASSUME IInv, NEW d \in Device, NEW at \in Stamp, RestoreTag(d, at)
    PROVE  IInv' /\ UNCHANGED <<entry, written>>
<1>1. PICK t \in Tag :
          Submit(d, TagAdded(t, tag[d][t].name, tag[d][t].style, at)) /\ UNCHANGED written
  BY DEF RestoreTag
<1>2. tag[d][t] \in Definition
  BY DEF IInv, RowsOK
<1>3. TagAdded(t, tag[d][t].name, tag[d][t].style, at) \in Addition
  BY <1>2 DEF TagAdded, Addition, At, Definition
<1>4. IInv'
  BY <1>1, <1>3, SubmitStep
<1> QED
  BY <1>1, <1>4 DEF Submit, rows

LEMMA ChangeTagStep ==
    ASSUME IInv, NEW d \in Device, NEW at \in Stamp, ChangeTag(d, at)
    PROVE  IInv' /\ UNCHANGED <<entry, written>>
<1>1. PICK t \in Tag :
          /\ \/ \E name \in Name \ {tag[d][t].name} :
                   Submit(d, [kind |-> "TagRenamed", tag |-> t, name |-> name,
                              at |-> at, on |-> 0])
             \/ \E style \in Style \ {tag[d][t].style} :
                   Submit(d, [kind |-> "TagRestyled", tag |-> t, style |-> style,
                              at |-> at, on |-> 0])
             \/ Submit(d, [kind |-> "TagRemoved", tag |-> t, at |-> at, on |-> 0])
          /\ UNCHANGED written
  BY DEF ChangeTag
<1>2. PICK c \in PartChange : Submit(d, c)
  <2>1. CASE \E name \in Name \ {tag[d][t].name} :
                 Submit(d, [kind |-> "TagRenamed", tag |-> t, name |-> name,
                            at |-> at, on |-> 0])
    BY <2>1 DEF PartChange, At
  <2>2. CASE \E style \in Style \ {tag[d][t].style} :
                 Submit(d, [kind |-> "TagRestyled", tag |-> t, style |-> style,
                            at |-> at, on |-> 0])
    BY <2>2 DEF PartChange, At
  <2>3. CASE Submit(d, [kind |-> "TagRemoved", tag |-> t, at |-> at, on |-> 0])
    BY <2>3 DEF PartChange, At
  <2> QED
    BY <1>1, <2>1, <2>2, <2>3
<1>3. IInv'
  BY <1>1, <1>2, SubmitStep
<1> QED
  BY <1>1, <1>2, <1>3 DEF Submit, rows

\* To tag or untag is to state a fact with a new stamp.
LEMMA ChangeRelationStep ==
    ASSUME IInv, NEW d \in Device, NEW at \in Stamp, ChangeRelation(d, at)
    PROVE  IInv' /\ \E fact \in Fact : EntryRows!Assert(fact)
<1>1. PICK r \in Relation, kind \in {"Tagged", "Untagged"} :
          /\ Submit(d, [kind |-> kind, relation |-> r, at |-> at])
          /\ written' = written \cup {[relation |-> r, deleted |-> kind = "Untagged",
                                       at |-> at]}
  BY DEF ChangeRelation
<1> DEFINE c == [kind |-> kind, relation |-> r, at |-> at]
           fact == [relation |-> r, deleted |-> kind = "Untagged", at |-> at]
<1>2. /\ at \in Stamp \ stamps
      /\ clock' = [clock EXCEPT ![d] = at]
      /\ stamps' = stamps \cup {at}
      /\ queue' = [queue EXCEPT ![d] = Append(@, [change |-> c, from |-> d])]
      /\ UNCHANGED <<rows, session, wire, drops, base>>
  BY <1>1 DEF Submit
<1>3. fact \in Fact /\ c \in RelationChange /\ FactOf(c) = fact /\ written' = written \cup {fact}
  BY <1>1 DEF Fact, RelationChange, FactOf
<1>4. /\ [Device -> Seq(SoundCommand(written))] \subseteq [Device -> Seq(SoundCommand(written'))]
      /\ [Ends -> Seq(SoundFrame(written))] \subseteq [Ends -> Seq(SoundFrame(written'))]
  <2>1. written \subseteq written'
    BY <1>3
  <2> QED
    BY <2>1, Monotone
<1>5. QueueOK'
  <2>1. queue \in [Device -> Seq(SoundCommand(written'))]
    BY <1>4 DEF IInv, QueueOK
  <2>2. [change |-> c, from |-> d] \in SoundCommand(written')
    BY <1>3 DEF SoundCommand, SoundChange
  <2>3. queue[d] \in Seq(SoundCommand(written'))
    BY <2>1
  <2>4. Append(queue[d], [change |-> c, from |-> d]) \in Seq(SoundCommand(written'))
    BY <2>2, <2>3
  <2> QED
    BY <1>2, <2>1, <2>4 DEF QueueOK
<1>6. WireOK'
  <2>1. wire \in [Ends -> Seq(SoundFrame(written'))]
    BY <1>4 DEF IInv, WireOK
  <2> QED
    BY <1>2, <2>1 DEF WireOK
<1>7. RowsOK' /\ SessionOK' /\ DownOK' /\ ClockOK'
  BY <1>2 DEF IInv, RowsOK, SessionOK, DownOK, ClockOK, rows, session
<1>8. FactsOK' /\ EntriesSound'
  BY <1>2, <1>3 DEF IInv, FactsOK, EntriesSound, RowSound, rows
<1>9. EntryRows!Assert(fact)
  <2>1. \A other \in written : other.at # fact.at
    BY <1>2 DEF IInv, FactsOK
  <2> QED
    BY <1>2, <1>3, <2>1 DEF EntryRows!Assert, rows
<1> QED
  BY <1>3, <1>5, <1>6, <1>7, <1>8, <1>9 DEF IInv

-----------------------------------------------------------------------------
(***************************************************************************)
(* Sessions.                                                               *)
(***************************************************************************)

\* The ends of a link.
LEMMA EndsOK ==
    ASSUME NEW l \in Ends
    PROVE  l[1] \in Device /\ l[2] \in Device /\ <<l[1], l[2]>> \in Ends /\ <<l[2], l[1]>> \in Ends
<1>1. l = <<l[1], l[2]>> /\ l[1] \in Device /\ l[2] \in Device /\ {l[1], l[2]} \in Tree
  BY DEF Ends
<1>2. {l[2], l[1]} = {l[1], l[2]}
  OBVIOUS
<1> QED
  BY <1>1, <1>2 DEF Ends

LEMMA RegisterStep ==
    ASSUME IInv, NEW d \in Device, NEW e \in Device, <<d, e>> \in Ends, Register(d, e)
    PROVE  IInv' /\ UNCHANGED <<entry, written>>
<1>1. RowsOK' /\ QueueOK' /\ WireOK' /\ FactsOK' /\ EntriesSound' /\ ClockOK'
  BY KeepFacts, KeepClock DEF IInv, Register, RowsOK, QueueOK, WireOK, rows, history
<1>2. SessionOK'
  BY DEF IInv, Register, SessionOK, Stage
<1>3. DownOK'
  BY DEF IInv, Register, DownOK, SessionOK
<1> QED
  BY <1>1, <1>2, <1>3 DEF IInv, Register, rows, history

\* What is announced of the tags.
LEMMA TagEntriesOK ==
    ASSUME RowsOK, NEW d \in Device
    PROVE  TagEntries(d) \subseteq Item
<1> SUFFICES ASSUME NEW t \in Tag
             PROVE  [tag |-> t, at |-> tag[d][t].at, deleted |-> tag[d][t].deleted] \in Item
  BY DEF TagEntries
<1>1. tag[d][t] \in Definition
  BY DEF RowsOK
<1> QED
  BY <1>1 DEF Item, Definition

\* What is announced of the relationships are facts.
LEMMA RelationEntriesOK ==
    ASSUME RowsOK, EntriesSound, FactsOK, NEW d \in Device
    PROVE  RelationEntries(d) \subseteq (written \cap Fact)
<1> SUFFICES ASSUME NEW r \in Relation, entry[d][r].at > 0
             PROVE  [relation |-> r, deleted |-> entry[d][r].deleted, at |-> entry[d][r].at]
                        \in written
  BY DEF RelationEntries, FactsOK
<1>1. entry[d][r] \in Row /\ RowSound(r, entry[d][r])
  BY DEF RowsOK, EntriesSound
<1>2. entry[d][r].at # 0
  OBVIOUS
<1> QED
  BY <1>1, <1>2 DEF RowSound

LEMMA AnnounceStep ==
    ASSUME IInv, NEW d \in Device, NEW e \in Device, <<d, e>> \in Ends,
           AnnounceTags(d, e) \/ AnnounceRelations(d, e)
    PROVE  IInv' /\ UNCHANGED <<entry, written>>
<1>1. PICK frames \in Seq(SoundFrame(written)), st \in Stage \ {"down"} :
          /\ stage' = [stage EXCEPT ![<<d, e>>] = st]
          /\ wire' = Sending({e}, d, frames)
          /\ stage[<<d, e>>] # "down"
          /\ UNCHANGED <<rows, queue, answer, created, clock, drops, history, contested>>
  <2>1. CASE AnnounceTags(d, e)
    <3>1. Frames("Definitions", TagEntries(d)) \in Seq(SoundFrame(written))
      <4>1. [frame |-> "Definitions", entries |-> TagEntries(d)] \in SoundFrame(written)
        BY TagEntriesOK DEF IInv, SoundFrame
      <4> QED
        BY <4>1 DEF Frames
    <3> QED
      BY <2>1, <3>1 DEF AnnounceTags, Stage
  <2>2. CASE AnnounceRelations(d, e)
    <3>1. Frames("Relations", RelationEntries(d)) \in Seq(SoundFrame(written))
      <4>1. [frame |-> "Relations", entries |-> RelationEntries(d)] \in SoundFrame(written)
        BY RelationEntriesOK DEF IInv, SoundFrame
      <4> QED
        BY <4>1 DEF Frames
    <3> QED
      BY <2>2, <3>1 DEF AnnounceRelations, Stage
  <2> QED
    BY <2>1, <2>2
<1>2. WireOK'
  BY <1>1, SendingOK DEF IInv, WireOK, history
<1>3. SessionOK'
  BY <1>1 DEF IInv, SessionOK
<1>4. DownOK'
  <2> SUFFICES ASSUME NEW l \in Ends, stage'[l] = "down"
               PROVE  wire'[l] = <<>> /\ answer'[l] = Nothing
    BY DEF DownOK
  <2>1. l # <<d, e>> /\ stage[l] = "down"
    BY <1>1 DEF IInv, SessionOK
  <2>2. ~(l[1] = d /\ l[2] \in {e})
    BY <2>1 DEF Ends
  <2>3. wire'[l] = wire[l] /\ answer'[l] = answer[l]
    BY <1>1, <2>2 DEF Sending
  <2> QED
    BY <2>1, <2>3 DEF IInv, DownOK
<1>5. RowsOK' /\ QueueOK' /\ FactsOK' /\ EntriesSound' /\ ClockOK'
  BY <1>1, KeepFacts, KeepClock DEF IInv, RowsOK, QueueOK, rows, history
<1> QED
  BY <1>1, <1>2, <1>3, <1>4, <1>5 DEF IInv, rows, history

\* A frame is taken where the session that reads is up, and what is left is typed.
LEMMA ReadingOK ==
    ASSUME IInv, NEW d \in Device, NEW e \in Device, <<d, e>> \in Ends, Reading(d, e)
    PROVE  /\ Head(wire[<<d, e>>]) \in SoundFrame(written)
           /\ Tail(wire[<<d, e>>]) \in Seq(SoundFrame(written))
           /\ stage[<<e, d>>] # "down"
           /\ \A item : Without(wire[<<d, e>>], item) \in Seq(SoundFrame(written))
                  \/ Head(wire[<<d, e>>]).frame \notin {"Definitions", "Relations"}
<1>1. wire[<<d, e>>] \in Seq(SoundFrame(written)) /\ wire[<<d, e>>] # <<>>
  BY DEF IInv, WireOK, Reading
<1>2. /\ Head(wire[<<d, e>>]) \in SoundFrame(written)
      /\ Tail(wire[<<d, e>>]) \in Seq(SoundFrame(written))
  BY <1>1
<1>3. ASSUME NEW item, Head(wire[<<d, e>>]).frame \in {"Definitions", "Relations"}
      PROVE  Without(wire[<<d, e>>], item) \in Seq(SoundFrame(written))
  <2> DEFINE f == Head(wire[<<d, e>>])
             g == [f EXCEPT !.entries = @ \ {item}]
  <2>1. g \in SoundFrame(written)
    <3>1. CASE f \in [frame : {"Definitions"}, entries : SUBSET Item]
      BY <3>1 DEF SoundFrame
    <3>2. CASE f \in [frame : {"Relations"}, entries : SUBSET (written \cap Fact)]
      BY <3>2 DEF SoundFrame
    <3> QED
      BY <1>2, <1>3, <3>1, <3>2 DEF SoundFrame
  <2>2. <<g>> \o Tail(wire[<<d, e>>]) \in Seq(SoundFrame(written))
    BY <1>2, <2>1
  <2> QED
    BY <1>2, <2>2 DEF Without
<1> QED
  BY <1>2, <1>3 DEF Reading

\* What a step of the session that reads leaves typed: its queue, the wire it
\* reads from and what it sends back.
LEMMA ReceiveKeeps ==
    ASSUME IInv, NEW d \in Device, NEW e \in Device, <<d, e>> \in Ends, <<e, d>> \in Ends,
           stage[<<e, d>>] # "down", Reading(d, e),
           QueueOK', answer' \in [Ends -> Addition \cup {Nothing}],
           wire' \in [Ends -> Seq(SoundFrame(written))],
           \A l \in Ends \ {<<d, e>>, <<e, d>>} : wire'[l] = wire[l],
           \A l \in Ends \ {<<e, d>>} : answer'[l] = answer[l],
           UNCHANGED <<rows, stage, clock, drops, history>>
    PROVE  IInv' /\ UNCHANGED <<entry, written>>
<1>1. RowsOK' /\ SessionOK' /\ WireOK' /\ FactsOK' /\ EntriesSound' /\ ClockOK'
  BY KeepFacts, KeepClock DEF IInv, RowsOK, SessionOK, WireOK, rows, history
<1>2. DownOK'
  <2> SUFFICES ASSUME NEW l \in Ends, stage[l] = "down"
               PROVE  wire'[l] = <<>> /\ answer'[l] = Nothing
    BY DEF DownOK
  <2>1. l # <<e, d>> /\ wire[l] = <<>> /\ answer[l] = Nothing
    BY DEF IInv, DownOK
  <2>2. l # <<d, e>>
    BY <2>1 DEF Reading
  <2> QED
    BY <2>1, <2>2
<1> QED
  BY <1>1, <1>2 DEF IInv, rows, history

LEMMA ReceiveChangeStep ==
    ASSUME IInv, NEW d \in Device, NEW e \in Device, <<d, e>> \in Ends, <<e, d>> \in Ends,
           ReceiveChange(d, e)
    PROVE  IInv' /\ UNCHANGED <<entry, written>>
<1>1. /\ Reading(d, e) /\ Head(wire[<<d, e>>]).frame = "Change"
      /\ queue' = Queued(e, Head(wire[<<d, e>>]).change, d)
      /\ wire' = [wire EXCEPT ![<<d, e>>] = Tail(@)]
      /\ UNCHANGED <<rows, session, created, clock, drops, history, contested>>
  BY DEF ReceiveChange, Incoming
<1>2. Head(wire[<<d, e>>]).change \in SoundChange(written)
  BY <1>1, ReadingOK, FrameCases
<1>3. QueueOK'
  BY <1>1, <1>2, QueuedOK DEF IInv, QueueOK, history
<1>4. wire' \in [Ends -> Seq(SoundFrame(written))]
  BY <1>1, ReadingOK DEF IInv, WireOK
<1>5. stage[<<e, d>>] # "down"
  BY <1>1, ReadingOK
<1>6. \A l \in Ends \ {<<d, e>>, <<e, d>>} : wire'[l] = wire[l]
  BY <1>1 DEF IInv, WireOK
<1>7. answer' = answer /\ UNCHANGED <<rows, stage, clock, drops, history>>
  BY <1>1 DEF session
<1>8. answer' \in [Ends -> Addition \cup {Nothing}]
  BY <1>7 DEF IInv, SessionOK
<1> QED
  BY <1>1, <1>3, <1>4, <1>5, <1>6, <1>7, <1>8, ReceiveKeeps

\* A reconciled deletion is a change, a request is a frame.
LEMMA ReceiveDefinitionStep ==
    ASSUME IInv, NEW d \in Device, NEW e \in Device, <<d, e>> \in Ends, <<e, d>> \in Ends,
           ReceiveDefinition(d, e)
    PROVE  IInv' /\ UNCHANGED <<entry, written>>
<1>1. /\ Reading(d, e) /\ Head(wire[<<d, e>>]).frame = "Definitions"
      /\ UNCHANGED <<rows, session, created, clock, drops, history, contested>>
  BY DEF ReceiveDefinition, Incoming
<1>2. PICK item \in Head(wire[<<d, e>>]).entries :
        /\ queue' = IF Needed(tag[e][item.tag], item) /\ item.deleted
                    THEN Queued(e, [kind |-> "TagRemoved", tag |-> item.tag,
                                    at |-> item.at, on |-> base[item.tag][item.at]], d)
                    ELSE queue
        /\ wire' = [wire EXCEPT ![<<d, e>>] = Without(@, item),
                                ![<<e, d>>] = @ \o Requests(e, item)]
  BY DEF ReceiveDefinition
<1>3. item \in Item
  BY <1>1, ReadingOK, FrameCases
<1>4. QueueOK'
  <2> DEFINE c == [kind |-> "TagRemoved", tag |-> item.tag, at |-> item.at,
                   on |-> base[item.tag][item.at]]
  <2>1. c \in SoundChange(written)
    <3>1. item.tag \in Tag /\ item.at \in At /\ base[item.tag][item.at] \in At
      BY <1>3 DEF Item, IInv, FactsOK
    <3> QED
      BY <3>1 DEF SoundChange, PartChange
  <2>2. Queued(e, c, d) \in [Device -> Seq(SoundCommand(written))]
    BY <2>1, QueuedOK DEF IInv
  <2> QED
    BY <1>1, <1>2, <2>2 DEF IInv, QueueOK, history
<1>5. wire' \in [Ends -> Seq(SoundFrame(written))]
  <2>1. Requests(e, item) \in Seq(SoundFrame(written))
    BY <1>3 DEF Requests, Item, SoundFrame
  <2>2. Without(wire[<<d, e>>], item) \in Seq(SoundFrame(written))
    BY <1>1, ReadingOK
  <2>3. wire[<<e, d>>] \o Requests(e, item) \in Seq(SoundFrame(written))
    BY <2>1 DEF IInv, WireOK
  <2>4. <<d, e>> # <<e, d>>
    <3>1. {d, e} \in Tree /\ Cardinality({d, e}) = 2
      BY TagAssumption DEF TagAssumption, Ends
    <3>2. Cardinality({d}) = 1
      BY FS_Singleton
    <3> QED
      BY <3>1, <3>2
  <2> QED
    BY <1>2, <2>2, <2>3, <2>4 DEF IInv, WireOK
<1>6. stage[<<e, d>>] # "down"
  BY <1>1, ReadingOK
<1>7. \A l \in Ends \ {<<d, e>>, <<e, d>>} : wire'[l] = wire[l]
  BY <1>2 DEF IInv, WireOK
<1>8. answer' = answer /\ UNCHANGED <<rows, stage, clock, drops, history>>
  BY <1>1 DEF session
<1>9. answer' \in [Ends -> Addition \cup {Nothing}]
  BY <1>8 DEF IInv, SessionOK
<1> QED
  BY <1>1, <1>4, <1>5, <1>6, <1>7, <1>8, <1>9, ReceiveKeeps

\* A reconciled relationship is a change that states a fact.
LEMMA ReceiveRelationStep ==
    ASSUME IInv, NEW d \in Device, NEW e \in Device, <<d, e>> \in Ends, <<e, d>> \in Ends,
           ReceiveRelation(d, e)
    PROVE  IInv' /\ UNCHANGED <<entry, written>>
<1>1. /\ Reading(d, e) /\ Head(wire[<<d, e>>]).frame = "Relations"
      /\ UNCHANGED <<rows, session, created, clock, drops, history, contested>>
  BY DEF ReceiveRelation, Incoming
<1>2. PICK item \in Head(wire[<<d, e>>]).entries :
        /\ queue' = IF item.at > entry[e][item.relation].at
                    THEN Queued(e, [kind |-> IF item.deleted THEN "Untagged" ELSE "Tagged",
                                    relation |-> item.relation, at |-> item.at], d)
                    ELSE queue
        /\ wire' = [wire EXCEPT ![<<d, e>>] = Without(@, item)]
  BY DEF ReceiveRelation
<1>3. item \in written /\ item \in Fact
  BY <1>1, ReadingOK, FrameCases
<1> DEFINE c == [kind |-> IF item.deleted THEN "Untagged" ELSE "Tagged",
                 relation |-> item.relation, at |-> item.at]
<1>4. c \in SoundChange(written)
  <2>1. c \in RelationChange
    BY <1>3 DEF Fact, RelationChange
  <2>2. FactOf(c) = item
    BY <1>3 DEF Fact, FactOf
  <2> QED
    BY <1>3, <2>1, <2>2 DEF SoundChange
<1>5. QueueOK'
  BY <1>1, <1>2, <1>4, QueuedOK DEF IInv, QueueOK, history
<1>6. wire' \in [Ends -> Seq(SoundFrame(written))]
  <2>1. Without(wire[<<d, e>>], item) \in Seq(SoundFrame(written))
    BY <1>1, ReadingOK
  <2> QED
    BY <1>2, <2>1 DEF IInv, WireOK
<1>7. stage[<<e, d>>] # "down"
  BY <1>1, ReadingOK
<1>8. \A l \in Ends \ {<<d, e>>, <<e, d>>} : wire'[l] = wire[l]
  BY <1>2 DEF IInv, WireOK
<1>9. answer' = answer /\ UNCHANGED <<rows, stage, clock, drops, history>>
  BY <1>1 DEF session
<1>10. answer' \in [Ends -> Addition \cup {Nothing}]
  BY <1>9 DEF IInv, SessionOK
<1> QED
  BY <1>1, <1>5, <1>6, <1>7, <1>8, <1>9, <1>10, ReceiveKeeps

LEMMA ReceiveRequestStep ==
    ASSUME IInv, NEW d \in Device, NEW e \in Device, <<d, e>> \in Ends, <<e, d>> \in Ends,
           ReceiveRequest(d, e)
    PROVE  IInv' /\ UNCHANGED <<entry, written>>
<1> DEFINE t == Head(wire[<<d, e>>]).tag
           a == TagAdded(t, tag[e][t].name, tag[e][t].style, tag[e][t].at)
<1>1. /\ Reading(d, e) /\ Head(wire[<<d, e>>]).frame = "TagRequest"
      /\ answer' = [answer EXCEPT ![<<e, d>>] = a]
      /\ wire' = [wire EXCEPT ![<<d, e>>] = Tail(@)]
      /\ UNCHANGED <<rows, queue, stage, created, clock, drops, history>>
  BY DEF ReceiveRequest, Incoming
<1>2. t \in Tag
  BY <1>1, ReadingOK, FrameCases
<1>3. a \in Addition
  BY <1>2 DEF IInv, RowsOK, Definition, TagAdded, Addition
<1>4. QueueOK'
  BY <1>1 DEF IInv, QueueOK, history
<1>5. wire' \in [Ends -> Seq(SoundFrame(written))]
  BY <1>1, ReadingOK DEF IInv, WireOK
<1>6. answer' \in [Ends -> Addition \cup {Nothing}]
  BY <1>1, <1>3 DEF IInv, SessionOK
<1>7. stage[<<e, d>>] # "down"
  BY <1>1, ReadingOK
<1>8. /\ \A l \in Ends \ {<<d, e>>, <<e, d>>} : wire'[l] = wire[l]
      /\ \A l \in Ends \ {<<e, d>>} : answer'[l] = answer[l]
  BY <1>1 DEF IInv, WireOK, SessionOK
<1> QED
  BY <1>1, <1>4, <1>5, <1>6, <1>7, <1>8, ReceiveKeeps

LEMMA SendAnswerStep ==
    ASSUME IInv, NEW d \in Device, NEW e \in Device, <<d, e>> \in Ends, SendAnswer(d, e)
    PROVE  IInv' /\ UNCHANGED <<entry, written>>
<1>1. /\ answer[<<d, e>>] # Nothing
      /\ wire' = Sending({e}, d, <<ChangeFrame(answer[<<d, e>>])>>)
      /\ answer' = [answer EXCEPT ![<<d, e>>] = Nothing]
      /\ UNCHANGED <<rows, queue, stage, created, clock, drops, history, contested>>
  BY DEF SendAnswer
<1>2. answer[<<d, e>>] \in SoundChange(written)
  BY <1>1 DEF IInv, SessionOK, SoundChange
<1>3. WireOK'
  BY <1>1, <1>2, ChangeFrameOK, SendingOK DEF IInv, WireOK, history
<1>4. SessionOK'
  BY <1>1 DEF IInv, SessionOK
<1>5. DownOK'
  <2> SUFFICES ASSUME NEW l \in Ends, stage[l] = "down"
               PROVE  wire'[l] = <<>> /\ answer'[l] = Nothing
    BY <1>1 DEF DownOK
  <2>1. wire[l] = <<>> /\ answer[l] = Nothing /\ l # <<d, e>>
    BY <1>1 DEF IInv, DownOK
  <2>2. ~(l[1] = d /\ l[2] \in {e})
    BY <2>1 DEF Ends
  <2>3. wire'[l] = wire[l]
    BY <1>1, <2>2 DEF Sending
  <2>4. answer'[l] = answer[l]
    BY <1>1, <2>1 DEF IInv, SessionOK
  <2> QED
    BY <2>1, <2>3, <2>4
<1>6. RowsOK' /\ QueueOK' /\ FactsOK' /\ EntriesSound' /\ ClockOK'
  BY <1>1, KeepFacts, KeepClock DEF IInv, RowsOK, QueueOK, rows, history
<1> QED
  BY <1>1, <1>3, <1>4, <1>5, <1>6 DEF IInv, rows, history

\* Links break, and devices are killed.
LEMMA DownStep ==
    ASSUME IInv, NEW broken, Down(broken), QueueOK'
    PROVE  IInv' /\ UNCHANGED <<entry, written>>
<1>1. RowsOK' /\ FactsOK' /\ EntriesSound'
  BY KeepFacts DEF Down, IInv, RowsOK, rows, history
<1>2. SessionOK' /\ WireOK' /\ DownOK'
  BY DEF Down, IInv, SessionOK, WireOK, DownOK, Stage, history
<1>3. ClockOK'
  BY TagAssumption DEF Down, IInv, ClockOK, history, TagAssumption
<1> QED
  BY <1>1, <1>2, <1>3 DEF IInv, Down, rows, history

-----------------------------------------------------------------------------
\* Every step keeps the invariant, and states a fact, learns one, or leaves the
\* relationships alone.
LEMMA StepIInv ==
    ASSUME IInv, [Next]_vars
    PROVE  IInv' /\ [EntryRows!Next]_<<entry, written>>
<1>1. CASE UNCHANGED vars
  BY <1>1 DEF vars, rows, session, history, IInv, RowsOK, QueueOK, SessionOK, WireOK,
              DownOK, ClockOK, FactsOK, EntriesSound, RowSound
<1>2. ASSUME NEW d \in Acting, NEW at \in Stamp, User(d, at)
      PROVE  IInv' /\ [EntryRows!Next]_<<entry, written>>
  <2>1. d \in Device
    BY TagAssumption DEF TagAssumption
  <2>2. CASE CreateTag(d, at) \/ RestoreTag(d, at) \/ ChangeTag(d, at)
    BY <2>1, <2>2, CreateTagStep, RestoreTagStep, ChangeTagStep
  <2>3. CASE ChangeRelation(d, at)
    <3>1. IInv' /\ \E fact \in Fact : EntryRows!Assert(fact)
      BY <2>1, <2>3, ChangeRelationStep
    <3> QED
      BY <3>1 DEF EntryRows!Next, Fact, EntryRows!Fact
  <2> QED
    BY <1>2, <2>2, <2>3 DEF User
<1>3. ASSUME NEW d \in Device, Write(d)
      PROVE  IInv' /\ [EntryRows!Next]_<<entry, written>>
  <2>1. CASE WriteRelation(d)
    <3>1. IInv' /\ ((\E fact \in Fact : EntryRows!Learn(d, fact)) \/ UNCHANGED <<entry, written>>)
      BY <2>1, WriteRelationStep
    <3> QED
      BY <3>1 DEF EntryRows!Next, Fact, EntryRows!Fact
  <2>2. CASE WriteDefinition(d)
    BY <2>2, WriteDefinitionStep
  <2> QED
    BY <1>3, <2>1, <2>2 DEF Write
<1>4. ASSUME NEW d \in Device, Crash(d)
      PROVE  IInv' /\ UNCHANGED <<entry, written>>
  <2>1. QueueOK'
    BY <1>4 DEF Crash, Down, IInv, QueueOK, history
  <2> QED
    BY <1>4, <2>1, DownStep DEF Crash
<1>5. ASSUME NEW l \in Ends, Session(l[1], l[2])
      PROVE  IInv' /\ UNCHANGED <<entry, written>>
  <2>1. l[1] \in Device /\ l[2] \in Device /\ <<l[1], l[2]>> \in Ends /\ <<l[2], l[1]>> \in Ends
    BY EndsOK
  <2>2. CASE \/ Register(l[1], l[2]) \/ AnnounceTags(l[1], l[2])
             \/ AnnounceRelations(l[1], l[2]) \/ SendAnswer(l[1], l[2])
    BY <2>1, <2>2, RegisterStep, AnnounceStep, SendAnswerStep
  <2>3. CASE ReceiveChange(l[1], l[2])
    BY <2>1, <2>3, ReceiveChangeStep
  <2>4. CASE ReceiveDefinition(l[1], l[2])
    BY <2>1, <2>4, ReceiveDefinitionStep
  <2>5. CASE ReceiveRelation(l[1], l[2])
    BY <2>1, <2>5, ReceiveRelationStep
  <2>6. CASE ReceiveRequest(l[1], l[2])
    BY <2>1, <2>6, ReceiveRequestStep
  <2> QED
    BY <1>5, <2>2, <2>3, <2>4, <2>5, <2>6 DEF Session
<1>6. ASSUME NEW l \in Ends, Disconnect(l[1], l[2])
      PROVE  IInv' /\ UNCHANGED <<entry, written>>
  <2>1. QueueOK'
    BY <1>6 DEF Disconnect, Down, IInv, QueueOK, history
  <2> QED
    BY <1>6, <2>1, DownStep DEF Disconnect
<1> QED
  BY <1>1, <1>2, <1>3, <1>4, <1>5, <1>6 DEF Next, vars, rows, history

\* Rows, queues, sessions and wires have their types, and what is under way
\* about relationships was written by somebody (catalog/tagging.rs, plan_tags.rs).
THEOREM Sound == Spec => []IInv
<1>1. IInv /\ [Next]_vars => IInv'
  BY StepIInv
<1> QED
  BY <1>1, InitIInv, PTL DEF Spec

\* The type invariant of TagSync.
THEOREM TypesOK == Spec => []TypeOK
<1>1. IInv => TypeOK
  <2> SUFFICES ASSUME IInv PROVE TypeOK
    OBVIOUS
  <2>1. SoundChange(written) \subseteq ChangeMade
    BY DEF SoundChange, ChangeMade
  <2>2. SoundCommand(written) \subseteq [change : ChangeMade, from : Device]
    BY <2>1 DEF SoundCommand
  <2>3. SoundFrame(written) \subseteq Frame
    BY <2>1 DEF SoundFrame, Frame
  <2>4. queue \in [Device -> Seq([change : ChangeMade, from : Device])]
    <3>1. Seq(SoundCommand(written)) \subseteq Seq([change : ChangeMade, from : Device])
      BY ONLY <2>2, SeqMonotone
    <3> QED
      BY <3>1 DEF IInv, QueueOK
  <2>5. wire \in [Ends -> Seq(Frame)]
    BY <2>3 DEF IInv, WireOK
  <2> QED
    BY <2>4, <2>5 DEF IInv, TypeOK, RowsOK, Row, SessionOK, DownOK, ClockOK, FactsOK
<1> QED
  BY <1>1, Sound, PTL

\* Relationships behave as EntryRegister: a row is something that was written,
\* and gives way to something later only (store/entries.rs).
THEOREM RelationsAreFacts == Spec => RowsAreFacts
<1>1. Init => EntryRows!Init
  BY DEF Init, EntryRows!Init, NoRow, EntryRows!NoRow
<1>2. IInv /\ [Next]_vars => [EntryRows!Next]_<<entry, written>>
  BY StepIInv
<1>3. <<entry, written>> = EntryRows!vars
  BY DEF EntryRows!vars
<1>4. IInv /\ [Next]_vars => [EntryRows!Next]_(EntryRows!vars)
  BY <1>2, <1>3 DEF EntryRows!vars
<1> QED
  BY <1>1, <1>4, Sound, PTL DEF Spec, RowsAreFacts, EntryRows!Spec

-----------------------------------------------------------------------------
(***************************************************************************)
(* Relationships converge.                                                 *)
(*                                                                         *)
(* Once a session has announced its relationships, whatever its device     *)
(* holds is also at the other end or on its way there (Told).  What a      *)
(* device has from a neighbour, or a neighbour has sent it, the neighbour  *)
(* holds itself, or something later (QueueBehind, WireBehind): that is why *)
(* a change need not go back to where it came from.                        *)
(***************************************************************************)
Brings(change, r, at) == OfRelation(change) /\ change.relation = r /\ change.at >= at

Carries(f, r, at) ==
    \/ f.frame = "Change" /\ Brings(f.change, r, at)
    \/ f.frame = "Relations" /\ \E item \in f.entries : item.relation = r /\ item.at >= at

\* What d wrote about r at the stamp has reached e, or is on its way to it.
Comes(d, e, r, at) ==
    \/ entry[e][r].at >= at
    \/ \E m \in Range(queue[e]) : Brings(m.change, r, at)
    \/ \E f \in Range(wire[<<d, e>>]) : Carries(f, r, at)

Told ==
    \A d, e \in Device : <<d, e>> \in Ends /\ stage[<<d, e>>] = "reading" =>
        \A r \in Relation, at \in Nat : at = entry[d][r].at => Comes(d, e, r, at)

CommandBehind(m, d) ==
    OfRelation(m.change) /\ m.from # d =>
        entry[m.from][m.change.relation].at >= m.change.at

FrameBehind(f, d) ==
    /\ f.frame = "Change" /\ OfRelation(f.change) =>
           entry[d][f.change.relation].at >= f.change.at
    /\ f.frame = "Relations" =>
           \A item \in f.entries : entry[d][item.relation].at >= item.at

QueueBehind == \A d \in Device : \A m \in Range(queue[d]) : CommandBehind(m, d)

WireBehind ==
    \A d, e \in Device : <<d, e>> \in Ends =>
        \A f \in Range(wire[<<d, e>>]) : FrameBehind(f, d)

FactsDiffer == \A fact, other \in written : fact.at = other.at => fact = other

\* A row without a stamp is one nobody wrote.
BlankRows == \A d \in Device, r \in Relation : entry[d][r].at = 0 => entry[d][r] = NoRow

CInv == IInv /\ FactsDiffer /\ BlankRows /\ QueueBehind /\ WireBehind /\ Told

\* A frame that says nothing of relationships.
Aside(f) == \/ f.frame \in {"Definitions", "TagRequest"}
            \/ f.frame = "Change" /\ ~OfRelation(f.change)

Rises == \A d \in Device, r \in Relation : entry'[d][r].at >= entry[d][r].at

-----------------------------------------------------------------------------
LEMMA RangeAppend ==
    ASSUME NEW S, NEW s \in Seq(S), NEW x \in S
    PROVE  Range(Append(s, x)) = Range(s) \cup {x}
<1> DEFINE t == Append(s, x)
<1>1. /\ Len(t) = Len(s) + 1 /\ Len(s) \in Nat /\ t[Len(s) + 1] = x
      /\ \A i \in 1..Len(s) : t[i] = s[i]
  OBVIOUS
<1>2. DOMAIN t = 1..(Len(s) + 1) /\ DOMAIN s = 1..Len(s)
  BY <1>1
<1> HIDE DEF t
<1>3. ASSUME NEW i \in DOMAIN t PROVE t[i] \in Range(s) \cup {x}
  <2>1. CASE i = Len(s) + 1
    BY <1>1, <2>1
  <2>2. CASE i # Len(s) + 1
    <3>1. i \in 1..Len(s)
      BY <1>1, <1>2, <2>2
    <3> QED
      BY <1>1, <1>2, <3>1 DEF Range
  <2> QED
    BY <2>1, <2>2
<1>4. ASSUME NEW i \in DOMAIN s PROVE s[i] \in Range(t)
  <2>1. i \in DOMAIN t /\ t[i] = s[i]
    BY <1>1, <1>2
  <2> QED
    BY <2>1 DEF Range
<1>5. x \in Range(t)
  <2>1. Len(s) + 1 \in DOMAIN t
    BY <1>1, <1>2
  <2> QED
    BY <1>1, <2>1 DEF Range
<1>6. Range(t) \subseteq Range(s) \cup {x}
  BY <1>3 DEF Range
<1>7. Range(s) \subseteq Range(t)
  BY <1>4 DEF Range
<1> QED
  BY <1>5, <1>6, <1>7 DEF t

LEMMA RangeConcat ==
    ASSUME NEW S, NEW s \in Seq(S), NEW t \in Seq(S)
    PROVE  Range(s \o t) = Range(s) \cup Range(t)
<1> DEFINE u == s \o t
<1>1. /\ Len(u) = Len(s) + Len(t) /\ Len(s) \in Nat /\ Len(t) \in Nat
      /\ \A i \in 1..Len(u) : u[i] = IF i <= Len(s) THEN s[i] ELSE t[i - Len(s)]
  OBVIOUS
<1>2. DOMAIN u = 1..(Len(s) + Len(t)) /\ DOMAIN s = 1..Len(s) /\ DOMAIN t = 1..Len(t)
  BY <1>1
<1> HIDE DEF u
<1>3. ASSUME NEW i \in DOMAIN u PROVE u[i] \in Range(s) \cup Range(t)
  <2>1. CASE i <= Len(s)
    <3>1. i \in DOMAIN s /\ u[i] = s[i]
      BY <1>1, <1>2, <2>1
    <3> QED
      BY <3>1 DEF Range
  <2>2. CASE ~(i <= Len(s))
    <3>1. i - Len(s) \in DOMAIN t /\ u[i] = t[i - Len(s)]
      BY <1>1, <1>2, <2>2
    <3> QED
      BY <3>1 DEF Range
  <2> QED
    BY <2>1, <2>2
<1>4. ASSUME NEW i \in DOMAIN s PROVE s[i] \in Range(u)
  <2>1. i \in DOMAIN u /\ u[i] = s[i]
    BY <1>1, <1>2
  <2> QED
    BY <2>1 DEF Range
<1>5. ASSUME NEW i \in DOMAIN t PROVE t[i] \in Range(u)
  <2>1. i + Len(s) \in DOMAIN u /\ ~(i + Len(s) <= Len(s)) /\ (i + Len(s)) - Len(s) = i
    BY <1>1, <1>2
  <2>2. u[i + Len(s)] = t[i]
    BY <1>1, <1>2, <2>1
  <2> QED
    BY <2>1, <2>2 DEF Range
<1>6. Range(u) \subseteq Range(s) \cup Range(t)
  BY <1>3 DEF Range
<1>7. Range(s) \subseteq Range(u) /\ Range(t) \subseteq Range(u)
  BY <1>4, <1>5 DEF Range
<1> QED
  BY <1>6, <1>7 DEF u

LEMMA RangeTail ==
    ASSUME NEW S, NEW s \in Seq(S), s # <<>>
    PROVE  Range(s) = {Head(s)} \cup Range(Tail(s))
<1>1. /\ Tail(s) \in Seq(S) /\ Len(Tail(s)) = Len(s) - 1 /\ Len(s) \in Nat /\ Len(s) > 0
      /\ Head(s) = s[1] /\ \A i \in 1..Len(Tail(s)) : Tail(s)[i] = s[i + 1]
  OBVIOUS
<1> DEFINE t == Tail(s)
<1>2. DOMAIN s = 1..Len(s) /\ DOMAIN t = 1..(Len(s) - 1)
  BY <1>1
<1> HIDE DEF t
<1>3. ASSUME NEW i \in DOMAIN s PROVE s[i] = Head(s) \/ s[i] \in Range(t)
  <2>1. CASE i = 1
    BY <1>1, <2>1
  <2>2. CASE i # 1
    <3>1. i - 1 \in DOMAIN t /\ t[i - 1] = s[i]
      BY <1>1, <1>2, <2>2 DEF t
    <3> QED
      BY <3>1 DEF Range
  <2> QED
    BY <2>1, <2>2
<1>4. ASSUME NEW i \in DOMAIN t PROVE t[i] \in Range(s)
  <2>1. i + 1 \in DOMAIN s /\ t[i] = s[i + 1]
    BY <1>1, <1>2 DEF t
  <2> QED
    BY <2>1 DEF Range
<1>5. Head(s) \in Range(s)
  <2>1. 1 \in DOMAIN s
    BY <1>1, <1>2
  <2> QED
    BY <1>1, <2>1 DEF Range
<1>6. Range(s) \subseteq {Head(s)} \cup Range(t)
  BY <1>3 DEF Range
<1>7. Range(t) \subseteq Range(s)
  BY <1>4 DEF Range
<1> QED
  BY <1>5, <1>6, <1>7 DEF t

LEMMA RangeIn ==
    ASSUME NEW S, NEW s \in Seq(S)
    PROVE  Range(s) \subseteq S
BY DEF Range

-----------------------------------------------------------------------------
\* The two ends of a link are two devices.
LEMMA EndsDiffer ==
    ASSUME NEW d \in Device, NEW e \in Device, <<d, e>> \in Ends
    PROVE  d # e
<1>1. {d, e} \in Tree /\ Cardinality({d, e}) = 2
  BY TagAssumption DEF TagAssumption, Ends
<1>2. Cardinality({d}) = 1
  BY FS_Singleton
<1> QED
  BY <1>1, <1>2

LEMMA RowAtIsNat ==
    ASSUME NEW rowsOf \in [Device -> [Relation -> Row]]
    PROVE  \A d \in Device, r \in Relation : rowsOf[d][r] \in Row /\ rowsOf[d][r].at \in Nat
<1> SUFFICES ASSUME NEW d \in Device, NEW r \in Relation
             PROVE  rowsOf[d][r] \in Row /\ rowsOf[d][r].at \in Nat
  OBVIOUS
<1>1. rowsOf[d][r] \in Row
  OBVIOUS
<1>2. rowsOf[d][r].at \in Stamp \cup {0}
  BY <1>1 DEF Row
<1>3. Stamp \cup {0} \subseteq Nat
  BY StampsArePositive
<1>4. rowsOf[d][r].at \in Nat
  BY <1>2, <1>3
<1> QED
  BY <1>1, <1>4

LEMMA AtIsNat ==
    ASSUME IInv
    PROVE  \A d \in Device, r \in Relation : entry[d][r] \in Row /\ entry[d][r].at \in Nat
BY RowAtIsNat DEF IInv, RowsOK

LEMMA AtIsNatThen ==
    ASSUME IInv'
    PROVE  \A d \in Device, r \in Relation : entry'[d][r] \in Row /\ entry'[d][r].at \in Nat
BY RowAtIsNat DEF IInv, RowsOK

LEMMA CommandAtIsNat ==
    ASSUME IInv, NEW d \in Device, NEW m \in Range(queue[d])
    PROVE  /\ m \in SoundCommand(written) /\ m.from \in Device
           /\ OfRelation(m.change) => /\ m.change \in RelationChange
                                      /\ m.change.relation \in Relation
                                      /\ m.change.at \in Nat
<1>1. m \in SoundCommand(written)
  BY RangeIn DEF IInv, QueueOK
<1>2. m.change \in SoundChange(written) /\ m.from \in Device
  BY <1>1 DEF SoundCommand
<1>3. OfRelation(m.change) => m.change \in RelationChange
  BY <1>2, ChangeCases
<1> QED
  BY <1>1, <1>2, <1>3, StampsArePositive DEF RelationChange

LEMMA FrameAtIsNat ==
    ASSUME IInv, NEW l \in Ends, NEW f \in Range(wire[l])
    PROVE  /\ f \in SoundFrame(written)
           /\ f.frame = "Change" /\ OfRelation(f.change) =>
                  f.change.relation \in Relation /\ f.change.at \in Nat
           /\ f.frame = "Relations" =>
                  \A item \in f.entries : item.relation \in Relation /\ item.at \in Nat
<1>1. f \in SoundFrame(written)
  BY RangeIn DEF IInv, WireOK
<1>2. f.frame = "Change" => f.change \in SoundChange(written)
  BY <1>1, FrameCases
<1>3. f.frame = "Change" /\ OfRelation(f.change) => f.change \in RelationChange
  BY <1>2, ChangeCases
<1>4. f.frame = "Relations" => f.entries \subseteq Fact
  BY <1>1, FrameCases
<1> QED
  BY <1>1, <1>3, <1>4, StampsArePositive DEF RelationChange, Fact

\* What rows promise: a row only rises, and facts keep their stamps apart.
LEMMA RowsRise ==
    ASSUME IInv, IInv', FactsDiffer, BlankRows, [EntryRows!Next]_<<entry, written>>
    PROVE  Rises /\ FactsDiffer' /\ BlankRows'
<1>1. CASE UNCHANGED <<entry, written>>
  BY <1>1, AtIsNat DEF Rises, FactsDiffer, BlankRows
<1>2. ASSUME NEW fact \in Fact, EntryRows!Assert(fact)
      PROVE  Rises /\ FactsDiffer' /\ BlankRows'
  BY <1>2, AtIsNat DEF Rises, FactsDiffer, BlankRows, EntryRows!Assert
<1>3. ASSUME NEW fact \in Fact, NEW d \in Device, EntryRows!Learn(d, fact)
      PROVE  Rises /\ FactsDiffer' /\ BlankRows'
  <2>1. /\ fact.at > entry[d][fact.relation].at /\ fact.relation \in Relation
        /\ entry' = [entry EXCEPT ![d][fact.relation] =
                        [deleted |-> fact.deleted, at |-> fact.at]]
        /\ UNCHANGED written
    BY <1>3 DEF EntryRows!Learn, EntryRows!RowOf, Fact
  <2>2. fact.at \in Nat \ {0}
    BY StampsArePositive DEF Fact
  <2>3. ASSUME NEW e \in Device, NEW q \in Relation
        PROVE  entry'[e][q] = IF e = d /\ q = fact.relation
                              THEN [deleted |-> fact.deleted, at |-> fact.at]
                              ELSE entry[e][q]
    BY <2>1 DEF IInv, RowsOK
  <2>4. Rises
    <3> SUFFICES ASSUME NEW e \in Device, NEW q \in Relation
                 PROVE  entry'[e][q].at >= entry[e][q].at
      BY DEF Rises
    <3>1. CASE e = d /\ q = fact.relation
      <4>1. entry'[e][q].at = fact.at
        BY <2>3, <3>1
      <4> QED
        BY <2>1, <2>2, <3>1, <4>1, AtIsNat
    <3>2. CASE ~(e = d /\ q = fact.relation)
      BY <2>3, <3>2, AtIsNat
    <3> QED
      BY <3>1, <3>2
  <2>5. BlankRows'
    <3> SUFFICES ASSUME NEW e \in Device, NEW q \in Relation, entry'[e][q].at = 0
                 PROVE  entry'[e][q] = NoRow
      BY DEF BlankRows, NoRow
    <3>1. ~(e = d /\ q = fact.relation)
      BY <2>2, <2>3
    <3> QED
      BY <2>3, <3>1 DEF BlankRows
  <2> QED
    BY <2>1, <2>4, <2>5 DEF FactsDiffer
<1> QED
  BY <1>1, <1>2, <1>3 DEF EntryRows!Next, Fact, EntryRows!Fact

LEMMA CommandStays ==
    ASSUME IInv, IInv', Rises, NEW d \in Device, NEW m \in Range(queue[d]), CommandBehind(m, d)
    PROVE  CommandBehind(m, d)'
<1> SUFFICES ASSUME OfRelation(m.change), m.from # d
             PROVE  entry'[m.from][m.change.relation].at >= m.change.at
  BY DEF CommandBehind
<1>1. m.from \in Device /\ m.change.relation \in Relation /\ m.change.at \in Nat
  BY CommandAtIsNat
<1>2. entry[m.from][m.change.relation].at >= m.change.at
  BY DEF CommandBehind
<1>3. /\ entry[m.from][m.change.relation].at \in Nat
      /\ entry'[m.from][m.change.relation].at \in Nat
  <2>1. \A e \in Device, r \in Relation : entry[e][r].at \in Nat
    BY AtIsNat
  <2>2. \A e \in Device, r \in Relation : entry'[e][r].at \in Nat
    BY AtIsNatThen
  <2> QED
    BY <1>1, <2>1, <2>2
<1>4. entry'[m.from][m.change.relation].at >= entry[m.from][m.change.relation].at
  BY <1>1 DEF Rises
<1> QED
  BY <1>1, <1>2, <1>3, <1>4

LEMMA FrameStays ==
    ASSUME IInv, IInv', Rises, NEW d \in Device, NEW e \in Device, <<d, e>> \in Ends,
           NEW f \in Range(wire[<<d, e>>]), FrameBehind(f, d)
    PROVE  FrameBehind(f, d)'
<1>1. \A r \in Relation : /\ entry[d][r].at \in Nat /\ entry'[d][r].at \in Nat
                          /\ entry'[d][r].at >= entry[d][r].at
  BY AtIsNat, AtIsNatThen DEF Rises
<1>2. f.frame = "Change" /\ OfRelation(f.change) => entry'[d][f.change.relation].at >= f.change.at
  <2> SUFFICES ASSUME f.frame = "Change", OfRelation(f.change)
               PROVE  entry'[d][f.change.relation].at >= f.change.at
    OBVIOUS
  <2>1. f.change.relation \in Relation /\ f.change.at \in Nat
    BY FrameAtIsNat
  <2>2. entry[d][f.change.relation].at >= f.change.at
    BY DEF FrameBehind
  <2> QED
    BY <1>1, <2>1, <2>2
<1>3. ASSUME f.frame = "Relations", NEW item \in f.entries
      PROVE  entry'[d][item.relation].at >= item.at
  <2>1. item.relation \in Relation /\ item.at \in Nat
    BY <1>3, FrameAtIsNat
  <2>2. entry[d][item.relation].at >= item.at
    BY <1>3 DEF FrameBehind
  <2> QED
    BY <1>1, <2>1, <2>2
<1> QED
  BY <1>2, <1>3 DEF FrameBehind

\* What comes keeps coming as long as what brings it stays or hands it on.
LEMMA ComesStays ==
    ASSUME IInv, IInv', Rises, NEW d \in Device, NEW e \in Device, <<d, e>> \in Ends,
           NEW r \in Relation, NEW at \in Nat, Comes(d, e, r, at),
           \A m \in Range(queue[e]) :
               Brings(m.change, r, at) => m \in Range(queue'[e]) \/ Comes(d, e, r, at)',
           \A f \in Range(wire[<<d, e>>]) :
               Carries(f, r, at) => f \in Range(wire'[<<d, e>>]) \/ Comes(d, e, r, at)'
    PROVE  Comes(d, e, r, at)'
<1>1. CASE entry[e][r].at >= at
  <2>1. entry'[e][r].at >= entry[e][r].at
    BY DEF Rises
  <2>2. entry[e][r].at \in Nat /\ entry'[e][r].at \in Nat
    BY AtIsNat, AtIsNatThen
  <2>3. entry'[e][r].at >= at
    BY <1>1, <2>1, <2>2
  <2> QED
    BY <2>3 DEF Comes
<1>2. CASE \E m \in Range(queue[e]) : Brings(m.change, r, at)
  BY <1>2 DEF Comes
<1>3. CASE \E f \in Range(wire[<<d, e>>]) : Carries(f, r, at)
  BY <1>3 DEF Comes
<1> QED
  BY <1>1, <1>2, <1>3 DEF Comes

\* A step that moves nothing about relationships keeps what is behind and told.
LEMMA AsideKeeps ==
    ASSUME CInv, IInv', UNCHANGED entry,
           \A l \in Ends : stage'[l] = "reading" => stage[l] = "reading",
           \A d \in Device : \A m \in Range(queue'[d]) :
               m \in Range(queue[d]) \/ m.from = d \/ ~OfRelation(m.change),
           \A d \in Device : \A m \in Range(queue[d]) :
               m \in Range(queue'[d]) \/ ~OfRelation(m.change),
           \A l \in Ends : \A f \in Range(wire'[l]) : f \in Range(wire[l]) \/ Aside(f),
           \A l \in Ends : \A f \in Range(wire[l]) : f \in Range(wire'[l]) \/ Aside(f)
    PROVE  QueueBehind' /\ WireBehind' /\ Told'
<1>1. Rises /\ IInv
  BY AtIsNat DEF Rises, CInv
<1>2. QueueBehind'
  <2> SUFFICES ASSUME NEW d \in Device, NEW m \in Range(queue'[d])
               PROVE  CommandBehind(m, d)'
    BY DEF QueueBehind
  <2>1. CASE m \in Range(queue[d])
    BY <1>1, <2>1, CommandStays DEF CInv, QueueBehind
  <2>2. CASE m.from = d \/ ~OfRelation(m.change)
    BY <2>2 DEF CommandBehind
  <2> QED
    BY <2>1, <2>2
<1>3. WireBehind'
  <2> SUFFICES ASSUME NEW d \in Device, NEW e \in Device, <<d, e>> \in Ends,
                      NEW f \in Range(wire'[<<d, e>>])
               PROVE  FrameBehind(f, d)'
    BY DEF WireBehind
  <2>1. CASE f \in Range(wire[<<d, e>>])
    BY <1>1, <2>1, FrameStays DEF CInv, WireBehind
  <2>2. CASE Aside(f)
    BY <2>2 DEF FrameBehind, Aside
  <2> QED
    BY <2>1, <2>2
<1>4. Told'
  <2> SUFFICES ASSUME NEW d \in Device, NEW e \in Device, <<d, e>> \in Ends,
                      stage'[<<d, e>>] = "reading", NEW r \in Relation, NEW at \in Nat,
                      at = entry'[d][r].at
               PROVE  Comes(d, e, r, at)'
    BY DEF Told
  <2>1. Comes(d, e, r, at)
    BY DEF CInv, Told
  <2>2. \A m \in Range(queue[e]) : Brings(m.change, r, at) => m \in Range(queue'[e])
    BY DEF Brings
  <2>3. \A f \in Range(wire[<<d, e>>]) : Carries(f, r, at) => f \in Range(wire'[<<d, e>>])
    BY DEF Carries, Aside, Brings
  <2> QED
    BY <1>1, <2>1, <2>2, <2>3, ComesStays
<1> QED
  BY <1>2, <1>3, <1>4

-----------------------------------------------------------------------------
(* The writer, users and sessions, as to relationships.                    *)

LEMMA QueueTaken ==
    ASSUME IInv, NEW d \in Device, queue[d] # <<>>, queue' = [queue EXCEPT ![d] = Tail(@)]
    PROVE  /\ Head(queue[d]) \in Range(queue[d])
           /\ \A e \in Device : \A m \in Range(queue'[e]) : m \in Range(queue[e])
           /\ \A e \in Device : \A m \in Range(queue[e]) :
                  m \in Range(queue'[e]) \/ (e = d /\ m = Head(queue[d]))
<1>1. queue \in [Device -> Seq(SoundCommand(written))]
  BY DEF IInv, QueueOK
<1>2. Range(queue[d]) = {Head(queue[d])} \cup Range(Tail(queue[d]))
  BY <1>1, RangeTail
<1>3. queue'[d] = Tail(queue[d]) /\ \A e \in Device \ {d} : queue'[e] = queue[e]
  BY <1>1
<1> QED
  BY <1>2, <1>3

LEMMA QueueGiven ==
    ASSUME IInv, NEW e \in Device, NEW m \in SoundCommand(written'),
           QueueOK', written \subseteq written',
           queue' = [queue EXCEPT ![e] = Append(@, m)]
    PROVE  /\ m \in Range(queue'[e])
           /\ \A d \in Device : \A n \in Range(queue[d]) : n \in Range(queue'[d])
           /\ \A d \in Device : \A n \in Range(queue'[d]) :
                  n \in Range(queue[d]) \/ (d = e /\ n = m)
<1>1. queue \in [Device -> Seq(SoundCommand(written'))]
  BY Monotone DEF IInv, QueueOK
<1>2. Range(Append(queue[e], m)) = Range(queue[e]) \cup {m}
  BY <1>1, RangeAppend
<1>3. queue'[e] = Append(queue[e], m) /\ \A d \in Device \ {e} : queue'[d] = queue[d]
  BY <1>1
<1> QED
  BY <1>2, <1>3

\* What is sent comes after what is on the wires.
LEMMA WireSent ==
    ASSUME IInv, NEW to, NEW d \in Device, NEW frames \in Seq(SoundFrame(written)),
           wire' = Sending(to, d, frames)
    PROVE  \A l \in Ends :
               Range(wire'[l]) = Range(wire[l]) \cup
                                     (IF l[1] = d /\ l[2] \in to THEN Range(frames) ELSE {})
<1> SUFFICES ASSUME NEW l \in Ends
             PROVE  Range(wire'[l]) = Range(wire[l]) \cup
                        (IF l[1] = d /\ l[2] \in to THEN Range(frames) ELSE {})
  OBVIOUS
<1>1. wire[l] \in Seq(SoundFrame(written))
  BY DEF IInv, WireOK
<1>2. Range(wire[l] \o frames) = Range(wire[l]) \cup Range(frames)
  BY <1>1, RangeConcat
<1>3. wire'[l] = IF l[1] = d /\ l[2] \in to THEN wire[l] \o frames ELSE wire[l]
  BY DEF Sending
<1> QED
  BY <1>2, <1>3

LEMMA RangeOne ==
    ASSUME NEW x
    PROVE  Range(<<x>>) = {x}
BY DEF Range

LEMMA SubmitConverges ==
    ASSUME CInv, IInv', NEW d \in Device, NEW c \in SoundChange(written'), Submit(d, c),
           written \subseteq written'
    PROVE  QueueBehind' /\ WireBehind' /\ Told'
<1>1. /\ queue' = [queue EXCEPT ![d] = Append(@, [change |-> c, from |-> d])]
      /\ UNCHANGED <<entry, stage, wire>>
  BY DEF Submit, rows, session
<1>2. [change |-> c, from |-> d] \in SoundCommand(written') /\ QueueOK'
  BY DEF SoundCommand, IInv
<1>3. /\ \A e \in Device : \A n \in Range(queue[e]) : n \in Range(queue'[e])
      /\ \A e \in Device : \A n \in Range(queue'[e]) : n \in Range(queue[e]) \/ n.from = e
  <2>1. IInv
    BY DEF CInv
  <2>2. PICK m : m = [change |-> c, from |-> d]
    OBVIOUS
  <2>3. m \in SoundCommand(written') /\ m.from = d /\ queue' = [queue EXCEPT ![d] = Append(@, m)]
    BY <1>1, <1>2, <2>2
  <2>4. QueueOK' /\ written \subseteq written'
    BY <1>2
  <2>5. /\ \A e \in Device : \A n \in Range(queue[e]) : n \in Range(queue'[e])
        /\ \A e \in Device : \A n \in Range(queue'[e]) :
               n \in Range(queue[e]) \/ (e = d /\ n = m)
    BY <2>1, <2>3, <2>4, QueueGiven
  <2> QED
    BY <2>3, <2>5
<1> QED
  BY <1>1, <1>3, AsideKeeps

LEMMA WriteDefinitionConverges ==
    ASSUME CInv, IInv', NEW d \in Device, WriteDefinition(d)
    PROVE  QueueBehind' /\ WireBehind' /\ Told'
<1> DEFINE c == Head(queue[d]).change
           from == Head(queue[d]).from
           change == IF from = d /\ InPart(c) THEN [c EXCEPT !.on = tag[d][c.tag].at] ELSE c
           to == {e \in Neighbours(d) \ {from} : stage[<<d, e>>] # "down"}
<1>1. /\ queue[d] # <<>> /\ ~OfRelation(c)
      /\ queue' = [queue EXCEPT ![d] = Tail(@)]
      /\ wire' = Sending(to, d, <<ChangeFrame(change)>>)
      /\ UNCHANGED <<entry, stage>>
  BY DEF WriteDefinition, Forwarded, session
<1>2. IInv /\ c \in Addition \cup PartChange /\ c.tag \in Tag
  BY <1>1, HeadOK, ChangeCases DEF CInv, IInv
<1>3. change \in SoundChange(written) /\ ~OfRelation(change)
  <2>1. CASE from = d /\ InPart(c)
    <3>1. c \in PartChange
      BY <1>1, <1>2, <2>1, HeadOK, ChangeCases DEF IInv
    <3>2. tag[d][c.tag].at \in At
      BY <1>2 DEF IInv, RowsOK, Definition
    <3>3. [c EXCEPT !.on = tag[d][c.tag].at] \in PartChange
      BY <3>1, <3>2 DEF PartChange
    <3>4. change \in PartChange
      BY <2>1, <3>3
    <3> QED
      BY <3>4 DEF SoundChange, PartChange, OfRelation
  <2>2. CASE ~(from = d /\ InPart(c))
    BY <1>1, <1>2, <2>2 DEF SoundChange
  <2> QED
    BY <2>1, <2>2
<1> HIDE DEF change, to
<1>4. <<ChangeFrame(change)>> \in Seq(SoundFrame(written))
  BY <1>3, ChangeFrameOK
<1>5. \A l \in Ends : /\ \A f \in Range(wire[l]) : f \in Range(wire'[l])
                      /\ \A f \in Range(wire'[l]) : f \in Range(wire[l]) \/ Aside(f)
  <2>1. Range(<<ChangeFrame(change)>>) = {ChangeFrame(change)}
    BY RangeOne
  <2>2. Aside(ChangeFrame(change))
    BY <1>3 DEF Aside, ChangeFrame
  <2>3. \A l \in Ends : Range(wire'[l]) = Range(wire[l]) \cup
            (IF l[1] = d /\ l[2] \in to THEN Range(<<ChangeFrame(change)>>) ELSE {})
    BY <1>1, <1>2, <1>4, WireSent
  <2> QED
    BY <2>1, <2>2, <2>3
<1>6. /\ \A e \in Device : \A m \in Range(queue'[e]) : m \in Range(queue[e])
      /\ \A e \in Device : \A m \in Range(queue[e]) :
             m \in Range(queue'[e]) \/ ~OfRelation(m.change)
  BY <1>1, <1>2, QueueTaken
<1> QED
  BY <1>1, <1>5, <1>6, AsideKeeps

\* A relationship is written and passed on.
LEMMA WriteRelationConverges ==
    ASSUME CInv, IInv', Rises, NEW d \in Device, WriteRelation(d)
    PROVE  QueueBehind' /\ WireBehind' /\ Told'
<1> DEFINE m == Head(queue[d])
           to == {e \in Neighbours(d) \ {m.from} : stage[<<d, e>>] # "down"}
<1>1. PICK c : c = Head(queue[d]).change
  OBVIOUS
<1>2. /\ queue[d] # <<>> /\ OfRelation(c)
      /\ entry' = [entry EXCEPT ![d][c.relation] = Related(@, c)]
      /\ queue' = [queue EXCEPT ![d] = Tail(@)]
      /\ wire' = Sending(to, d, <<ChangeFrame(c)>>)
      /\ UNCHANGED stage
  BY <1>1 DEF WriteRelation, Forwarded, session
<1>3. IInv
  BY DEF CInv
<1>4. c \in SoundChange(written) /\ c \in RelationChange /\ c.relation \in Relation /\ c.at \in Nat
  <2>1. c \in SoundChange(written)
    BY <1>1, <1>2, <1>3, HeadOK DEF IInv
  <2>2. c \in RelationChange
    BY <1>2, <2>1, ChangeCases
  <2> QED
    BY <2>1, <2>2, StampsArePositive DEF RelationChange
<1>5. /\ entry'[d][c.relation].at >= c.at
      /\ \A e \in Device, r \in Relation :
             \/ entry'[e][r] = entry[e][r]
             \/ e = d /\ r = c.relation /\ entry'[e][r].at = c.at
  <2>1. \A e \in Device, r \in Relation :
            entry'[e][r] = IF e = d /\ r = c.relation THEN Related(entry[d][c.relation], c)
                           ELSE entry[e][r]
    BY <1>2, <1>3, <1>4 DEF IInv, RowsOK
  <2>2. entry[d][c.relation] \in Row /\ entry[d][c.relation].at \in Nat
    BY <1>3, <1>4, AtIsNat
  <2>3. \/ Related(entry[d][c.relation], c) = entry[d][c.relation] /\ ~(c.at > entry[d][c.relation].at)
        \/ Related(entry[d][c.relation], c).at = c.at
    BY <1>4, <2>2 DEF RelationChange, Related, UpsertEntry, UntagEntry
  <2> QED
    BY <1>4, <2>1, <2>2, <2>3
<1>6. /\ m \in Range(queue[d])
      /\ \A e \in Device : \A n \in Range(queue'[e]) : n \in Range(queue[e])
      /\ \A e \in Device : \A n \in Range(queue[e]) : n \in Range(queue'[e]) \/ (e = d /\ n = m)
  BY <1>2, <1>3, QueueTaken
<1>7. \A l \in Ends : Range(wire'[l]) = Range(wire[l]) \cup
                          (IF l[1] = d /\ l[2] \in to THEN {ChangeFrame(c)} ELSE {})
  <2>1. <<ChangeFrame(c)>> \in Seq(SoundFrame(written))
    BY <1>4, ChangeFrameOK
  <2>2. Range(<<ChangeFrame(c)>>) = {ChangeFrame(c)}
    BY RangeOne
  <2> HIDE DEF to
  <2> QED
    BY <1>2, <1>3, <2>1, <2>2, WireSent
<1>8. QueueBehind'
  BY <1>3, <1>6, CommandStays DEF CInv, QueueBehind
<1>9. WireBehind'
  <2> SUFFICES ASSUME NEW x \in Device, NEW y \in Device, <<x, y>> \in Ends,
                      NEW f \in Range(wire'[<<x, y>>])
               PROVE  FrameBehind(f, x)'
    BY DEF WireBehind
  <2>1. CASE f \in Range(wire[<<x, y>>])
    BY <1>3, <2>1, FrameStays DEF CInv, WireBehind
  <2>2. CASE x = d /\ f = ChangeFrame(c)
    BY <1>5, <2>2 DEF FrameBehind, ChangeFrame
  <2> HIDE DEF to
  <2>3. f \in Range(wire[<<x, y>>]) \/ (x = d /\ f = ChangeFrame(c))
    BY <1>7
  <2> QED
    BY <2>1, <2>2, <2>3
<1>10. Told'
  <2> SUFFICES ASSUME NEW x \in Device, NEW y \in Device, <<x, y>> \in Ends,
                      stage'[<<x, y>>] = "reading", NEW r \in Relation, NEW at \in Nat,
                      at = entry'[x][r].at
               PROVE  Comes(x, y, r, at)'
    BY DEF Told
  <2>1. CASE at = entry[x][r].at
    <3>1. Comes(x, y, r, at)
      BY <1>2, <2>1 DEF CInv, Told
    <3>2. \A n \in Range(queue[y]) :
              Brings(n.change, r, at) => n \in Range(queue'[y]) \/ Comes(x, y, r, at)'
      <4> SUFFICES ASSUME Brings(c, r, at), y = d PROVE Comes(x, y, r, at)'
        BY <1>1, <1>6
      <4>1. c.at >= at /\ r = c.relation
        BY DEF Brings
      <4>2. entry'[y][r].at >= at
        <5>1. entry'[d][c.relation].at \in Nat
          BY <1>4, AtIsNatThen
        <5> QED
          BY <1>4, <1>5, <4>1, <5>1
      <4> QED
        BY <4>2 DEF Comes
    <3>3. \A f \in Range(wire[<<x, y>>]) : f \in Range(wire'[<<x, y>>])
      BY <1>7
    <3> HIDE DEF to, m
    <3> QED
      BY <1>3, <3>1, <3>2, <3>3, ComesStays
  <2>2. CASE x = d /\ r = c.relation /\ at = c.at
    <3>1. CASE y = m.from
      <4>1. m.from # d
        BY <2>2, <3>1, EndsDiffer
      <4>2. CommandBehind(m, d)
        BY <1>6 DEF CInv, QueueBehind
      <4>3. entry[y][r].at >= at
        BY <1>1, <1>2, <2>2, <3>1, <4>1, <4>2 DEF CommandBehind
      <4>4. entry'[y][r].at >= entry[y][r].at
        BY DEF Rises
      <4>5. entry'[y][r].at >= at
        BY <1>3, <4>3, <4>4, AtIsNat, AtIsNatThen
      <4> QED
        BY <4>5 DEF Comes
    <3>2. CASE y # m.from
      <4>1. y \in to
        BY <1>2, <2>2, <3>2 DEF Neighbours, Ends
      <4>2. ChangeFrame(c) \in Range(wire'[<<x, y>>])
        BY <1>7, <2>2, <4>1
      <4>3. Carries(ChangeFrame(c), r, at)
        BY <1>2, <2>2 DEF Carries, ChangeFrame, Brings
      <4> QED
        BY <4>2, <4>3 DEF Comes
    <3> QED
      BY <3>1, <3>2
  <2> QED
    BY <1>5, <2>1, <2>2
<1> QED
  BY <1>8, <1>9, <1>10

\* A session that comes up says nothing of relationships.
LEMMA ComingUpConverges ==
    ASSUME CInv, IInv', NEW d \in Device, NEW e \in Device, <<d, e>> \in Ends,
           Register(d, e) \/ AnnounceTags(d, e)
    PROVE  QueueBehind' /\ WireBehind' /\ Told'
<1>1. IInv
  BY DEF CInv
<1>2. \A l \in Ends : stage'[l] = "reading" => stage[l] = "reading"
  BY <1>1 DEF Register, AnnounceTags, IInv, SessionOK
<1>3. UNCHANGED <<queue, entry>>
  BY DEF Register, AnnounceTags, rows
<1>4. \A l \in Ends : /\ \A f \in Range(wire[l]) : f \in Range(wire'[l])
                      /\ \A f \in Range(wire'[l]) : f \in Range(wire[l]) \/ Aside(f)
  <2>1. CASE Register(d, e)
    BY <2>1 DEF Register
  <2>2. CASE AnnounceTags(d, e)
    <3>1. PICK frames : frames = Frames("Definitions", TagEntries(d))
      OBVIOUS
    <3>2. wire' = Sending({e}, d, frames)
      BY <2>2, <3>1 DEF AnnounceTags
    <3>3. frames \in Seq(SoundFrame(written)) /\ \A f \in Range(frames) : Aside(f)
      <4>1. PICK g : g = [frame |-> "Definitions", entries |-> TagEntries(d)]
        OBVIOUS
      <4>2. g \in SoundFrame(written) /\ Aside(g)
        BY <1>1, <4>1, TagEntriesOK DEF IInv, SoundFrame, Aside
      <4>3. Range(<<g>>) = {g} /\ <<g>> \in Seq(SoundFrame(written))
        BY <4>2, RangeOne
      <4>4. Range(<<>>) = {} /\ <<>> \in Seq(SoundFrame(written))
        BY DEF Range
      <4>5. frames = <<>> \/ frames = <<g>>
        BY <3>1, <4>1 DEF Frames
      <4>6. CASE frames = <<>>
        BY <4>4, <4>6
      <4>7. CASE frames = <<g>>
        BY <4>2, <4>3, <4>7
      <4> QED
        BY <4>5, <4>6, <4>7
    <3>4. \A l \in Ends : Range(wire'[l]) = Range(wire[l]) \cup
              (IF l[1] = d /\ l[2] \in {e} THEN Range(frames) ELSE {})
      BY <1>1, <3>2, <3>3, WireSent
    <3> QED
      BY <3>3, <3>4
  <2> QED
    BY <2>1, <2>2
<1> QED
  BY <1>2, <1>3, <1>4, AsideKeeps

\* From now on the other end has heard, or will hear, of all there is.
LEMMA AnnounceRelationsConverges ==
    ASSUME CInv, IInv', NEW d \in Device, NEW e \in Device, <<d, e>> \in Ends,
           AnnounceRelations(d, e)
    PROVE  QueueBehind' /\ WireBehind' /\ Told'
<1>1. /\ IInv /\ Rises
      /\ UNCHANGED <<entry, queue>>
      /\ stage' = [stage EXCEPT ![<<d, e>>] = "reading"]
  BY AtIsNat DEF CInv, Rises, AnnounceRelations, rows
<1>2. PICK frames : frames = Frames("Relations", RelationEntries(d))
  OBVIOUS
<1>3. PICK g : g = [frame |-> "Relations", entries |-> RelationEntries(d)]
  OBVIOUS
<1>4. /\ frames = IF RelationEntries(d) = {} THEN <<>> ELSE <<g>>
      /\ frames \in Seq(SoundFrame(written))
      /\ Range(frames) = IF RelationEntries(d) = {} THEN {} ELSE {g}
  <2>1. g \in SoundFrame(written)
    BY <1>1, <1>3, RelationEntriesOK DEF IInv, SoundFrame
  <2>2. Range(<<g>>) = {g} /\ <<g>> \in Seq(SoundFrame(written))
    BY <2>1, RangeOne
  <2>3. Range(<<>>) = {} /\ <<>> \in Seq(SoundFrame(written))
    BY DEF Range
  <2>4. frames = IF RelationEntries(d) = {} THEN <<>> ELSE <<g>>
    BY <1>2, <1>3 DEF Frames
  <2>5. CASE RelationEntries(d) = {}
    BY <2>3, <2>4, <2>5
  <2>6. CASE RelationEntries(d) # {}
    BY <2>2, <2>4, <2>6
  <2> QED
    BY <2>5, <2>6
<1>5. \A l \in Ends : Range(wire'[l]) = Range(wire[l]) \cup
                          (IF l[1] = d /\ l[2] \in {e} THEN Range(frames) ELSE {})
  <2>1. wire' = Sending({e}, d, frames)
    BY <1>2 DEF AnnounceRelations
  <2>2. PICK to : to = {e}
    OBVIOUS
  <2>3. IInv /\ frames \in Seq(SoundFrame(written)) /\ wire' = Sending(to, d, frames)
    BY <1>1, <1>4, <2>1, <2>2
  <2>4. \A l \in Ends : Range(wire'[l]) = Range(wire[l]) \cup
                             (IF l[1] = d /\ l[2] \in to THEN Range(frames) ELSE {})
    BY ONLY <2>3, WireSent, d \in Device
  <2> QED
    BY <2>2, <2>4
<1>6. QueueBehind'
  <2> SUFFICES ASSUME NEW x \in Device, NEW m \in Range(queue'[x]) PROVE CommandBehind(m, x)'
    BY DEF QueueBehind
  <2>1. m \in Range(queue[x]) /\ CommandBehind(m, x)
    BY <1>1 DEF CInv, QueueBehind
  <2> QED
    BY <1>1, <2>1, CommandStays
<1>7. WireBehind'
  <2> SUFFICES ASSUME NEW x \in Device, NEW y \in Device, <<x, y>> \in Ends,
                      NEW f \in Range(wire'[<<x, y>>])
               PROVE  FrameBehind(f, x)'
    BY DEF WireBehind
  <2>1. CASE f \in Range(wire[<<x, y>>])
    BY <1>1, <2>1, FrameStays DEF CInv, WireBehind
  <2>2. CASE f = g /\ x = d
    <3>1. \A item \in g.entries :
              item.relation \in Relation /\ item.at = entry[d][item.relation].at
      BY <1>3 DEF RelationEntries
    <3>2. \A item \in g.entries : entry[d][item.relation].at >= item.at
      BY <1>1, <3>1, AtIsNat
    <3> QED
      BY <1>1, <1>3, <2>2, <3>2 DEF FrameBehind
  <2> QED
    BY <1>4, <1>5, <2>1, <2>2
<1>8. Told'
  <2> SUFFICES ASSUME NEW x \in Device, NEW y \in Device, <<x, y>> \in Ends,
                      stage'[<<x, y>>] = "reading", NEW r \in Relation, NEW at \in Nat,
                      at = entry'[x][r].at
               PROVE  Comes(x, y, r, at)'
    BY DEF Told
  <2>1. CASE stage[<<x, y>>] = "reading"
    <3>1. Comes(x, y, r, at)
      BY <1>1, <2>1 DEF CInv, Told
    <3>2. \A m \in Range(queue[y]) : m \in Range(queue'[y])
      BY <1>1
    <3>3. \A f \in Range(wire[<<x, y>>]) : f \in Range(wire'[<<x, y>>])
      BY <1>5
    <3> QED
      BY <1>1, <3>1, <3>2, <3>3, ComesStays
  <2>2. CASE stage[<<x, y>>] # "reading"
    <3>1. x = d /\ y = e
      BY <1>1, <2>2 DEF IInv, SessionOK
    <3>2. CASE at = 0
      <4>1. entry'[y][r].at >= at
        BY <3>2, AtIsNatThen
      <4> QED
        BY <4>1 DEF Comes
    <3>3. CASE at # 0
      <4>1. PICK item : item = [relation |-> r, deleted |-> entry[d][r].deleted, at |-> entry[d][r].at]
        OBVIOUS
      <4>2. item \in RelationEntries(d) /\ item.relation = r /\ item.at >= at
        BY <1>1, <3>1, <3>3, <4>1 DEF RelationEntries
      <4>3. g \in Range(wire'[<<x, y>>]) /\ Carries(g, r, at)
        BY <1>3, <1>4, <1>5, <3>1, <4>2 DEF Carries
      <4> QED
        BY <4>3 DEF Comes
    <3> QED
      BY <3>2, <3>3
  <2> QED
    BY <2>1, <2>2
<1> QED
  BY <1>6, <1>7, <1>8

LEMMA SendAnswerConverges ==
    ASSUME CInv, IInv', NEW d \in Device, NEW e \in Device, <<d, e>> \in Ends, SendAnswer(d, e)
    PROVE  QueueBehind' /\ WireBehind' /\ Told'
<1>1. PICK c : c = answer[<<d, e>>]
  OBVIOUS
<1>2. /\ IInv /\ c \in Addition
      /\ wire' = Sending({e}, d, <<ChangeFrame(c)>>)
      /\ UNCHANGED <<entry, queue, stage>>
  BY <1>1 DEF CInv, IInv, SessionOK, SendAnswer, rows
<1>3. c \in SoundChange(written) /\ Aside(ChangeFrame(c))
  BY <1>2 DEF SoundChange, Aside, ChangeFrame, Addition, OfRelation
<1>4. \A l \in Ends : Range(wire'[l]) = Range(wire[l]) \cup
                          (IF l[1] = d /\ l[2] \in {e} THEN {ChangeFrame(c)} ELSE {})
  <2>1. <<ChangeFrame(c)>> \in Seq(SoundFrame(written)) /\ Range(<<ChangeFrame(c)>>) = {ChangeFrame(c)}
    BY <1>3, ChangeFrameOK, RangeOne
  <2> QED
    BY <1>2, <2>1, WireSent
<1>5. \A l \in Ends : /\ \A f \in Range(wire[l]) : f \in Range(wire'[l])
                      /\ \A f \in Range(wire'[l]) : f \in Range(wire[l]) \/ Aside(f)
  BY <1>3, <1>4
<1> QED
  BY <1>2, <1>5, AsideKeeps

-----------------------------------------------------------------------------
LEMMA WireTaken ==
    ASSUME IInv, NEW d \in Device, NEW e \in Device, <<d, e>> \in Ends, wire[<<d, e>>] # <<>>
    PROVE  /\ Range(wire[<<d, e>>]) = {Head(wire[<<d, e>>])} \cup Range(Tail(wire[<<d, e>>]))
           /\ Head(wire[<<d, e>>]) \in SoundFrame(written)
           /\ Tail(wire[<<d, e>>]) \in Seq(SoundFrame(written))
<1>1. wire[<<d, e>>] \in Seq(SoundFrame(written))
  BY DEF IInv, WireOK
<1> QED
  BY <1>1, RangeTail

Rest(f, item) == [f EXCEPT !.entries = @ \ {item}]

\* What is left once an item is dealt with.
LEMMA RangeWithout ==
    ASSUME NEW S, NEW frames \in Seq(S), frames # <<>>, NEW item,
           Rest(Head(frames), item) \in S
    PROVE  /\ Head(frames).entries = {item} =>
                  Range(Without(frames, item)) = Range(Tail(frames))
           /\ Head(frames).entries # {item} =>
                  Range(Without(frames, item)) =
                      Range(Tail(frames)) \cup {Rest(Head(frames), item)}
<1>1. PICK g \in S : g = Rest(Head(frames), item)
  OBVIOUS
<1>2. Tail(frames) \in Seq(S) /\ <<g>> \in Seq(S)
  OBVIOUS
<1>3. Range(<<g>> \o Tail(frames)) = Range(<<g>>) \cup Range(Tail(frames))
  <2>1. PICK t \in Seq(S) : t = Tail(frames)
    BY <1>2
  <2>2. PICK s \in Seq(S) : s = <<g>>
    BY <1>2
  <2>3. Range(s \o t) = Range(s) \cup Range(t)
    BY ONLY RangeConcat, s \in Seq(S), t \in Seq(S)
  <2> QED
    BY <2>1, <2>2, <2>3
<1>4. Range(<<g>>) = {g}
  BY RangeOne
<1>5. CASE Head(frames).entries = {item}
  BY <1>5 DEF Without
<1>6. CASE Head(frames).entries # {item}
  <2>1. Without(frames, item) = <<g>> \o Tail(frames)
    BY <1>1, <1>6 DEF Without, Rest
  <2> QED
    BY <1>1, <1>3, <1>4, <1>6, <2>1
<1> QED
  BY <1>5, <1>6

LEMMA ReceiveChangeConverges ==
    ASSUME CInv, IInv', NEW d \in Device, NEW e \in Device, <<d, e>> \in Ends, ReceiveChange(d, e)
    PROVE  QueueBehind' /\ WireBehind' /\ Told'
<1>1. PICK f : f = Head(wire[<<d, e>>])
  OBVIOUS
<1>2. PICK m : m = [change |-> f.change, from |-> d]
  OBVIOUS
<1>3. /\ wire[<<d, e>>] # <<>> /\ f.frame = "Change"
      /\ queue' = [queue EXCEPT ![e] = Append(@, m)]
      /\ wire' = [wire EXCEPT ![<<d, e>>] = Tail(@)]
      /\ UNCHANGED <<entry, stage, written>>
  BY <1>1, <1>2 DEF ReceiveChange, Incoming, Reading, Queued, rows, session, history
<1>4. IInv /\ Rises
  BY <1>3, AtIsNat DEF CInv, Rises
<1>5. /\ Range(wire[<<d, e>>]) = {f} \cup Range(Tail(wire[<<d, e>>]))
      /\ f \in SoundFrame(written)
  BY <1>1, <1>3, <1>4, WireTaken
<1>6. /\ \A l \in Ends : \A g \in Range(wire'[l]) : g \in Range(wire[l])
      /\ \A l \in Ends : \A g \in Range(wire[l]) :
             g \in Range(wire'[l]) \/ (l = <<d, e>> /\ g = f)
  <2>1. /\ wire'[<<d, e>>] = Tail(wire[<<d, e>>])
        /\ \A l \in Ends \ {<<d, e>>} : wire'[l] = wire[l]
    BY <1>3, <1>4 DEF IInv, WireOK
  <2> QED
    BY <1>5, <2>1
<1>7. m \in SoundCommand(written')
  BY <1>2, <1>3, <1>5, FrameCases DEF SoundCommand
<1>8. /\ m \in Range(queue'[e])
      /\ \A x \in Device : \A n \in Range(queue[x]) : n \in Range(queue'[x])
      /\ \A x \in Device : \A n \in Range(queue'[x]) : n \in Range(queue[x]) \/ (x = e /\ n = m)
  <2>1. QueueOK' /\ written \subseteq written'
    BY <1>3 DEF IInv
  <2> QED
    BY <1>3, <1>4, <1>7, <2>1, QueueGiven
<1>9. QueueBehind'
  <2> SUFFICES ASSUME NEW x \in Device, NEW n \in Range(queue'[x]) PROVE CommandBehind(n, x)'
    BY DEF QueueBehind
  <2>1. CASE n \in Range(queue[x])
    BY <1>4, <2>1, CommandStays DEF CInv, QueueBehind
  <2>2. CASE n = m
    <3>1. FrameBehind(f, d)
      BY <1>5 DEF CInv, WireBehind
    <3> QED
      BY <1>2, <1>3, <2>2, <3>1 DEF FrameBehind, CommandBehind
  <2> QED
    BY <1>8, <2>1, <2>2
<1>10. WireBehind'
  BY <1>4, <1>6, FrameStays DEF CInv, WireBehind
<1>11. Told'
  <2> SUFFICES ASSUME NEW x \in Device, NEW y \in Device, <<x, y>> \in Ends,
                      stage'[<<x, y>>] = "reading", NEW r \in Relation, NEW at \in Nat,
                      at = entry'[x][r].at
               PROVE  Comes(x, y, r, at)'
    BY DEF Told
  <2>1. Comes(x, y, r, at)
    BY <1>3 DEF CInv, Told
  <2>2. \A g \in Range(wire[<<x, y>>]) :
            Carries(g, r, at) => g \in Range(wire'[<<x, y>>]) \/ Comes(x, y, r, at)'
    <3> SUFFICES ASSUME Carries(f, r, at), x = d, y = e PROVE Comes(x, y, r, at)'
      BY <1>6
    <3>1. Brings(m.change, r, at)
      BY <1>2, <1>3 DEF Carries
    <3> QED
      BY <1>8, <3>1 DEF Comes
  <2> QED
    BY <1>4, <1>8, <2>1, <2>2, ComesStays
<1> QED
  BY <1>9, <1>10, <1>11

\* An item about a definition is dealt with without a word on relationships.
LEMMA ReceiveDefinitionConverges ==
    ASSUME CInv, IInv', NEW d \in Device, NEW e \in Device,
           <<d, e>> \in Ends, <<e, d>> \in Ends, ReceiveDefinition(d, e)
    PROVE  QueueBehind' /\ WireBehind' /\ Told'
<1>1. PICK f : f = Head(wire[<<d, e>>])
  OBVIOUS
<1>2. /\ wire[<<d, e>>] # <<>> /\ f.frame = "Definitions" /\ Reading(d, e)
      /\ UNCHANGED <<entry, stage, written>>
  BY <1>1 DEF ReceiveDefinition, Incoming, Reading, rows, session, history
<1>3. PICK item \in f.entries :
        /\ queue' = IF Needed(tag[e][item.tag], item) /\ item.deleted
                    THEN Queued(e, [kind |-> "TagRemoved", tag |-> item.tag,
                                    at |-> item.at, on |-> base[item.tag][item.at]], d)
                    ELSE queue
        /\ wire' = [wire EXCEPT ![<<d, e>>] = Without(@, item),
                                ![<<e, d>>] = @ \o Requests(e, item)]
  BY <1>1 DEF ReceiveDefinition
<1>4. IInv
  BY DEF CInv
<1>5. f \in SoundFrame(written) /\ item \in Item
  BY <1>1, <1>2, <1>3, <1>4, WireTaken, FrameCases
<1>6. /\ \A x \in Device : \A n \in Range(queue[x]) : n \in Range(queue'[x])
      /\ \A x \in Device : \A n \in Range(queue'[x]) : n \in Range(queue[x]) \/ ~OfRelation(n.change)
  <2>1. CASE queue' = queue
    BY <2>1
  <2>2. CASE queue' # queue
    <3>1. PICK m : m = [change |-> [kind |-> "TagRemoved", tag |-> item.tag,
                                    at |-> item.at, on |-> base[item.tag][item.at]],
                       from |-> d]
      OBVIOUS
    <3>2. queue' = [queue EXCEPT ![e] = Append(@, m)]
      BY <1>3, <2>2, <3>1 DEF Queued
    <3>3. m \in SoundCommand(written') /\ ~OfRelation(m.change)
      <4>1. m.change \in PartChange
        BY <1>4, <1>5, <3>1 DEF Item, PartChange, IInv, FactsOK
      <4> QED
        BY <3>1, <4>1 DEF SoundCommand, SoundChange, OfRelation
    <3>4. QueueOK' /\ written \subseteq written'
      BY <1>2 DEF IInv
    <3>5. /\ \A x \in Device : \A n \in Range(queue[x]) : n \in Range(queue'[x])
          /\ \A x \in Device : \A n \in Range(queue'[x]) :
                 n \in Range(queue[x]) \/ (x = e /\ n = m)
      BY <1>4, <3>2, <3>3, <3>4, QueueGiven
    <3> QED
      BY <3>3, <3>5
  <2> QED
    BY <2>1, <2>2
<1>7. \A l \in Ends : /\ \A g \in Range(wire[l]) : g \in Range(wire'[l]) \/ Aside(g)
                      /\ \A g \in Range(wire'[l]) : g \in Range(wire[l]) \/ Aside(g)
  <2>1. PICK g : g = Rest(f, item)
    OBVIOUS
  <2>2. g \in SoundFrame(written) /\ g.frame = "Definitions"
    BY <1>2, <1>5, <2>1, FrameCases DEF SoundFrame, Rest
  <2>3. Range(Without(wire[<<d, e>>], item)) =
            Range(Tail(wire[<<d, e>>])) \cup (IF f.entries = {item} THEN {} ELSE {g})
    <3>1. wire[<<d, e>>] \in Seq(SoundFrame(written))
      BY <1>4 DEF IInv, WireOK
    <3>2. Rest(Head(wire[<<d, e>>]), item) \in SoundFrame(written)
      BY <1>1, <2>1, <2>2
    <3>3. /\ Head(wire[<<d, e>>]).entries = {item} =>
                 Range(Without(wire[<<d, e>>], item)) = Range(Tail(wire[<<d, e>>]))
          /\ Head(wire[<<d, e>>]).entries # {item} =>
                 Range(Without(wire[<<d, e>>], item)) =
                     Range(Tail(wire[<<d, e>>])) \cup {Rest(Head(wire[<<d, e>>]), item)}
      BY <1>2, <3>1, <3>2, RangeWithout
    <3> QED
      BY <1>1, <2>1, <3>3
  <2>4. Range(wire[<<d, e>>]) = {f} \cup Range(Tail(wire[<<d, e>>]))
    BY <1>1, <1>2, <1>4, WireTaken
  <2>5. PICK requests : requests = Requests(e, item)
    OBVIOUS
  <2>6. requests \in Seq(SoundFrame(written)) /\ \A h \in Range(requests) : Aside(h)
    <3>1. PICK h : h = [frame |-> "TagRequest", tag |-> item.tag]
      OBVIOUS
    <3>2. h \in SoundFrame(written) /\ Aside(h)
      BY <1>5, <3>1 DEF Item, SoundFrame, Aside
    <3>3. Range(<<h>>) = {h} /\ <<h>> \in Seq(SoundFrame(written))
      BY <3>2, RangeOne
    <3>4. Range(<<>>) = {} /\ <<>> \in Seq(SoundFrame(written))
      BY DEF Range
    <3>5. CASE requests = <<>>
      BY <3>4, <3>5
    <3>6. CASE requests = <<h>>
      BY <3>2, <3>3, <3>6
    <3> QED
      BY <2>5, <3>1, <3>5, <3>6 DEF Requests
  <2>7. Range(wire[<<e, d>>] \o requests) = Range(wire[<<e, d>>]) \cup Range(requests)
    <3>1. wire[<<e, d>>] \in Seq(SoundFrame(written))
      BY <1>4 DEF IInv, WireOK
    <3> QED
      BY <2>6, <3>1, RangeConcat
  <2>8. /\ wire'[<<d, e>>] = Without(wire[<<d, e>>], item)
        /\ wire'[<<e, d>>] = wire[<<e, d>>] \o requests
        /\ \A l \in Ends \ {<<d, e>>, <<e, d>>} : wire'[l] = wire[l]
    <3>1. <<d, e>> # <<e, d>>
      BY EndsDiffer
    <3> QED
      BY <1>3, <1>4, <2>5, <3>1 DEF IInv, WireOK
  <2>9. Aside(f) /\ Aside(g)
    BY <1>2, <2>2 DEF Aside
  <2> QED
    BY <2>3, <2>4, <2>6, <2>7, <2>8, <2>9
<1> QED
  BY <1>2, <1>6, <1>7, AsideKeeps

\* An item about a relationship is queued if it is later than what is here.
LEMMA ReceiveRelationConverges ==
    ASSUME CInv, IInv', NEW d \in Device, NEW e \in Device, <<d, e>> \in Ends,
           ReceiveRelation(d, e)
    PROVE  QueueBehind' /\ WireBehind' /\ Told'
<1>1. PICK f : f = Head(wire[<<d, e>>])
  OBVIOUS
<1>2. /\ wire[<<d, e>>] # <<>> /\ f.frame = "Relations"
      /\ UNCHANGED <<entry, stage, written>>
  BY <1>1 DEF ReceiveRelation, Incoming, Reading, rows, session, history
<1>3. PICK item \in f.entries :
        /\ queue' = IF item.at > entry[e][item.relation].at
                    THEN Queued(e, [kind |-> IF item.deleted THEN "Untagged" ELSE "Tagged",
                                    relation |-> item.relation, at |-> item.at], d)
                    ELSE queue
        /\ wire' = [wire EXCEPT ![<<d, e>>] = Without(@, item)]
  BY <1>1 DEF ReceiveRelation
<1>4. IInv /\ Rises
  BY <1>2, AtIsNat DEF CInv, Rises
<1>5. /\ Range(wire[<<d, e>>]) = {f} \cup Range(Tail(wire[<<d, e>>]))
      /\ f \in SoundFrame(written)
  BY <1>1, <1>2, <1>4, WireTaken
<1>6. item \in written /\ item \in Fact /\ item.relation \in Relation /\ item.at \in Nat
  BY <1>2, <1>3, <1>5, FrameCases, StampsArePositive DEF Fact
<1>7. FrameBehind(f, d)
  BY <1>5 DEF CInv, WireBehind
<1>8. PICK g : g = Rest(f, item)
  OBVIOUS
<1>9. /\ \A l \in Ends \ {<<d, e>>} : wire'[l] = wire[l]
      /\ Range(wire'[<<d, e>>]) =
             Range(Tail(wire[<<d, e>>])) \cup (IF f.entries = {item} THEN {} ELSE {g})
      /\ g.frame = "Relations" /\ g.entries = f.entries \ {item}
  <2>1. g \in SoundFrame(written) /\ g.frame = "Relations" /\ g.entries = f.entries \ {item}
    BY <1>2, <1>5, <1>8, FrameCases DEF SoundFrame, Rest
  <2>2. wire[<<d, e>>] \in Seq(SoundFrame(written))
    BY <1>4 DEF IInv, WireOK
  <2>4. Range(Without(wire[<<d, e>>], item)) =
            Range(Tail(wire[<<d, e>>])) \cup (IF f.entries = {item} THEN {} ELSE {g})
    <3>1. Rest(Head(wire[<<d, e>>]), item) \in SoundFrame(written)
      BY <1>1, <1>8, <2>1
    <3>2. /\ Head(wire[<<d, e>>]).entries = {item} =>
                 Range(Without(wire[<<d, e>>], item)) = Range(Tail(wire[<<d, e>>]))
          /\ Head(wire[<<d, e>>]).entries # {item} =>
                 Range(Without(wire[<<d, e>>], item)) =
                     Range(Tail(wire[<<d, e>>])) \cup {Rest(Head(wire[<<d, e>>]), item)}
      BY <1>2, <2>2, <3>1, RangeWithout
    <3> QED
      BY <1>1, <1>8, <3>2
  <2>5. /\ wire'[<<d, e>>] = Without(wire[<<d, e>>], item)
        /\ \A l \in Ends \ {<<d, e>>} : wire'[l] = wire[l]
    BY <1>3, <1>4 DEF IInv, WireOK
  <2> QED
    BY <2>1, <2>4, <2>5
<1>10. PICK m : m = [change |-> [kind |-> IF item.deleted THEN "Untagged" ELSE "Tagged",
                                 relation |-> item.relation, at |-> item.at], from |-> d]
  OBVIOUS
<1>11. m \in SoundCommand(written') /\ m.from = d /\ m.change.relation = item.relation
       /\ m.change.at = item.at /\ OfRelation(m.change)
  <2>1. m.change \in RelationChange /\ FactOf(m.change) = item
    BY <1>6, <1>10 DEF RelationChange, FactOf, Fact
  <2> QED
    BY <1>2, <1>6, <1>10, <2>1 DEF SoundCommand, SoundChange, OfRelation
<1>12. \/ /\ m \in Range(queue'[e])
          /\ \A x \in Device : \A n \in Range(queue[x]) : n \in Range(queue'[x])
          /\ \A x \in Device : \A n \in Range(queue'[x]) : n \in Range(queue[x]) \/ n = m
       \/ queue' = queue /\ entry[e][item.relation].at >= item.at
  <2>1. CASE item.at > entry[e][item.relation].at
    <3>1. queue' = [queue EXCEPT ![e] = Append(@, m)]
      BY <1>3, <1>10, <2>1 DEF Queued
    <3>2. QueueOK' /\ written \subseteq written'
      BY <1>2 DEF IInv
    <3>3. /\ m \in Range(queue'[e])
          /\ \A x \in Device : \A n \in Range(queue[x]) : n \in Range(queue'[x])
          /\ \A x \in Device : \A n \in Range(queue'[x]) :
                 n \in Range(queue[x]) \/ (x = e /\ n = m)
      BY <1>4, <1>11, <3>1, <3>2, QueueGiven
    <3> QED
      BY <3>3
  <2>2. CASE ~(item.at > entry[e][item.relation].at)
    BY <1>3, <1>4, <1>6, <2>2, AtIsNat
  <2> QED
    BY <2>1, <2>2
<1>13. QueueBehind'
  <2> SUFFICES ASSUME NEW x \in Device, NEW n \in Range(queue'[x]) PROVE CommandBehind(n, x)'
    BY DEF QueueBehind
  <2>1. CASE n \in Range(queue[x])
    BY <1>4, <2>1, CommandStays DEF CInv, QueueBehind
  <2>2. CASE n = m
    BY <1>2, <1>3, <1>7, <1>11, <2>2 DEF FrameBehind, CommandBehind
  <2> QED
    BY <1>12, <2>1, <2>2
<1>14. WireBehind'
  <2> SUFFICES ASSUME NEW x \in Device, NEW y \in Device, <<x, y>> \in Ends,
                      NEW h \in Range(wire'[<<x, y>>])
               PROVE  FrameBehind(h, x)'
    BY DEF WireBehind
  <2>1. CASE h \in Range(wire[<<x, y>>])
    BY <1>4, <2>1, FrameStays DEF CInv, WireBehind
  <2>2. CASE h = g /\ x = d
    BY <1>2, <1>7, <1>9, <2>2 DEF FrameBehind
  <2>3. h \in Range(wire[<<x, y>>]) \/ (h = g /\ x = d)
    BY <1>5, <1>9
  <2> QED
    BY <2>1, <2>2, <2>3
<1>15. Told'
  <2> SUFFICES ASSUME NEW x \in Device, NEW y \in Device, <<x, y>> \in Ends,
                      stage'[<<x, y>>] = "reading", NEW r \in Relation, NEW at \in Nat,
                      at = entry'[x][r].at
               PROVE  Comes(x, y, r, at)'
    BY DEF Told
  <2>1. Comes(x, y, r, at)
    BY <1>2 DEF CInv, Told
  <2>2. \A n \in Range(queue[y]) : n \in Range(queue'[y])
    BY <1>12
  <2>3. \A h \in Range(wire[<<x, y>>]) :
            Carries(h, r, at) => h \in Range(wire'[<<x, y>>]) \/ Comes(x, y, r, at)'
    <3> SUFFICES ASSUME Carries(f, r, at), x = d, y = e PROVE Comes(x, y, r, at)'
      BY <1>5, <1>9
    <3>1. PICK other \in f.entries : other.relation = r /\ other.at >= at
      BY <1>2 DEF Carries
    <3>2. CASE other # item
      <4>1. g \in Range(wire'[<<x, y>>]) /\ other \in g.entries
        BY <1>9, <3>1, <3>2
      <4> QED
        BY <1>9, <3>1, <4>1 DEF Comes, Carries
    <3>3. CASE other = item
      <4>1. CASE m \in Range(queue'[e])
        BY <1>11, <3>1, <3>3, <4>1 DEF Comes, Brings
      <4>2. CASE entry[e][item.relation].at >= item.at
        <5>1. entry'[y][r].at >= at
          BY <1>2, <1>4, <1>6, <3>1, <3>3, <4>2, AtIsNat
        <5> QED
          BY <5>1 DEF Comes
      <4> QED
        BY <1>12, <4>1, <4>2
    <3> QED
      BY <3>2, <3>3
  <2> QED
    BY <1>4, <2>1, <2>2, <2>3, ComesStays
<1> QED
  BY <1>13, <1>14, <1>15

LEMMA ReceiveRequestConverges ==
    ASSUME CInv, IInv', NEW d \in Device, NEW e \in Device, <<d, e>> \in Ends,
           ReceiveRequest(d, e)
    PROVE  QueueBehind' /\ WireBehind' /\ Told'
<1>1. PICK f : f = Head(wire[<<d, e>>])
  OBVIOUS
<1>2. /\ wire[<<d, e>>] # <<>> /\ f.frame = "TagRequest"
      /\ wire' = [wire EXCEPT ![<<d, e>>] = Tail(@)]
      /\ UNCHANGED <<entry, queue, stage>>
  BY <1>1 DEF ReceiveRequest, Incoming, Reading, rows
<1>3. IInv
  BY DEF CInv
<1>4. Range(wire[<<d, e>>]) = {f} \cup Range(Tail(wire[<<d, e>>])) /\ Aside(f)
  BY <1>1, <1>2, <1>3, WireTaken DEF Aside
<1>5. /\ wire'[<<d, e>>] = Tail(wire[<<d, e>>])
      /\ \A l \in Ends \ {<<d, e>>} : wire'[l] = wire[l]
  BY <1>2, <1>3 DEF IInv, WireOK
<1>6. \A l \in Ends : /\ \A g \in Range(wire[l]) : g \in Range(wire'[l]) \/ Aside(g)
                      /\ \A g \in Range(wire'[l]) : g \in Range(wire[l]) \/ Aside(g)
  BY <1>4, <1>5
<1> QED
  BY <1>2, <1>6, AsideKeeps

-----------------------------------------------------------------------------
\* A link that breaks has to announce again.
LEMMA DownConverges ==
    ASSUME CInv, IInv', NEW broken, Down(broken),
           \A d \in Device : \/ queue'[d] = queue[d]
                             \/ queue'[d] = <<>> /\ \A e \in Device : {e, d} \in Tree => {e, d} \in broken
    PROVE  QueueBehind' /\ WireBehind' /\ Told'
<1>1. /\ IInv /\ Rises /\ UNCHANGED entry
      /\ stage' = [l \in Ends |-> IF {l[1], l[2]} \in broken THEN "down" ELSE stage[l]]
      /\ wire' = [l \in Ends |-> IF {l[1], l[2]} \in broken THEN <<>> ELSE wire[l]]
  BY AtIsNat DEF CInv, Rises, Down, rows
<1>2. Range(<<>>) = {}
  BY DEF Range
<1>3. QueueBehind'
  <2> SUFFICES ASSUME NEW x \in Device, NEW n \in Range(queue'[x]) PROVE CommandBehind(n, x)'
    BY DEF QueueBehind
  <2>1. n \in Range(queue[x]) /\ CommandBehind(n, x)
    BY <1>2 DEF CInv, QueueBehind
  <2> QED
    BY <1>1, <2>1, CommandStays
<1>4. WireBehind'
  <2> SUFFICES ASSUME NEW x \in Device, NEW y \in Device, <<x, y>> \in Ends,
                      NEW f \in Range(wire'[<<x, y>>])
               PROVE  FrameBehind(f, x)'
    BY DEF WireBehind
  <2>1. f \in Range(wire[<<x, y>>]) /\ FrameBehind(f, x)
    BY <1>1, <1>2 DEF CInv, WireBehind
  <2> QED
    BY <1>1, <2>1, FrameStays
<1>5. Told'
  <2> SUFFICES ASSUME NEW x \in Device, NEW y \in Device, <<x, y>> \in Ends,
                      stage'[<<x, y>>] = "reading", NEW r \in Relation, NEW at \in Nat,
                      at = entry'[x][r].at
               PROVE  Comes(x, y, r, at)'
    BY DEF Told
  <2>1. {x, y} \notin broken /\ stage[<<x, y>>] = "reading" /\ wire'[<<x, y>>] = wire[<<x, y>>]
    BY <1>1
  <2>2. queue'[y] = queue[y]
    BY <2>1 DEF Ends
  <2>3. Comes(x, y, r, at)
    BY <1>1, <2>1 DEF CInv, Told
  <2> QED
    BY <1>1, <2>1, <2>2, <2>3, ComesStays
<1> QED
  BY <1>3, <1>4, <1>5

-----------------------------------------------------------------------------
LEMMA InitConverges == Init => CInv
<1> SUFFICES ASSUME Init PROVE CInv
  OBVIOUS
<1>1. IInv
  BY InitIInv
<1>2. Range(<<>>) = {}
  BY DEF Range
<1>3. FactsDiffer /\ BlankRows /\ QueueBehind /\ WireBehind /\ Told
  BY <1>2 DEF Init, FactsDiffer, BlankRows, QueueBehind, WireBehind, Told
<1> QED
  BY <1>1, <1>3 DEF CInv

\* Whatever a user does, a change is submitted.
LEMMA UserSubmits ==
    ASSUME IInv, NEW d \in Device, NEW at \in Stamp, User(d, at)
    PROVE  \E c \in SoundChange(written') : Submit(d, c) /\ written \subseteq written'
<1>1. CASE CreateTag(d, at)
  <2>1. PICK t \in Tag, name \in Name, style \in Style :
            Submit(d, TagAdded(t, name, style, at)) /\ UNCHANGED written
    BY <1>1 DEF CreateTag
  <2>2. TagAdded(t, name, style, at) \in SoundChange(written')
    BY DEF TagAdded, Addition, At, SoundChange
  <2> QED
    BY <2>1, <2>2
<1>2. CASE RestoreTag(d, at)
  <2>1. PICK t \in Tag :
            /\ Submit(d, TagAdded(t, tag[d][t].name, tag[d][t].style, at))
            /\ UNCHANGED written
    BY <1>2 DEF RestoreTag
  <2>2. tag[d][t] \in Definition
    BY DEF IInv, RowsOK
  <2>3. TagAdded(t, tag[d][t].name, tag[d][t].style, at) \in SoundChange(written')
    BY <2>2 DEF TagAdded, Addition, At, Definition, SoundChange
  <2> QED
    BY <2>1, <2>3
<1>3. CASE ChangeTag(d, at)
  <2>1. PICK t \in Tag :
            /\ \/ \E name \in Name \ {tag[d][t].name} :
                     Submit(d, [kind |-> "TagRenamed", tag |-> t, name |-> name,
                                at |-> at, on |-> 0])
               \/ \E style \in Style \ {tag[d][t].style} :
                     Submit(d, [kind |-> "TagRestyled", tag |-> t, style |-> style,
                                at |-> at, on |-> 0])
               \/ Submit(d, [kind |-> "TagRemoved", tag |-> t, at |-> at, on |-> 0])
            /\ UNCHANGED written
    BY <1>3 DEF ChangeTag
  <2>2. PICK c \in PartChange : Submit(d, c)
    <3>1. CASE \E name \in Name \ {tag[d][t].name} :
                   Submit(d, [kind |-> "TagRenamed", tag |-> t, name |-> name,
                              at |-> at, on |-> 0])
      BY <3>1 DEF PartChange, At
    <3>2. CASE \E style \in Style \ {tag[d][t].style} :
                   Submit(d, [kind |-> "TagRestyled", tag |-> t, style |-> style,
                              at |-> at, on |-> 0])
      BY <3>2 DEF PartChange, At
    <3>3. CASE Submit(d, [kind |-> "TagRemoved", tag |-> t, at |-> at, on |-> 0])
      BY <3>3 DEF PartChange, At
    <3> QED
      BY <2>1, <3>1, <3>2, <3>3
  <2> QED
    BY <2>1, <2>2 DEF SoundChange
<1>4. CASE ChangeRelation(d, at)
  <2>1. PICK r \in Relation, kind \in {"Tagged", "Untagged"} :
            /\ Submit(d, [kind |-> kind, relation |-> r, at |-> at])
            /\ written' = written \cup {[relation |-> r, deleted |-> kind = "Untagged",
                                         at |-> at]}
    BY <1>4 DEF ChangeRelation
  <2>2. [kind |-> kind, relation |-> r, at |-> at] \in SoundChange(written')
    BY <2>1 DEF SoundChange, RelationChange, FactOf
  <2> QED
    BY <2>1, <2>2
<1> QED
  BY <1>1, <1>2, <1>3, <1>4 DEF User

LEMMA StepConverges == CInv /\ [Next]_vars => CInv'
<1> SUFFICES ASSUME CInv, [Next]_vars PROVE CInv'
  OBVIOUS
<1>1. IInv' /\ [EntryRows!Next]_<<entry, written>>
  BY StepIInv DEF CInv
<1>2. Rises /\ FactsDiffer' /\ BlankRows'
  BY <1>1, RowsRise DEF CInv
<1>3. QueueBehind' /\ WireBehind' /\ Told'
  <2>1. CASE UNCHANGED vars
    BY <1>1, <2>1, AsideKeeps DEF vars, rows, session, history
  <2>2. ASSUME NEW d \in Acting, NEW at \in Stamp, User(d, at)
        PROVE  QueueBehind' /\ WireBehind' /\ Told'
    <3>1. d \in Device /\ IInv
      BY TagAssumption DEF TagAssumption, CInv
    <3>2. PICK c \in SoundChange(written') : Submit(d, c) /\ written \subseteq written'
      BY <2>2, <3>1, UserSubmits
    <3> QED
      BY <1>1, <3>1, <3>2, SubmitConverges
  <2>3. ASSUME NEW d \in Device, Write(d)
        PROVE  QueueBehind' /\ WireBehind' /\ Told'
    BY <1>1, <1>2, <2>3, WriteRelationConverges, WriteDefinitionConverges DEF Write
  <2>4. ASSUME NEW d \in Device, Crash(d)
        PROVE  QueueBehind' /\ WireBehind' /\ Told'
    <3>1. PICK broken : broken = {l \in Tree : d \in l}
      OBVIOUS
    <3>2. Down(broken)
      BY <2>4, <3>1 DEF Crash
    <3>3. \A e \in Device : \/ queue'[e] = queue[e]
                            \/ /\ queue'[e] = <<>>
                               /\ \A x \in Device : {x, e} \in Tree => {x, e} \in broken
      <4>1. queue' = [queue EXCEPT ![d] = <<>>]
        BY <2>4 DEF Crash
      <4>2. \A x \in Device : {x, d} \in Tree => {x, d} \in broken
        BY <3>1
      <4> QED
        BY <4>1, <4>2 DEF CInv, IInv, QueueOK
    <3> QED
      BY <1>1, <3>2, <3>3, DownConverges
  <2>5. ASSUME NEW l \in Ends, Session(l[1], l[2])
        PROVE  QueueBehind' /\ WireBehind' /\ Told'
    <3>1. PICK d \in Device, e \in Device : d = l[1] /\ e = l[2] /\ <<d, e>> \in Ends /\ <<e, d>> \in Ends
      BY EndsOK
    <3>2. Session(d, e)
      BY <2>5, <3>1
    <3> QED
      BY <1>1, <3>1, <3>2, ComingUpConverges, AnnounceRelationsConverges, ReceiveChangeConverges,
         ReceiveDefinitionConverges, ReceiveRelationConverges, ReceiveRequestConverges,
         SendAnswerConverges DEF Session
  <2>6. ASSUME NEW l \in Ends, Disconnect(l[1], l[2])
        PROVE  QueueBehind' /\ WireBehind' /\ Told'
    <3>1. Down({{l[1], l[2]}}) /\ \A e \in Device : queue'[e] = queue[e]
      BY <2>6 DEF Disconnect
    <3> QED
      BY <1>1, <3>1, DownConverges
  <2> QED
    BY <2>1, <2>2, <2>3, <2>4, <2>5, <2>6 DEF Next
<1> QED
  BY <1>1, <1>2, <1>3 DEF CInv

\* The links join all devices.
Connected == \A S \in SUBSET Device :
                 S # {} /\ S # Device => \E d \in S, e \in Device \ S : {d, e} \in Tree

\* When all is quiet, neighbours have heard everything from each other.
LEMMA QuietNeighbours ==
    ASSUME CInv, Quiet, NEW d \in Device, NEW e \in Device, <<d, e>> \in Ends, <<e, d>> \in Ends
    PROVE  entry[d] = entry[e]
<1>1. /\ IInv /\ queue[d] = <<>> /\ queue[e] = <<>>
      /\ wire[<<d, e>>] = <<>> /\ wire[<<e, d>>] = <<>>
      /\ stage[<<d, e>>] = "reading" /\ stage[<<e, d>>] = "reading"
  BY DEF CInv, Quiet
<1>2. Range(<<>>) = {}
  BY DEF Range
<1>3. ASSUME NEW r \in Relation
      PROVE  entry[d][r] = entry[e][r]
  <2>1. /\ entry[d][r] \in Row /\ entry[e][r] \in Row
        /\ entry[d][r].at \in Nat /\ entry[e][r].at \in Nat
    BY <1>1, AtIsNat
  <2>2. Comes(d, e, r, entry[d][r].at) /\ Comes(e, d, r, entry[e][r].at)
    BY <1>1, <2>1 DEF CInv, Told
  <2>3. entry[e][r].at >= entry[d][r].at /\ entry[d][r].at >= entry[e][r].at
    BY <1>1, <1>2, <2>2 DEF Comes
  <2>4. entry[d][r].at = entry[e][r].at
    BY <2>1, <2>3
  <2>5. CASE entry[d][r].at = 0
    BY <2>4, <2>5 DEF CInv, BlankRows
  <2>6. CASE entry[d][r].at # 0
    <3>1. /\ RowSound(r, entry[d][r]) /\ RowSound(r, entry[e][r])
          /\ FactsDiffer
      BY <1>1 DEF CInv, IInv, EntriesSound
    <3>2. entry[d][r].deleted = entry[e][r].deleted
      BY <2>4, <2>6, <3>1 DEF RowSound, FactsDiffer
    <3> QED
      BY <2>1, <2>4, <3>2 DEF Row
  <2> QED
    BY <2>5, <2>6
<1>4. entry[d] \in [Relation -> Row] /\ entry[e] \in [Relation -> Row]
  BY <1>1 DEF IInv, RowsOK
<1> QED
  BY <1>3, <1>4

\* What is the same at the two ends of each link is the same everywhere.
LEMMA AllAlike ==
    ASSUME Connected, NEW held, \A d, e \in Device : <<d, e>> \in Ends => held[d] = held[e]
    PROVE  \A d, e \in Device : held[d] = held[e]
<1> SUFFICES ASSUME NEW d \in Device PROVE \A e \in Device : held[d] = held[e]
  OBVIOUS
<1> DEFINE same == {e \in Device : held[e] = held[d]}
<1>1. d \in same /\ same \in SUBSET Device
  OBVIOUS
<1>2. ASSUME NEW x \in same, NEW y \in Device \ same, {x, y} \in Tree
      PROVE  FALSE
  <2>1. x \in Device /\ <<x, y>> \in Ends
    BY <1>2 DEF Ends
  <2>2. held[x] = held[y]
    BY <2>1
  <2> QED
    BY <2>2
<1>3. same = Device
  <2> HIDE DEF same
  <2> QED
    BY <1>1, <1>2 DEF Connected
<1> QED
  BY <1>3

\* Once everything sent has been applied all devices hold the same row for each
\* relationship, tombstones included: on any connected links, whatever was
\* changed while they were down or coming up, whatever broke and was killed, on
\* clocks that disagree (catalog/tagging.rs, store/entries.rs, peer/plan_tags.rs).
THEOREM RelationsConverge == ASSUME Connected PROVE Spec => []QuietRelations
<1>1. CInv => QuietRelations
  <2> SUFFICES ASSUME CInv, Quiet PROVE \A d, e \in Device : entry[d] = entry[e]
    BY DEF QuietRelations
  <2>1. \A d, e \in Device : <<d, e>> \in Ends => entry[d] = entry[e]
    BY QuietNeighbours, EndsOK
  <2> QED
    BY <2>1, AllAlike
<1> QED
  BY <1>1, InitConverges, StepConverges, PTL DEF Spec

-----------------------------------------------------------------------------
(***************************************************************************)
(* Definitions converge, as long as nothing is contested.                  *)
(*                                                                         *)
(* That they get everywhere is as for relationships, but for a detour: a   *)
(* device that hears of a later definition asks for it, and the answer is  *)
(* made when the question is read (TagComes).  That equal stamps mean      *)
(* equal definitions is new, as a change may be of a part: there is a      *)
(* ledger that says what each tag is under each stamp in use (Ledger).  A  *)
(* change of a part enters it when the device it was made on writes it,    *)
(* and until then no one else uses its stamp (FreshApart).                 *)
(***************************************************************************)
TagBrings(change, t, at) ==
    change.kind # "nothing" /\ ~OfRelation(change) /\ change.tag = t /\ change.at >= at

TagCarries(f, t, at) ==
    \/ f.frame = "Change" /\ TagBrings(f.change, t, at)
    \/ f.frame = "Definitions" /\ \E item \in f.entries : item.tag = t /\ item.at >= at

Asks(f, t) == f.frame = "TagRequest" /\ f.tag = t

\* What d knows of the tag at the stamp has reached e, is on its way to it, or
\* is asked for.
TagComes(d, e, t, at) ==
    \/ tag[e][t].at >= at
    \/ \E m \in Range(queue[e]) : TagBrings(m.change, t, at)
    \/ \E f \in Range(wire[<<d, e>>]) : TagCarries(f, t, at)
    \/ \E f \in Range(wire[<<e, d>>]) : Asks(f, t)
    \/ TagBrings(answer[<<d, e>>], t, at)

TagTold ==
    \A d, e \in Device : <<d, e>> \in Ends /\ stage[<<d, e>>] \in {"defined", "reading"} =>
        \A t \in Tag, at \in Nat : at = tag[d][t].at => TagComes(d, e, t, at)

\* Whoever sends a change of a definition holds it himself, or something later.
Past(d, change) ==
    change.kind # "nothing" /\ ~OfRelation(change) => tag[d][change.tag].at >= change.at

TagFrameBehind(f, d) ==
    /\ f.frame = "Change" => Past(d, f.change)
    /\ f.frame = "Definitions" => \A item \in f.entries : tag[d][item.tag].at >= item.at

TagCommandBehind(m, d) == m.from # d => Past(m.from, m.change)

TagBehind ==
    /\ \A d \in Device : \A m \in Range(queue[d]) : TagCommandBehind(m, d)
    /\ \A d, e \in Device : <<d, e>> \in Ends =>
           /\ \A f \in Range(wire[<<d, e>>]) : TagFrameBehind(f, d)
           /\ Past(d, answer[<<d, e>>])

BlankTags == \A d \in Device, t \in Tag : tag[d][t].at = 0 => tag[d][t] = NoTag

\* A change of a part that was made here and is not written yet.
Fresh(m, d) == m.from = d /\ InPart(m.change)

Apart(commands, d) ==
    \A i, j \in DOMAIN commands :
        i # j /\ Fresh(commands[i], d) /\ Fresh(commands[j], d) =>
            commands[i].change.at # commands[j].change.at

FreshApart ==
    /\ \A d \in Device : \A m \in Range(queue[d]) : Fresh(m, d) => m.change.at \in stamps
    /\ \A d \in Device : Apart(queue[d], d)
    /\ \A d, e \in Device : d # e =>
           \A m \in Range(queue[d]), n \in Range(queue[e]) :
               Fresh(m, d) /\ Fresh(n, e) => m.change.at # n.change.at

Ledgers == [Tag -> [At -> Definition]]

\* What a change makes of the row it is for is what the ledger says.
ChangeIn(L, U, change) ==
    /\ change.kind = "TagAdded" /\ change.at > 0 =>
           /\ change.at \in U
           /\ L[change.tag][change.at] = [name |-> change.name, style |-> change.style,
                                          deleted |-> FALSE, at |-> change.at]
    /\ InPart(change) /\ change.on > 0 /\ change.at > change.on =>
           /\ change.at \in U /\ change.on \in U
           /\ Defined(L[change.tag][change.on], change) = L[change.tag][change.at]

RowIn(L, U, t, row) == row.at > 0 => row.at \in U /\ row = L[t][row.at]

CommandIn(L, U, m, d) == IF Fresh(m, d) THEN m.change.at \notin U ELSE ChangeIn(L, U, m.change)

FrameIn(L, U, f) == f.frame = "Change" => ChangeIn(L, U, f.change)

\* What a manifest tells of a deletion.
Deletion(t, at, on) == [kind |-> "TagRemoved", tag |-> t, at |-> at, on |-> on]

\* L says what the tags are under the stamps of U.
Ledger(L, U) ==
    /\ L \in Ledgers /\ U \subseteq stamps \cup {1}
    /\ \A d \in Device, t \in Tag : RowIn(L, U, t, tag[d][t])
    /\ \A d \in Device : \A m \in Range(queue[d]) : CommandIn(L, U, m, d)
    /\ \A d, e \in Device : <<d, e>> \in Ends =>
           /\ \A f \in Range(wire[<<d, e>>]) : FrameIn(L, U, f)
           /\ ChangeIn(L, U, answer[<<d, e>>])
    /\ \A t \in Tag, at \in At : ChangeIn(L, U, Deletion(t, at, base[t][at]))

\* Another ledger that says the same, and more.
Extends(L, U, M, V) == U \subseteq V /\ \A t \in Tag, at \in U : M[t][at] = L[t][at]

Agreed == TagBehind /\ TagTold /\ \E L, U : Ledger(L, U)

DInv == IInv /\ BlankTags /\ FreshApart /\ (contested \/ Agreed)

TagsRise == \A d \in Device, t \in Tag : tag'[d][t].at >= tag[d][t].at

-----------------------------------------------------------------------------
LEMMA TagAtIsNat ==
    ASSUME IInv
    PROVE  \A d \in Device, t \in Tag : /\ tag[d][t] \in Definition
                                        /\ tag[d][t].at \in At /\ tag[d][t].at \in Nat
BY StampsArePositive DEF IInv, RowsOK, Definition

LEMMA TagAtIsNatThen ==
    ASSUME IInv'
    PROVE  \A d \in Device, t \in Tag : /\ tag'[d][t] \in Definition
                                        /\ tag'[d][t].at \in At /\ tag'[d][t].at \in Nat
BY StampsArePositive DEF IInv, RowsOK, Definition

\* Changes of definitions: whole or in part.
LEMMA AboutTags ==
    ASSUME NEW w, NEW c \in SoundChange(w), ~OfRelation(c)
    PROVE  /\ c \in Addition \cup PartChange /\ c.kind # "nothing"
           /\ c.tag \in Tag /\ c.at \in At /\ c.at \in Nat
           /\ c.kind = "TagAdded" => c \in Addition
           /\ c.kind # "TagAdded" => InPart(c)
           /\ InPart(c) => c \in PartChange /\ c.on \in At /\ c.on \in Nat
<1>1. c \in Addition \cup PartChange
  BY ChangeCases
<1>2. At \subseteq Nat
  BY StampsArePositive
<1>3. CASE c \in Addition
  BY <1>2, <1>3 DEF Addition, InPart
<1>4. CASE c \in PartChange
  BY <1>2, <1>4 DEF PartChange, InPart
<1> QED
  BY <1>1, <1>3, <1>4

\* A change leaves the row as it was, because it is not later or nothing is
\* known, or it takes the row to its stamp.
LEMMA DefinedCases ==
    ASSUME NEW w, NEW c \in SoundChange(w), ~OfRelation(c), NEW old \in Definition
    PROVE  \/ /\ Defined(old, c) = old
              /\ c.at <= old.at \/ (InPart(c) /\ ~Known(old))
           \/ Defined(old, c).at = c.at /\ c.at > old.at
<1>1. /\ c \in Addition \cup PartChange /\ c.at \in Nat
      /\ old.at \in Nat
  BY AboutTags, StampsArePositive DEF Definition
<1>2. CASE c \in Addition
  BY <1>1, <1>2 DEF Addition, Defined, AddTag
<1>3. CASE c \in [kind : {"TagRenamed"}, tag : Tag, name : Name, at : At, on : At]
  BY <1>1, <1>3 DEF Defined, UpdateTagName, Newer, InPart, Definition
<1>4. CASE c \in [kind : {"TagRestyled"}, tag : Tag, style : Style, at : At, on : At]
  BY <1>1, <1>4 DEF Defined, UpdateTagStyle, Newer, InPart, Definition
<1>5. CASE c \in [kind : {"TagRemoved"}, tag : Tag, at : At, on : At]
  BY <1>1, <1>5 DEF Defined, RemoveTag, Newer, InPart, Definition
<1> QED
  BY <1>1, <1>2, <1>3, <1>4, <1>5 DEF PartChange

\* A change that does not miss leaves no earlier row.
LEMMA DefinedReaches ==
    ASSUME NEW w, NEW c \in SoundChange(w), ~OfRelation(c), NEW old \in Definition,
           ~Misses(old, c)
    PROVE  Defined(old, c).at \in Nat /\ Defined(old, c).at >= c.at /\ Defined(old, c).at >= old.at
<1>1. c.at \in Nat /\ old.at \in Nat
  BY AboutTags, StampsArePositive DEF Definition
<1>2. CASE Defined(old, c) = old
  BY <1>1, <1>2, DefinedCases DEF Misses
<1>3. CASE Defined(old, c).at = c.at /\ c.at > old.at
  BY <1>1, <1>3
<1> QED
  BY <1>2, <1>3, DefinedCases

\* If the row and the change are in the ledger, so is what the change makes of it.
LEMMA DefinedIn ==
    ASSUME NEW w, NEW c \in SoundChange(w), ~OfRelation(c), NEW old \in Definition,
           NEW L \in Ledgers, NEW U, RowIn(L, U, c.tag, old), ChangeIn(L, U, c), ~Misses(old, c)
    PROVE  RowIn(L, U, c.tag, Defined(old, c))
<1>1. /\ c \in Addition \cup PartChange /\ c.at \in Nat
      /\ old.at \in Nat
      /\ c.kind = "TagAdded" => c \in Addition
      /\ c.kind # "TagAdded" => InPart(c)
      /\ InPart(c) => c.on \in Nat
  BY AboutTags, StampsArePositive DEF Definition
<1>2. CASE Defined(old, c) = old
  BY <1>2
<1>3. CASE Defined(old, c).at = c.at /\ c.at > old.at
  <2>1. CASE c.kind = "TagAdded"
    <3>1. Defined(old, c) = [name |-> c.name, style |-> c.style, deleted |-> FALSE, at |-> c.at]
      BY <1>3, <2>1 DEF Defined, AddTag
    <3>2. c.at > 0
      BY <1>1, <1>3
    <3> QED
      BY <1>3, <2>1, <3>1, <3>2 DEF ChangeIn, RowIn
  <2>2. CASE c.kind # "TagAdded"
    <3>1. InPart(c) /\ old.at > 0 /\ old.at = c.on
      BY <1>1, <1>3, <2>2 DEF Misses, Known
    <3>2. old = L[c.tag][c.on] /\ c.at \in U /\ Defined(L[c.tag][c.on], c) = L[c.tag][c.at]
      BY <1>3, <3>1 DEF RowIn, ChangeIn
    <3> QED
      BY <1>3, <3>2 DEF RowIn
  <2> QED
    BY <2>1, <2>2
<1> QED
  BY <1>2, <1>3, DefinedCases

\* What is in a ledger is in one that says more.
LEMMA ChangeStaysIn ==
    ASSUME NEW w, NEW c \in SoundChange(w), NEW L, NEW U, NEW M, NEW V,
           Extends(L, U, M, V), ChangeIn(L, U, c)
    PROVE  ChangeIn(M, V, c)
<1>1. CASE OfRelation(c)
  BY <1>1 DEF ChangeIn, OfRelation, InPart
<1>2. CASE ~OfRelation(c)
  <2>1. c.tag \in Tag
    BY <1>2, AboutTags
  <2>2. c.kind = "TagAdded" /\ c.at > 0 =>
            /\ c.at \in V
            /\ M[c.tag][c.at] = [name |-> c.name, style |-> c.style,
                                 deleted |-> FALSE, at |-> c.at]
    BY <2>1 DEF ChangeIn, Extends
  <2>3. InPart(c) /\ c.on > 0 /\ c.at > c.on =>
            /\ c.at \in V /\ c.on \in V
            /\ Defined(M[c.tag][c.on], c) = M[c.tag][c.at]
    BY <2>1 DEF ChangeIn, Extends
  <2> QED
    BY <2>2, <2>3 DEF ChangeIn
<1> QED
  BY <1>1, <1>2

LEMMA RowStaysIn ==
    ASSUME NEW t \in Tag, NEW row, NEW L, NEW U, NEW M, NEW V,
           Extends(L, U, M, V), RowIn(L, U, t, row)
    PROVE  RowIn(M, V, t, row)
BY DEF RowIn, Extends

-----------------------------------------------------------------------------
(* What a step has to show.                                                *)

LEMMA PastStays ==
    ASSUME IInv, IInv', TagsRise, NEW d \in Device,
           NEW c \in SoundChange(written) \cup {Nothing}, Past(d, c)
    PROVE  Past(d, c)'
<1> SUFFICES ASSUME c.kind # "nothing", ~OfRelation(c)
             PROVE  tag'[d][c.tag].at >= c.at
  BY DEF Past
<1>1. c \in SoundChange(written)
  BY DEF Nothing
<1>2. c.tag \in Tag /\ c.at \in Nat
  BY <1>1, AboutTags
<1>3. tag[d][c.tag].at >= c.at
  BY DEF Past
<1>4. \A t \in Tag : /\ tag[d][t].at \in Nat /\ tag'[d][t].at \in Nat
                     /\ tag'[d][t].at >= tag[d][t].at
  BY TagAtIsNat, TagAtIsNatThen DEF TagsRise
<1> QED
  BY <1>2, <1>3, <1>4

LEMMA FrameStaysBehind ==
    ASSUME IInv, IInv', TagsRise, NEW d \in Device, NEW f \in SoundFrame(written),
           TagFrameBehind(f, d)
    PROVE  TagFrameBehind(f, d)'
<1>1. f.frame = "Change" => Past(d, f.change)'
  BY PastStays, FrameCases DEF TagFrameBehind
<1>2. ASSUME f.frame = "Definitions", NEW item \in f.entries
      PROVE  tag'[d][item.tag].at >= item.at
  <2>1. item.tag \in Tag /\ item.at \in Nat
    <3>1. f.entries \subseteq Item
      BY <1>2, FrameCases
    <3> QED
      BY <1>2, <3>1, StampsArePositive DEF Item
  <2>2. tag[d][item.tag].at >= item.at
    BY <1>2 DEF TagFrameBehind
  <2>3. \A t \in Tag : /\ tag[d][t].at \in Nat /\ tag'[d][t].at \in Nat
                       /\ tag'[d][t].at >= tag[d][t].at
    BY TagAtIsNat, TagAtIsNatThen DEF TagsRise
  <2> QED
    BY <2>1, <2>2, <2>3
<1> QED
  BY <1>1, <1>2 DEF TagFrameBehind

LEMMA BehindKeeps ==
    ASSUME IInv, IInv', TagsRise, TagBehind,
           \A d \in Device : \A m \in Range(queue'[d]) :
               m \in Range(queue[d]) \/ TagCommandBehind(m, d)',
           \A d, e \in Device : <<d, e>> \in Ends =>
               \A f \in Range(wire'[<<d, e>>]) :
                   f \in Range(wire[<<d, e>>]) \/ TagFrameBehind(f, d)',
           \A d, e \in Device : <<d, e>> \in Ends =>
               answer'[<<d, e>>] = answer[<<d, e>>] \/ Past(d, answer[<<d, e>>])'
    PROVE  TagBehind'
<1>1. ASSUME NEW d \in Device, NEW m \in Range(queue'[d])
      PROVE  TagCommandBehind(m, d)'
  <2>1. CASE m \in Range(queue[d])
    <3>1. m.change \in SoundChange(written) /\ m.from \in Device
      BY <2>1, CommandAtIsNat DEF SoundCommand
    <3>2. TagCommandBehind(m, d)
      BY <2>1 DEF TagBehind
    <3> QED
      BY <3>1, <3>2, PastStays DEF TagCommandBehind
  <2> QED
    BY <2>1
<1>2. ASSUME NEW d \in Device, NEW e \in Device, <<d, e>> \in Ends,
             NEW f \in Range(wire'[<<d, e>>])
      PROVE  TagFrameBehind(f, d)'
  <2>1. CASE f \in Range(wire[<<d, e>>])
    <3>1. f \in SoundFrame(written)
      BY <1>2, <2>1, FrameAtIsNat
    <3>2. TagFrameBehind(f, d)
      BY <1>2, <2>1 DEF TagBehind
    <3> QED
      BY <3>1, <3>2, FrameStaysBehind
  <2> QED
    BY <1>2, <2>1
<1>3. ASSUME NEW d \in Device, NEW e \in Device, <<d, e>> \in Ends
      PROVE  Past(d, answer[<<d, e>>])'
  <2>1. CASE answer'[<<d, e>>] = answer[<<d, e>>]
    <3>1. PICK c : c = answer[<<d, e>>]
      OBVIOUS
    <3>2. c \in SoundChange(written) \cup {Nothing}
      BY <1>3, <3>1 DEF IInv, SessionOK, SoundChange
    <3>3. Past(d, c)
      BY <1>3, <3>1 DEF TagBehind
    <3>4. Past(d, c)'
      BY <3>2, <3>3, PastStays
    <3> QED
      BY <2>1, <3>1, <3>4 DEF Past
  <2> QED
    BY <1>3, <2>1
<1> QED
  BY <1>1, <1>2, <1>3 DEF TagBehind

LEMMA TagComesStays ==
    ASSUME IInv, IInv', TagsRise, NEW d \in Device, NEW e \in Device, <<d, e>> \in Ends,
           NEW t \in Tag, NEW at \in Nat, TagComes(d, e, t, at),
           \A m \in Range(queue[e]) :
               TagBrings(m.change, t, at) => m \in Range(queue'[e]) \/ TagComes(d, e, t, at)',
           \A f \in Range(wire[<<d, e>>]) :
               TagCarries(f, t, at) => f \in Range(wire'[<<d, e>>]) \/ TagComes(d, e, t, at)',
           \A f \in Range(wire[<<e, d>>]) :
               Asks(f, t) => f \in Range(wire'[<<e, d>>]) \/ TagComes(d, e, t, at)',
           TagBrings(answer[<<d, e>>], t, at) =>
               answer'[<<d, e>>] = answer[<<d, e>>] \/ TagComes(d, e, t, at)'
    PROVE  TagComes(d, e, t, at)'
<1>1. CASE tag[e][t].at >= at
  <2>1. tag'[e][t].at >= tag[e][t].at
    BY DEF TagsRise
  <2>2. tag[e][t].at \in Nat /\ tag'[e][t].at \in Nat
    BY TagAtIsNat, TagAtIsNatThen
  <2>3. tag'[e][t].at >= at
    BY <1>1, <2>1, <2>2
  <2> QED
    BY <2>3 DEF TagComes
<1>2. CASE \E m \in Range(queue[e]) : TagBrings(m.change, t, at)
  BY <1>2 DEF TagComes
<1>3. CASE \E f \in Range(wire[<<d, e>>]) : TagCarries(f, t, at)
  BY <1>3 DEF TagComes
<1>4. CASE \E f \in Range(wire[<<e, d>>]) : Asks(f, t)
  BY <1>4 DEF TagComes
<1>5. CASE TagBrings(answer[<<d, e>>], t, at)
  BY <1>5 DEF TagComes
<1> QED
  BY <1>1, <1>2, <1>3, <1>4, <1>5 DEF TagComes

LEMMA LedgerKeeps ==
    ASSUME IInv, IInv', NEW L, NEW U, Ledger(L, U), NEW M \in Ledgers, NEW V,
           Extends(L, U, M, V), V \subseteq stamps' \cup {1},
           \A d \in Device, t \in Tag :
               tag'[d][t] = tag[d][t] \/ RowIn(M, V, t, tag'[d][t]),
           \A d \in Device : \A m \in Range(queue'[d]) :
               \/ m \in Range(queue[d]) /\ (Fresh(m, d) => m.change.at \notin V)
               \/ CommandIn(M, V, m, d),
           \A d, e \in Device : <<d, e>> \in Ends =>
               \A f \in Range(wire'[<<d, e>>]) :
                   f \in Range(wire[<<d, e>>]) \/ FrameIn(M, V, f),
           \A d, e \in Device : <<d, e>> \in Ends =>
               answer'[<<d, e>>] = answer[<<d, e>>] \/ ChangeIn(M, V, answer'[<<d, e>>]),
           \A t \in Tag, at \in At :
               base'[t][at] = base[t][at] \/ ChangeIn(M, V, Deletion(t, at, base'[t][at]))
    PROVE  Ledger(M, V)'
<1>1. ASSUME NEW d \in Device, NEW t \in Tag
      PROVE  RowIn(M, V, t, tag'[d][t])
  <2>1. RowIn(L, U, t, tag[d][t])
    BY DEF Ledger
  <2>2. RowIn(M, V, t, tag[d][t])
    BY <2>1, RowStaysIn
  <2> QED
    BY <2>2
<1>2. ASSUME NEW d \in Device, NEW m \in Range(queue'[d])
      PROVE  CommandIn(M, V, m, d)
  <2>1. CASE m \in Range(queue[d]) /\ (Fresh(m, d) => m.change.at \notin V)
    <3>1. m.change \in SoundChange(written)
      BY <2>1, CommandAtIsNat DEF SoundCommand
    <3>2. CommandIn(L, U, m, d)
      BY <2>1 DEF Ledger
    <3>3. CASE Fresh(m, d)
      BY <2>1, <3>3 DEF CommandIn
    <3>4. CASE ~Fresh(m, d)
      <4>1. ChangeIn(L, U, m.change)
        BY <3>2, <3>4 DEF CommandIn
      <4>2. ChangeIn(M, V, m.change)
        BY <3>1, <4>1, ChangeStaysIn
      <4> QED
        BY <3>4, <4>2 DEF CommandIn
    <3> QED
      BY <3>3, <3>4
  <2> QED
    BY <2>1
<1>3. ASSUME NEW d \in Device, NEW e \in Device, <<d, e>> \in Ends
      PROVE  /\ \A f \in Range(wire'[<<d, e>>]) : FrameIn(M, V, f)
             /\ ChangeIn(M, V, answer'[<<d, e>>])
  <2>1. ASSUME NEW f \in Range(wire[<<d, e>>]) PROVE FrameIn(M, V, f)
    <3> SUFFICES ASSUME f.frame = "Change" PROVE ChangeIn(M, V, f.change)
      BY DEF FrameIn
    <3>1. f.change \in SoundChange(written)
      BY <1>3, FrameAtIsNat, FrameCases
    <3>2. ChangeIn(L, U, f.change)
      BY <1>3 DEF Ledger, FrameIn
    <3> QED
      BY <3>1, <3>2, ChangeStaysIn
  <2>2. ChangeIn(M, V, answer[<<d, e>>])
    <3>1. PICK c : c = answer[<<d, e>>]
      OBVIOUS
    <3>2. ChangeIn(L, U, c) /\ c \in Addition \cup {Nothing}
      BY <1>3, <3>1 DEF Ledger, IInv, SessionOK
    <3>3. CASE c = Nothing
      BY <3>1, <3>3 DEF ChangeIn, Nothing, InPart
    <3>4. CASE c \in Addition
      <4>1. c \in SoundChange(written)
        BY <3>4 DEF SoundChange
      <4> QED
        BY <3>1, <3>2, <4>1, ChangeStaysIn
    <3> QED
      BY <3>2, <3>3, <3>4
  <2> QED
    BY <1>3, <2>1, <2>2
<1>4. ASSUME NEW t \in Tag, NEW at \in At
      PROVE  ChangeIn(M, V, Deletion(t, at, base'[t][at]))
  <2>1. CASE base'[t][at] = base[t][at]
    <3>1. PICK c : c = Deletion(t, at, base[t][at])
      OBVIOUS
    <3>2. base[t][at] \in At
      BY DEF IInv, FactsOK
    <3>3. c \in SoundChange(written)
      BY <3>1, <3>2 DEF Deletion, SoundChange, PartChange
    <3>4. ChangeIn(L, U, c)
      BY <3>1 DEF Ledger
    <3>5. ChangeIn(M, V, c)
      BY <3>3, <3>4, ChangeStaysIn
    <3> QED
      BY <2>1, <3>1, <3>5
  <2> QED
    BY <2>1
<1> QED
  BY <1>1, <1>2, <1>3, <1>4 DEF Ledger, RowIn, CommandIn, ChangeIn, FrameIn, Fresh, Deletion

-----------------------------------------------------------------------------
(* Changes of a part keep their stamps to themselves until they are written. *)

LEMMA ApartTail ==
    ASSUME NEW S, NEW q \in Seq(S), q # <<>>, NEW d, Apart(q, d)
    PROVE  /\ Apart(Tail(q), d)
           /\ \A m \in Range(Tail(q)) : Fresh(m, d) /\ Fresh(Head(q), d) =>
                  m.change.at # Head(q).change.at
<1>1. /\ DOMAIN q = 1..Len(q) /\ DOMAIN Tail(q) = 1..(Len(q) - 1)
      /\ Len(q) \in Nat /\ Len(q) > 0
      /\ Head(q) = q[1] /\ \A i \in 1..(Len(q) - 1) : Tail(q)[i] = q[i + 1]
  OBVIOUS
<1>2. \A i, j \in DOMAIN q :
          i # j /\ Fresh(q[i], d) /\ Fresh(q[j], d) => q[i].change.at # q[j].change.at
  BY DEF Apart
<1>3. PICK t : t = Tail(q)
  OBVIOUS
<1>4. ASSUME NEW i \in DOMAIN t
      PROVE  i + 1 \in DOMAIN q /\ i + 1 # 1 /\ 1 \in DOMAIN q /\ t[i] = q[i + 1]
  BY <1>1, <1>3
<1>5. ASSUME NEW i \in DOMAIN t, NEW j \in DOMAIN t, i # j, Fresh(t[i], d), Fresh(t[j], d)
      PROVE  t[i].change.at # t[j].change.at
  <2>1. i + 1 # j + 1
    BY <1>1, <1>3, <1>5
  <2> QED
    BY <1>2, <1>4, <1>5, <2>1
<1>6. ASSUME NEW i \in DOMAIN t, Fresh(t[i], d), Fresh(Head(q), d)
      PROVE  t[i].change.at # Head(q).change.at
  BY <1>1, <1>2, <1>4, <1>6
<1> QED
  BY <1>3, <1>5, <1>6 DEF Apart, Range

LEMMA ApartAppend ==
    ASSUME NEW S, NEW q \in Seq(S), NEW m \in S, NEW d, Apart(q, d),
           \A n \in Range(q) : Fresh(n, d) /\ Fresh(m, d) => n.change.at # m.change.at
    PROVE  Apart(Append(q, m), d)
<1>1. PICK t : t = Append(q, m)
  OBVIOUS
<1>2. \A i \in DOMAIN t : (i \in DOMAIN q /\ t[i] = q[i]) \/ (i = Len(q) + 1 /\ t[i] = m)
  BY <1>1
<1>3. \A i \in DOMAIN q : q[i] \in Range(q)
  BY DEF Range
<1>4. ASSUME NEW i \in DOMAIN t, NEW j \in DOMAIN t, i # j, Fresh(t[i], d), Fresh(t[j], d)
      PROVE  t[i].change.at # t[j].change.at
  <2>1. CASE i \in DOMAIN q /\ t[i] = q[i] /\ j \in DOMAIN q /\ t[j] = q[j]
    BY <1>4, <2>1 DEF Apart
  <2>2. CASE i \in DOMAIN q /\ t[i] = q[i] /\ t[j] = m
    BY <1>3, <1>4, <2>2
  <2>3. CASE t[i] = m /\ j \in DOMAIN q /\ t[j] = q[j]
    BY <1>3, <1>4, <2>3
  <2> QED
    BY <1>2, <1>4, <2>1, <2>2, <2>3
<1> QED
  BY <1>1, <1>4 DEF Apart

\* Queues that get shorter.
LEMMA FewerApart ==
    ASSUME IInv, FreshApart, stamps \subseteq stamps',
           \A x \in Device : \/ queue'[x] = queue[x]
                             \/ queue'[x] = <<>>
                             \/ queue[x] # <<>> /\ queue'[x] = Tail(queue[x])
    PROVE  FreshApart'
<1>1. \A x \in Device : queue[x] \in Seq(SoundCommand(written))
  BY DEF IInv, QueueOK
<1>2. ASSUME NEW x \in Device
      PROVE  Apart(queue'[x], x) /\ Range(queue'[x]) \subseteq Range(queue[x])
  <2>1. CASE queue'[x] = queue[x]
    BY <2>1 DEF FreshApart
  <2>2. CASE queue'[x] = <<>>
    BY <2>2 DEF Apart, Range
  <2>3. CASE queue[x] # <<>> /\ queue'[x] = Tail(queue[x])
    <3>1. Apart(queue[x], x)
      BY DEF FreshApart
    <3>2. Apart(Tail(queue[x]), x)
      BY <1>1, <2>3, <3>1, ApartTail
    <3>3. Range(Tail(queue[x])) \subseteq Range(queue[x])
      BY <1>1, <2>3, RangeTail
    <3> QED
      BY <2>3, <3>2, <3>3
  <2> QED
    BY <2>1, <2>2, <2>3
<1> QED
  BY <1>2 DEF FreshApart, Apart, Fresh

\* A queue that gets a command.
LEMMA MoreApart ==
    ASSUME IInv, IInv', FreshApart, stamps \subseteq stamps', written \subseteq written',
           NEW e \in Device, NEW m \in SoundCommand(written'),
           queue' = [queue EXCEPT ![e] = Append(@, m)],
           Fresh(m, e) => m.change.at \in stamps' \ stamps
    PROVE  FreshApart'
<1>1. queue \in [Device -> Seq(SoundCommand(written'))]
  BY Monotone DEF IInv, QueueOK
<1>2. queue'[e] = Append(queue[e], m) /\ \A d \in Device \ {e} : queue'[d] = queue[d]
  BY <1>1
<1>3. \A d \in Device : \A n \in Range(queue'[d]) : n \in Range(queue[d]) \/ (d = e /\ n = m)
  BY QueueGiven DEF IInv
<1>4. \A d \in Device : \A n \in Range(queue[d]) : Fresh(n, d) => n.change.at \in stamps
  BY DEF FreshApart
<1>5. ASSUME NEW d \in Device PROVE Apart(queue'[d], d)
  <2>1. CASE d = e
    <3>1. Apart(queue[e], e)
      BY DEF FreshApart
    <3>2. \A n \in Range(queue[e]) : Fresh(n, e) /\ Fresh(m, e) => n.change.at # m.change.at
      BY <1>4
    <3>3. Apart(Append(queue[e], m), e)
      BY <1>1, <3>1, <3>2, ApartAppend
    <3> QED
      BY <1>2, <2>1, <3>3
  <2>2. CASE d # e
    BY <1>2, <2>2 DEF FreshApart
  <2> QED
    BY <2>1, <2>2
<1>6. ASSUME NEW d \in Device, NEW n \in Range(queue'[d]), Fresh(n, d)
      PROVE  n.change.at \in stamps'
  BY <1>3, <1>4, <1>6
<1>7. ASSUME NEW d \in Device, NEW f \in Device, d # f, NEW n \in Range(queue'[d]),
             NEW o \in Range(queue'[f]), Fresh(n, d), Fresh(o, f)
      PROVE  n.change.at # o.change.at
  <2>1. CASE n \in Range(queue[d]) /\ o \in Range(queue[f])
    BY <1>7, <2>1 DEF FreshApart
  <2>2. CASE n \in Range(queue[d]) /\ f = e /\ o = m
    BY <1>4, <1>7, <2>2
  <2>3. CASE d = e /\ n = m /\ o \in Range(queue[f])
    BY <1>4, <1>7, <2>3
  <2> QED
    BY <1>3, <1>7, <2>1, <2>2, <2>3
<1> QED
  BY <1>5, <1>6, <1>7 DEF FreshApart, Apart, Fresh

-----------------------------------------------------------------------------
(* Steps that change no definition.                                        *)

\* A frame that says nothing of definitions.
NoTagFrame(f) == f.frame = "Relations" \/ (f.frame = "Change" /\ OfRelation(f.change))

Announced(l) == stage[l] \in {"defined", "reading"}

LEMMA SameLedger ==
    ASSUME NEW L \in Ledgers, NEW U
    PROVE  Extends(L, U, L, U)
BY DEF Extends

LEMMA SameTagsRise ==
    ASSUME IInv, UNCHANGED tag
    PROVE  TagsRise
BY TagAtIsNat DEF TagsRise

LEMMA NoTagStepKeeps ==
    ASSUME IInv, IInv', Agreed, UNCHANGED <<tag, answer, base>>, stamps \subseteq stamps',
           \A l \in Ends : Announced(l)' => Announced(l),
           \A d \in Device : \A m \in Range(queue'[d]) :
               m \in Range(queue[d]) \/ OfRelation(m.change),
           \A d \in Device : \A m \in Range(queue[d]) :
               m \in Range(queue'[d]) \/ OfRelation(m.change),
           \A l \in Ends : \A f \in Range(wire'[l]) : f \in Range(wire[l]) \/ NoTagFrame(f),
           \A l \in Ends : \A f \in Range(wire[l]) : f \in Range(wire'[l]) \/ NoTagFrame(f)
    PROVE  Agreed'
<1>1. TagsRise
  BY SameTagsRise
<1>2. TagBehind'
  <2>1. \A d \in Device : \A m \in Range(queue'[d]) :
            m \in Range(queue[d]) \/ TagCommandBehind(m, d)'
    BY DEF TagCommandBehind, Past
  <2>2. \A d, e \in Device : <<d, e>> \in Ends =>
            \A f \in Range(wire'[<<d, e>>]) :
                f \in Range(wire[<<d, e>>]) \/ TagFrameBehind(f, d)'
    BY DEF TagFrameBehind, Past, NoTagFrame
  <2> QED
    BY <1>1, <2>1, <2>2, BehindKeeps DEF Agreed
<1>3. TagTold'
  <2> SUFFICES ASSUME NEW d \in Device, NEW e \in Device, <<d, e>> \in Ends,
                      Announced(<<d, e>>)', NEW t \in Tag, NEW at \in Nat,
                      at = tag'[d][t].at
               PROVE  TagComes(d, e, t, at)'
    BY DEF TagTold, Announced
  <2>1. TagComes(d, e, t, at)
    BY DEF Agreed, TagTold, Announced
  <2>2. \A m \in Range(queue[e]) : TagBrings(m.change, t, at) => m \in Range(queue'[e])
    BY DEF TagBrings
  <2>3. <<e, d>> \in Ends
    BY EndsOK
  <2>4. \A f \in Range(wire[<<d, e>>]) : TagCarries(f, t, at) => f \in Range(wire'[<<d, e>>])
    BY DEF TagCarries, NoTagFrame, TagBrings
  <2>5. \A f \in Range(wire[<<e, d>>]) : Asks(f, t) => f \in Range(wire'[<<e, d>>])
    BY <2>3 DEF Asks, NoTagFrame
  <2> QED
    BY <1>1, <2>1, <2>2, <2>4, <2>5, TagComesStays
<1>4. PICK L, U : Ledger(L, U)
  BY DEF Agreed
<1>5. Ledger(L, U)'
  <2>1. L \in Ledgers /\ U \subseteq stamps' \cup {1}
    BY <1>4 DEF Ledger
  <2>2. \A d \in Device : \A m \in Range(queue'[d]) :
            \/ m \in Range(queue[d]) /\ (Fresh(m, d) => m.change.at \notin U)
            \/ CommandIn(L, U, m, d)
    <3>1. ASSUME NEW d \in Device, NEW m \in Range(queue[d]), Fresh(m, d)
          PROVE  m.change.at \notin U
      BY <1>4, <3>1 DEF Ledger, CommandIn
    <3>2. ASSUME NEW d \in Device, NEW m \in Range(queue'[d]), OfRelation(m.change)
          PROVE  CommandIn(L, U, m, d)
      BY <3>2 DEF CommandIn, Fresh, ChangeIn, OfRelation, InPart
    <3> QED
      BY <3>1, <3>2
  <2>3. \A d, e \in Device : <<d, e>> \in Ends =>
            \A f \in Range(wire'[<<d, e>>]) : f \in Range(wire[<<d, e>>]) \/ FrameIn(L, U, f)
    BY DEF FrameIn, NoTagFrame, ChangeIn, OfRelation, InPart
  <2> QED
    BY <1>4, <2>1, <2>2, <2>3, SameLedger, LedgerKeeps
<1> QED
  BY <1>2, <1>3, <1>5 DEF Agreed

\* A line more in the ledger.
Entered(L, t, at, row) == [L EXCEPT ![t][at] = row]

LEMMA EnteredOK ==
    ASSUME NEW L \in Ledgers, NEW t \in Tag, NEW at \in At, NEW row \in Definition
    PROVE  /\ Entered(L, t, at, row) \in Ledgers
           /\ Entered(L, t, at, row)[t][at] = row
           /\ \A u \in Tag, x \in At \ {at} : Entered(L, t, at, row)[u][x] = L[u][x]
BY DEF Ledgers, Entered

LEMMA TakenAreAt == ASSUME IInv PROVE stamps \cup {1} \subseteq At
BY DEF IInv, ClockOK, At

\* What a user does waits for the writer.
LEMMA SubmitMoves ==
    ASSUME IInv, IInv', NEW d \in Device, NEW c \in SoundChange(written'), Submit(d, c),
           written \subseteq written'
    PROVE  \E m \in SoundCommand(written') :
               /\ m.change = c /\ m.from = d
               /\ queue' = [queue EXCEPT ![d] = Append(@, m)]
               /\ \A e \in Device : \A n \in Range(queue[e]) : n \in Range(queue'[e])
               /\ \A e \in Device : \A n \in Range(queue'[e]) :
                      n \in Range(queue[e]) \/ (e = d /\ n = m)
<1>1. PICK m : m = [change |-> c, from |-> d]
  OBVIOUS
<1>2. m \in SoundCommand(written') /\ m.change = c /\ m.from = d
  BY <1>1 DEF SoundCommand
<1>3. queue' = [queue EXCEPT ![d] = Append(@, m)] /\ QueueOK'
  BY <1>1 DEF Submit, IInv
<1> QED
  BY <1>2, <1>3, QueueGiven

LEMMA SubmitAgrees ==
    ASSUME IInv, IInv', FreshApart, NEW d \in Device, NEW c \in SoundChange(written'),
           Submit(d, c), written \subseteq written'
    PROVE  FreshApart' /\ (Agreed => Agreed')
<1>1. /\ c.at \in Stamp \ stamps /\ stamps' = stamps \cup {c.at}
      /\ UNCHANGED <<tag, stage, answer, wire, base>>
  BY DEF Submit, rows, session
<1>2. PICK m \in SoundCommand(written') :
          /\ m.change = c /\ m.from = d
          /\ queue' = [queue EXCEPT ![d] = Append(@, m)]
          /\ \A e \in Device : \A n \in Range(queue[e]) : n \in Range(queue'[e])
          /\ \A e \in Device : \A n \in Range(queue'[e]) :
                 n \in Range(queue[e]) \/ (e = d /\ n = m)
  BY SubmitMoves
<1>3. FreshApart'
  BY <1>1, <1>2, MoreApart
<1>4. ASSUME Agreed PROVE Agreed'
  <2>1. TagsRise
    BY <1>1, SameTagsRise
  <2>2. TagBehind'
    <3>1. \A e \in Device : \A n \in Range(queue'[e]) :
              n \in Range(queue[e]) \/ TagCommandBehind(n, e)'
      BY <1>2 DEF TagCommandBehind
    <3> QED
      BY <1>1, <1>4, <2>1, <3>1, BehindKeeps DEF Agreed
  <2>3. TagTold'
    <3> SUFFICES ASSUME NEW x \in Device, NEW e \in Device, <<x, e>> \in Ends,
                        stage'[<<x, e>>] \in {"defined", "reading"},
                        NEW t \in Tag, NEW at \in Nat, at = tag'[x][t].at
                 PROVE  TagComes(x, e, t, at)'
      BY DEF TagTold
    <3>1. TagComes(x, e, t, at)
      BY <1>1, <1>4 DEF Agreed, TagTold
    <3> QED
      BY <1>1, <1>2, <2>1, <3>1, TagComesStays
  <2>4. PICK L, U : Ledger(L, U)
    BY <1>4 DEF Agreed
  <2>5. /\ L \in Ledgers /\ U \subseteq At /\ U \subseteq stamps \cup {1}
        /\ c.at \in At \ U
    BY <1>1, <2>4, TakenAreAt, TagAssumption DEF Ledger, TagAssumption, At
  <2>6. \A e \in Device : \A n \in Range(queue[e]) :
            Fresh(n, e) => n.change.at \notin U /\ n.change.at # c.at
    BY <1>1, <2>4 DEF Ledger, CommandIn, FreshApart
  <2>7. \E M, V : Ledger(M, V)'
    <3>1. CASE OfRelation(c) \/ InPart(c)
      <4>1. CommandIn(L, U, m, d)
        BY <1>2, <2>5, <3>1 DEF CommandIn, Fresh, ChangeIn, OfRelation, InPart
      <4>2. \A e \in Device : \A n \in Range(queue'[e]) :
                \/ n \in Range(queue[e]) /\ (Fresh(n, e) => n.change.at \notin U)
                \/ CommandIn(L, U, n, e)
        BY <1>2, <2>6, <4>1
      <4>3. Ledger(L, U)'
        BY <1>1, <2>4, <2>5, <4>2, SameLedger, LedgerKeeps
      <4> QED
        BY <4>3
    <3>2. CASE ~OfRelation(c) /\ ~InPart(c)
      <4>1. c \in Addition /\ c.tag \in Tag
        BY <3>2, AboutTags
      <4>2. PICK row : row = [name |-> c.name, style |-> c.style, deleted |-> FALSE, at |-> c.at]
        OBVIOUS
      <4>3. row \in Definition
        BY <4>1, <4>2 DEF Addition, Definition
      <4>4. PICK M : M = Entered(L, c.tag, c.at, row)
        OBVIOUS
      <4>5. PICK V : V = U \cup {c.at}
        OBVIOUS
      <4>6. /\ M \in Ledgers /\ M[c.tag][c.at] = row
            /\ \A u \in Tag, x \in At \ {c.at} : M[u][x] = L[u][x]
        BY <2>5, <4>1, <4>3, <4>4, EnteredOK
      <4>7. Extends(L, U, M, V)
        BY <2>5, <4>5, <4>6 DEF Extends
      <4>8. CommandIn(M, V, m, d)
        BY <1>2, <3>2, <4>2, <4>5, <4>6 DEF CommandIn, Fresh, ChangeIn
      <4>9. \A e \in Device : \A n \in Range(queue'[e]) :
                \/ n \in Range(queue[e]) /\ (Fresh(n, e) => n.change.at \notin V)
                \/ CommandIn(M, V, n, e)
        BY <1>2, <2>6, <4>5, <4>8
      <4>10. V \subseteq stamps' \cup {1}
        BY <1>1, <2>5, <4>5
      <4>11. Ledger(M, V)'
        BY <1>1, <2>4, <4>9, <4>10, <4>6, <4>7, LedgerKeeps
      <4> QED
        BY <4>11
    <3> QED
      BY <3>1, <3>2
  <2> QED
    BY <2>2, <2>3, <2>7 DEF Agreed
<1> QED
  BY <1>3, <1>4

-----------------------------------------------------------------------------
(* The writer.                                                             *)

\* The frame that forwards a change, on the links it goes out on.
Relayed(d, origin, c, l) ==
    IF l[1] = d /\ l[2] # origin /\ stage[l] # "down" THEN {ChangeFrame(c)} ELSE {}

\* A change that is made here is stamped with the row it meets.
AsWritten(m, d) ==
    IF Fresh(m, d) THEN [m.change EXCEPT !.on = tag[d][m.change.tag].at] ELSE m.change

\* The command and the change that a writer writes.
Wrote(d, m, c) ==
    /\ queue[d] # <<>> /\ m = Head(queue[d]) /\ ~OfRelation(c)
    /\ c.tag = m.change.tag /\ c.at = m.change.at
    /\ Fresh(m, d) => InPart(c) /\ c.on = tag[d][c.tag].at
    /\ ~Fresh(m, d) => c = m.change
    /\ ~OfRelation(m.change) /\ m.change.kind # "nothing"
    /\ queue' = [queue EXCEPT ![d] = Tail(@)]
    /\ tag' = [tag EXCEPT ![d][c.tag] = Defined(@, c)]
    /\ contested' = (contested \/ Misses(tag[d][c.tag], c))
    /\ base' = IF Fresh(m, d) /\ c.kind = "TagRemoved"
               THEN [base EXCEPT ![c.tag][c.at] = tag[d][c.tag].at] ELSE base
    /\ \A l \in Ends : Range(wire'[l]) = Range(wire[l]) \cup Relayed(d, m.from, c, l)

LEMMA WriteDefinitionMoves ==
    ASSUME IInv, NEW d \in Device, WriteDefinition(d)
    PROVE  \E m \in Range(queue[d]), c \in SoundChange(written) : Wrote(d, m, c)
<1>1. PICK m : m = Head(queue[d])
  OBVIOUS
<1>2. PICK c : c = AsWritten(m, d)
  OBVIOUS
<1>3. queue[d] # <<>> /\ ~OfRelation(m.change)
  BY <1>1 DEF WriteDefinition
<1>4. m \in Range(queue[d]) /\ m.change \in SoundChange(written) /\ m.from \in Device
  <2>1. queue[d] \in Seq(SoundCommand(written))
    BY DEF IInv, QueueOK
  <2> QED
    BY <1>1, <1>3, <2>1, RangeTail, HeadOK DEF IInv
<1>5. /\ m.change \in Addition \cup PartChange /\ m.change.tag \in Tag
      /\ m.change.kind # "nothing"
      /\ InPart(m.change) => m.change \in PartChange
  BY <1>3, <1>4, AboutTags
<1>6. /\ c \in SoundChange(written) /\ ~OfRelation(c)
      /\ c.tag = m.change.tag /\ c.at = m.change.at
      /\ Fresh(m, d) => InPart(c) /\ c.on = tag[d][c.tag].at
      /\ ~Fresh(m, d) => c = m.change
      /\ c.kind = m.change.kind
  <2>1. CASE Fresh(m, d)
    <3>1. m.change \in PartChange
      BY <1>5, <2>1 DEF Fresh
    <3>2. tag[d][m.change.tag].at \in At
      BY <1>5, TagAtIsNat
    <3>3. c = [m.change EXCEPT !.on = tag[d][m.change.tag].at]
      BY <1>2, <2>1 DEF AsWritten
    <3>4. /\ c \in PartChange /\ c.tag = m.change.tag /\ c.at = m.change.at
          /\ c.on = tag[d][m.change.tag].at /\ c.kind = m.change.kind
      BY <3>1, <3>2, <3>3 DEF PartChange
    <3>5. InPart(c) /\ ~OfRelation(c)
      BY <3>4 DEF PartChange, InPart, OfRelation
    <3> QED
      BY <2>1, <3>4, <3>5 DEF SoundChange
  <2>2. CASE ~Fresh(m, d)
    BY <1>2, <1>3, <1>4, <2>2 DEF AsWritten
  <2> QED
    BY <2>1, <2>2
<1> DEFINE to == {e \in Neighbours(d) \ {m.from} : stage[<<d, e>>] # "down"}
<1>7. /\ queue' = [queue EXCEPT ![d] = Tail(@)]
      /\ tag' = [tag EXCEPT ![d][c.tag] = Defined(@, c)]
      /\ contested' = (contested \/ Misses(tag[d][m.change.tag], c))
      /\ wire' = Sending(to, d, <<ChangeFrame(c)>>)
  BY <1>1, <1>2 DEF WriteDefinition, Forwarded, Fresh, AsWritten
<1> HIDE DEF to
<1>8. \A l \in Ends : Range(wire'[l]) = Range(wire[l]) \cup
                          (IF l[1] = d /\ l[2] \in to THEN {ChangeFrame(c)} ELSE {})
  <2>1. <<ChangeFrame(c)>> \in Seq(SoundFrame(written))
    BY <1>6, ChangeFrameOK
  <2>2. Range(<<ChangeFrame(c)>>) = {ChangeFrame(c)}
    BY RangeOne
  <2> QED
    BY <1>7, <2>1, <2>2, WireSent
<1>9. \A l \in Ends : Range(wire'[l]) = Range(wire[l]) \cup Relayed(d, m.from, c, l)
  <2> SUFFICES ASSUME NEW l \in Ends
               PROVE  Range(wire'[l]) = Range(wire[l]) \cup Relayed(d, m.from, c, l)
    OBVIOUS
  <2>1. l = <<l[1], l[2]>> /\ l[2] \in Device /\ {l[1], l[2]} \in Tree
    BY DEF Ends
  <2>2. l[1] = d => (l[2] \in to <=> l[2] # m.from /\ stage[l] # "down")
    BY <2>1 DEF to, Neighbours
  <2> QED
    BY <1>8, <2>2 DEF Relayed
<1>10. base' = IF Fresh(m, d) /\ c.kind = "TagRemoved"
               THEN [base EXCEPT ![c.tag][c.at] = tag[d][c.tag].at] ELSE base
  <2> DEFINE made == IF Head(queue[d]).from = d /\ InPart(Head(queue[d]).change)
                     THEN [Head(queue[d]).change EXCEPT
                               !.on = tag[d][Head(queue[d]).change.tag].at]
                     ELSE Head(queue[d]).change
  <2>1. made = c
    BY <1>1, <1>2 DEF AsWritten, Fresh
  <2>2. base' = IF Head(queue[d]).from = d /\ made.kind = "TagRemoved"
                THEN [base EXCEPT ![made.tag][made.at] =
                                      tag[d][Head(queue[d]).change.tag].at]
                ELSE base
    BY Zenon DEF WriteDefinition
  <2> HIDE DEF made
  <2>3. CASE m.from = d /\ c.kind = "TagRemoved"
    <3>1. base' = [base EXCEPT ![c.tag][c.at] = tag[d][m.change.tag].at]
      BY <1>1, <2>1, <2>2, <2>3
    <3>2. Fresh(m, d)
      BY <1>6, <2>3 DEF Fresh, InPart
    <3> QED
      BY <1>6, <2>3, <3>1, <3>2
  <2>4. CASE ~(m.from = d /\ c.kind = "TagRemoved")
    <3>1. base' = base
      BY <1>1, <2>1, <2>2, <2>4
    <3> QED
      BY <2>4, <3>1 DEF Fresh
  <2> QED
    BY <2>3, <2>4
<1> QED
  BY <1>1, <1>3, <1>4, <1>5, <1>6, <1>7, <1>9, <1>10 DEF Wrote

LEMMA WriteDefinitionAgrees ==
    ASSUME IInv, IInv', FreshApart, BlankTags, NEW d \in Device, WriteDefinition(d)
    PROVE  FreshApart' /\ BlankTags' /\ (contested' \/ (Agreed => Agreed'))
<1>0. PICK m \in Range(queue[d]), c \in SoundChange(written) : Wrote(d, m, c)
  BY WriteDefinitionMoves
<1>1. /\ queue[d] # <<>> /\ m = Head(queue[d]) /\ ~OfRelation(c)
      /\ c.tag = m.change.tag /\ c.at = m.change.at
      /\ Fresh(m, d) => InPart(c) /\ c.on = tag[d][c.tag].at
      /\ ~Fresh(m, d) => c = m.change
      /\ ~OfRelation(m.change) /\ m.change.kind # "nothing"
      /\ queue' = [queue EXCEPT ![d] = Tail(@)]
      /\ tag' = [tag EXCEPT ![d][c.tag] = Defined(@, c)]
      /\ contested' = (contested \/ Misses(tag[d][c.tag], c))
      /\ base' = IF Fresh(m, d) /\ c.kind = "TagRemoved"
                 THEN [base EXCEPT ![c.tag][c.at] = tag[d][c.tag].at] ELSE base
      /\ \A l \in Ends : Range(wire'[l]) = Range(wire[l]) \cup Relayed(d, m.from, c, l)
  BY <1>0 DEF Wrote
<1>2. UNCHANGED <<stage, answer, stamps, written>>
  BY DEF WriteDefinition, session, history
<1>3. PICK old : old = tag[d][c.tag]
  OBVIOUS
<1>4. PICK new : new = Defined(old, c)
  OBVIOUS
<1>5. c.tag \in Tag /\ c.at \in At /\ c.at \in Nat /\ old \in Definition /\ old.at \in Nat
  BY <1>1, <1>3, AboutTags, TagAtIsNat
<1>6. \A x \in Device, t \in Tag :
          tag'[x][t] = IF x = d /\ t = c.tag THEN new ELSE tag[x][t]
  BY <1>1, <1>3, <1>4, <1>5 DEF IInv, RowsOK
<1>7. \/ new = old /\ (c.at <= old.at \/ (InPart(c) /\ ~Known(old)))
      \/ new.at = c.at /\ c.at > old.at
  BY <1>1, <1>4, <1>5, DefinedCases
<1>8. FreshApart'
  <2>1. queue'[d] = Tail(queue[d]) /\ \A x \in Device \ {d} : queue'[x] = queue[x]
    BY <1>1 DEF IInv, QueueOK
  <2> QED
    BY <1>1, <1>2, <2>1, FewerApart
<1>9. BlankTags'
  <2> SUFFICES ASSUME NEW x \in Device, NEW t \in Tag, tag'[x][t].at = 0
               PROVE  tag'[x][t] = NoTag
    BY DEF BlankTags, NoTag
  <2>1. CASE tag'[x][t] = tag[x][t]
    BY <2>1 DEF BlankTags
  <2>2. CASE x = d /\ t = c.tag /\ new.at = c.at /\ c.at > old.at
    BY <1>5, <1>6, <2>2
  <2> QED
    BY <1>3, <1>6, <1>7, <2>1, <2>2
<1>10. TagsRise
  <2> SUFFICES ASSUME NEW x \in Device, NEW t \in Tag PROVE tag'[x][t].at >= tag[x][t].at
    BY DEF TagsRise
  <2>1. tag[x][t].at \in Nat
    BY TagAtIsNat
  <2>2. new.at >= old.at
    BY <1>5, <1>7
  <2> QED
    BY <1>3, <1>6, <2>1, <2>2
<1>11. ASSUME ~contested', Agreed PROVE Agreed'
  <2>1. ~Misses(old, c)
    BY <1>1, <1>3, <1>11
  <2>2. new.at \in Nat /\ new.at >= c.at /\ new.at >= old.at
    BY <1>1, <1>4, <1>5, <2>1, DefinedReaches
  <2>3. /\ \A e \in Device : \A n \in Range(queue'[e]) : n \in Range(queue[e])
        /\ \A e \in Device : \A n \in Range(queue[e]) :
               n \in Range(queue'[e]) \/ (e = d /\ n = m)
    BY <1>1, QueueTaken
  <2>4. Past(d, c)'
    BY <1>5, <1>6, <2>2 DEF Past
  <2>5. TagFrameBehind(ChangeFrame(c), d)'
    BY <2>4 DEF TagFrameBehind, ChangeFrame
  <2>6. TagBehind'
    <3>1. \A x, y \in Device : <<x, y>> \in Ends =>
              \A f \in Range(wire'[<<x, y>>]) :
                  f \in Range(wire[<<x, y>>]) \/ TagFrameBehind(f, x)'
      <4> SUFFICES ASSUME NEW x \in Device, NEW y \in Device, <<x, y>> \in Ends,
                          NEW f \in Range(wire'[<<x, y>>]), f \notin Range(wire[<<x, y>>])
                   PROVE  TagFrameBehind(f, x)'
        OBVIOUS
      <4>1. x = d /\ f = ChangeFrame(c)
        BY <1>1 DEF Relayed
      <4> QED
        BY <2>5, <4>1
    <3> QED
      BY <1>2, <1>10, <1>11, <2>3, <3>1, BehindKeeps DEF Agreed
  <2>7. TagTold'
    <3> SUFFICES ASSUME NEW x \in Device, NEW y \in Device, <<x, y>> \in Ends,
                        stage'[<<x, y>>] \in {"defined", "reading"},
                        NEW t \in Tag, NEW at \in Nat, at = tag'[x][t].at
                 PROVE  TagComes(x, y, t, at)'
      BY DEF TagTold
    <3>1. CASE at = tag[x][t].at
      <4>1. TagComes(x, y, t, at)
        BY <1>2, <1>11, <3>1 DEF Agreed, TagTold
      <4>2. \A n \in Range(queue[y]) :
                TagBrings(n.change, t, at) => n \in Range(queue'[y]) \/ TagComes(x, y, t, at)'
        <5> SUFFICES ASSUME TagBrings(m.change, t, at), y = d PROVE TagComes(x, y, t, at)'
          BY <2>3
        <5>1. tag'[y][t].at = new.at /\ c.at >= at
          BY <1>1, <1>5, <1>6 DEF TagBrings
        <5>2. tag'[y][t].at >= at
          BY <1>5, <2>2, <5>1
        <5> QED
          BY <5>2 DEF TagComes
      <4>3. <<y, x>> \in Ends
        BY EndsOK
      <4>4. /\ \A f \in Range(wire[<<x, y>>]) : f \in Range(wire'[<<x, y>>])
            /\ \A f \in Range(wire[<<y, x>>]) : f \in Range(wire'[<<y, x>>])
        BY <1>1, <4>3
      <4> QED
        BY <1>2, <1>10, <4>1, <4>2, <4>4, TagComesStays
    <3>2. CASE x = d /\ t = c.tag /\ at = c.at
      <4>1. CASE y = m.from
        <5>1. m.from # d
          BY <3>2, <4>1, EndsDiffer
        <5>2. Past(m.from, m.change)
          BY <1>11, <5>1 DEF Agreed, TagBehind, TagCommandBehind
        <5>3. tag[y][t].at >= at
          BY <1>1, <3>2, <4>1, <5>2 DEF Past
        <5>4. tag'[y][t].at >= tag[y][t].at /\ tag[y][t].at \in Nat /\ tag'[y][t].at \in Nat
          BY <1>10, TagAtIsNat, TagAtIsNatThen DEF TagsRise
        <5>5. tag'[y][t].at >= at
          BY <5>3, <5>4
        <5> QED
          BY <5>5 DEF TagComes
      <4>2. CASE y # m.from
        <5>1. ChangeFrame(c) \in Range(wire'[<<x, y>>])
          BY <1>1, <1>2, <3>2, <4>2 DEF Relayed
        <5>2. c.kind # "nothing"
          BY <1>1, AboutTags
        <5>3. TagCarries(ChangeFrame(c), t, at)
          <6>1. ~OfRelation(c) /\ c.tag = t
            BY <1>1, <3>2
          <6>3. c.at >= at
            BY <1>5, <3>2
          <6>4. TagBrings(c, t, at)
            BY <5>2, <6>1, <6>3 DEF TagBrings
          <6>2. ChangeFrame(c).frame = "Change" /\ ChangeFrame(c).change = c
            BY DEF ChangeFrame
          <6> QED
            BY <6>2, <6>4 DEF TagCarries
        <5> QED
          BY <5>1, <5>3 DEF TagComes
      <4> QED
        BY <4>1, <4>2
    <3> QED
      BY <1>3, <1>6, <1>7, <3>1, <3>2
  <2>8. PICK L, U : Ledger(L, U)
    BY <1>11 DEF Agreed
  <2>9. /\ L \in Ledgers /\ U \subseteq At /\ U \subseteq stamps \cup {1}
        /\ RowIn(L, U, c.tag, old) /\ CommandIn(L, U, m, d)
    BY <1>3, <1>5, <2>8, TakenAreAt DEF Ledger
  <2>10. ASSUME NEW M \in Ledgers, NEW V, Extends(L, U, M, V), V \subseteq stamps' \cup {1},
                RowIn(M, V, c.tag, new), ChangeIn(M, V, c),
                \A e \in Device : \A n \in Range(queue'[e]) : Fresh(n, e) => n.change.at \notin V
         PROVE  Ledger(M, V)'
    <3>1. \A x \in Device, t \in Tag : tag'[x][t] = tag[x][t] \/ RowIn(M, V, t, tag'[x][t])
      BY <1>6, <2>10
    <3>2. \A x, y \in Device : <<x, y>> \in Ends =>
              \A f \in Range(wire'[<<x, y>>]) : f \in Range(wire[<<x, y>>]) \/ FrameIn(M, V, f)
      <4>1. FrameIn(M, V, ChangeFrame(c))
        BY <2>10 DEF FrameIn, ChangeFrame
      <4> QED
        BY <1>1, <4>1 DEF Relayed
    <3>3. ASSUME NEW t \in Tag, NEW at \in At
          PROVE  base'[t][at] = base[t][at] \/ ChangeIn(M, V, Deletion(t, at, base'[t][at]))
      <4>1. CASE Fresh(m, d) /\ c.kind = "TagRemoved" /\ t = c.tag /\ at = c.at
        <5>1. base'[t][at] = c.on
          BY <1>1, <1>5, <4>1 DEF IInv, FactsOK
        <5>2. c \in PartChange
          BY <1>1, <4>1, AboutTags
        <5>3. c = Deletion(t, at, c.on)
          BY <4>1, <5>2 DEF PartChange, Deletion
        <5> QED
          BY <2>10, <5>1, <5>3
      <4>2. CASE ~(Fresh(m, d) /\ c.kind = "TagRemoved" /\ t = c.tag /\ at = c.at)
        BY <1>1, <4>2 DEF IInv, FactsOK
      <4> QED
        BY <4>1, <4>2
    <3> QED
      BY <1>2, <2>3, <2>8, <2>10, <3>1, <3>2, <3>3, LedgerKeeps
  <2>11. \A e \in Device : \A n \in Range(queue'[e]) : Fresh(n, e) => n.change.at \notin U
    BY <2>3, <2>8 DEF Ledger, CommandIn
  <2>12. \E M, V : Ledger(M, V)'
    <3>1. CASE new = old \/ ~Fresh(m, d)
      <4>1. ChangeIn(L, U, c)
        <5>1. CASE ~Fresh(m, d)
          BY <1>1, <2>9, <5>1 DEF CommandIn
        <5>2. CASE Fresh(m, d) /\ new = old
          <6>1. ~(c.at > c.on) /\ c.kind # "TagAdded"
            <7>1. /\ InPart(c) /\ c.on = old.at
              BY <1>1, <1>3, <5>2
            <7>2. Known(old)
              BY <2>1, <7>1 DEF Misses
            <7>3. c.at <= old.at
              BY <1>5, <1>7, <5>2, <7>2
            <7> QED
              BY <1>5, <7>1, <7>3 DEF InPart
          <6> QED
            BY <6>1 DEF ChangeIn
        <5> QED
          BY <3>1, <5>1, <5>2
      <4>2. RowIn(L, U, c.tag, new)
        BY <1>1, <1>4, <1>5, <2>1, <2>9, <4>1, DefinedIn
      <4> QED
        BY <1>2, <2>9, <2>10, <2>11, <4>1, <4>2, SameLedger
    <3>2. CASE new # old /\ Fresh(m, d)
      <4>1. /\ InPart(c) /\ c.on = old.at /\ Known(old) /\ c.kind # "TagAdded"
            /\ new.at = c.at /\ c.at > old.at
        BY <1>1, <1>3, <1>7, <2>1, <3>2 DEF Misses, InPart
      <4>2. c.at \notin U /\ c.at \in stamps /\ old.at \in U /\ old.at # c.at
        BY <1>1, <1>5, <2>9, <3>2, <4>1 DEF CommandIn, RowIn, FreshApart, Known
      <4>3. new \in Definition
        BY <1>1, <1>4, <1>5, AboutTags, DefinedOK
      <4>4. PICK M : M = Entered(L, c.tag, c.at, new)
        OBVIOUS
      <4>5. PICK V : V = U \cup {c.at}
        OBVIOUS
      <4>6. /\ M \in Ledgers /\ M[c.tag][c.at] = new
            /\ \A u \in Tag, x \in At \ {c.at} : M[u][x] = L[u][x]
        BY <1>5, <2>9, <4>3, <4>4, EnteredOK
      <4>7. Extends(L, U, M, V)
        BY <2>9, <4>2, <4>5, <4>6 DEF Extends
      <4>8. V \subseteq stamps' \cup {1}
        BY <1>2, <2>9, <4>2, <4>5
      <4>9. RowIn(M, V, c.tag, new)
        BY <4>1, <4>5, <4>6 DEF RowIn
      <4>10. ChangeIn(M, V, c)
        <5>1. M[c.tag][c.on] = old
          BY <1>5, <2>9, <4>1, <4>2, <4>6 DEF RowIn, Known
        <5> QED
          BY <1>4, <4>1, <4>2, <4>5, <4>6, <5>1 DEF ChangeIn
      <4>11. \A e \in Device : \A n \in Range(queue'[e]) : Fresh(n, e) => n.change.at # c.at
        <5> SUFFICES ASSUME NEW e \in Device, NEW n \in Range(queue'[e]), Fresh(n, e)
                     PROVE  n.change.at # m.change.at
          BY <1>1
        <5>1. CASE e = d
          <6>1. queue[d] \in Seq(SoundCommand(written)) /\ queue'[d] = Tail(queue[d])
            BY <1>1 DEF IInv, QueueOK
          <6>2. Apart(queue[d], d)
            BY DEF FreshApart
          <6>3. \A o \in Range(Tail(queue[d])) : Fresh(o, d) /\ Fresh(Head(queue[d]), d) =>
                    o.change.at # Head(queue[d]).change.at
            BY <1>1, <6>1, <6>2, ApartTail
          <6> QED
            BY <1>1, <3>2, <5>1, <6>1, <6>3
        <5>2. CASE e # d
          BY <1>1, <2>3, <3>2, <5>2 DEF FreshApart
        <5> QED
          BY <5>1, <5>2
      <4>12. \A e \in Device : \A n \in Range(queue'[e]) : Fresh(n, e) => n.change.at \notin V
        BY <2>11, <4>5, <4>11
      <4> QED
        BY <2>10, <4>6, <4>7, <4>8, <4>9, <4>10, <4>12
    <3> QED
      BY <3>1, <3>2
  <2> QED
    BY <2>6, <2>7, <2>12 DEF Agreed
<1> QED
  BY <1>8, <1>9, <1>11

-----------------------------------------------------------------------------
(* Sessions, as to definitions.                                            *)

DKept == FreshApart' /\ BlankTags' /\ (contested' \/ (Agreed => Agreed'))

LEMMA BlankStays == ASSUME BlankTags, UNCHANGED tag PROVE BlankTags'
BY DEF BlankTags

LEMMA SameLedgerKeeps ==
    ASSUME IInv, IInv', NEW L, NEW U, Ledger(L, U), stamps \subseteq stamps',
           UNCHANGED <<tag, base>>,
           \A d \in Device : \A m \in Range(queue'[d]) :
               m \in Range(queue[d]) \/ CommandIn(L, U, m, d),
           \A d, e \in Device : <<d, e>> \in Ends =>
               \A f \in Range(wire'[<<d, e>>]) :
                   f \in Range(wire[<<d, e>>]) \/ FrameIn(L, U, f),
           \A d, e \in Device : <<d, e>> \in Ends =>
               answer'[<<d, e>>] = answer[<<d, e>>] \/ ChangeIn(L, U, answer'[<<d, e>>])
    PROVE  Ledger(L, U)'
<1>1. L \in Ledgers /\ U \subseteq stamps' \cup {1}
  BY DEF Ledger
<1>2. \A d \in Device : \A m \in Range(queue[d]) : Fresh(m, d) => m.change.at \notin U
  BY DEF Ledger, CommandIn
<1>3. \A d \in Device : \A m \in Range(queue'[d]) :
          \/ m \in Range(queue[d]) /\ (Fresh(m, d) => m.change.at \notin U)
          \/ CommandIn(L, U, m, d)
  BY <1>2
<1> QED
  BY <1>1, <1>3, SameLedger, LedgerKeeps

\* The first frame of a wire is taken off it.
LEMMA FrameTaken ==
    ASSUME IInv, NEW d \in Device, NEW e \in Device, <<d, e>> \in Ends, wire[<<d, e>>] # <<>>,
           wire' = [wire EXCEPT ![<<d, e>>] = Tail(@)]
    PROVE  /\ Head(wire[<<d, e>>]) \in Range(wire[<<d, e>>])
           /\ \A l \in Ends : \A g \in Range(wire'[l]) : g \in Range(wire[l])
           /\ \A l \in Ends : \A g \in Range(wire[l]) :
                  g \in Range(wire'[l]) \/ (l = <<d, e>> /\ g = Head(wire[<<d, e>>]))
<1>1. Range(wire[<<d, e>>]) = {Head(wire[<<d, e>>])} \cup Range(Tail(wire[<<d, e>>]))
  BY WireTaken
<1>2. /\ wire'[<<d, e>>] = Tail(wire[<<d, e>>])
      /\ \A l \in Ends \ {<<d, e>>} : wire'[l] = wire[l]
  BY DEF IInv, WireOK
<1> QED
  BY <1>1, <1>2

\* One item less on the first frame, and perhaps something sent back.
LEMMA ItemTaken ==
    ASSUME IInv, NEW d \in Device, NEW e \in Device, <<d, e>> \in Ends, <<e, d>> \in Ends,
           wire[<<d, e>>] # <<>>, NEW item,
           Rest(Head(wire[<<d, e>>]), item) \in SoundFrame(written),
           NEW back \in Seq(SoundFrame(written)),
           wire' = [wire EXCEPT ![<<d, e>>] = Without(@, item), ![<<e, d>>] = @ \o back]
    PROVE  /\ \A l \in Ends : \A g \in Range(wire'[l]) :
                  \/ g \in Range(wire[l])
                  \/ l = <<d, e>> /\ g = Rest(Head(wire[<<d, e>>]), item)
                  \/ l = <<e, d>> /\ g \in Range(back)
           /\ \A l \in Ends : \A g \in Range(wire[l]) :
                  g \in Range(wire'[l]) \/ (l = <<d, e>> /\ g = Head(wire[<<d, e>>]))
           /\ Head(wire[<<d, e>>]).entries # {item} =>
                  Rest(Head(wire[<<d, e>>]), item) \in Range(wire'[<<d, e>>])
           /\ Head(wire[<<d, e>>]) \in Range(wire[<<d, e>>])
           /\ Range(back) \subseteq Range(wire'[<<e, d>>])
<1>1. Range(wire[<<d, e>>]) = {Head(wire[<<d, e>>])} \cup Range(Tail(wire[<<d, e>>]))
  BY WireTaken
<1>2. wire[<<d, e>>] \in Seq(SoundFrame(written)) /\ wire[<<e, d>>] \in Seq(SoundFrame(written))
  BY DEF IInv, WireOK
<1>3. /\ Head(wire[<<d, e>>]).entries = {item} =>
             Range(Without(wire[<<d, e>>], item)) = Range(Tail(wire[<<d, e>>]))
      /\ Head(wire[<<d, e>>]).entries # {item} =>
             Range(Without(wire[<<d, e>>], item)) =
                 Range(Tail(wire[<<d, e>>])) \cup {Rest(Head(wire[<<d, e>>]), item)}
  BY <1>2, RangeWithout
<1>4. Range(wire[<<e, d>>] \o back) = Range(wire[<<e, d>>]) \cup Range(back)
  <2>1. PICK S : S = SoundFrame(written)
    OBVIOUS
  <2>2. PICK s : s = wire[<<e, d>>]
    OBVIOUS
  <2>3. s \in Seq(S) /\ back \in Seq(S)
    BY <1>2, <2>1, <2>2
  <2>4. Range(s \o back) = Range(s) \cup Range(back)
    BY ONLY <2>3, RangeConcat
  <2> QED
    BY <2>2, <2>4
<1>5. /\ wire'[<<d, e>>] = Without(wire[<<d, e>>], item)
      /\ wire'[<<e, d>>] = wire[<<e, d>>] \o back
      /\ \A l \in Ends \ {<<d, e>>, <<e, d>>} : wire'[l] = wire[l]
  <2>1. <<d, e>> # <<e, d>>
    BY EndsDiffer
  <2> QED
    BY <2>1 DEF IInv, WireOK
<1> QED
  BY <1>1, <1>3, <1>4, <1>5

LEMMA WriteRelationAgrees ==
    ASSUME IInv, IInv', FreshApart, BlankTags, NEW d \in Device, WriteRelation(d)
    PROVE  DKept
<1>1. PICK m : m = Head(queue[d])
  OBVIOUS
<1>2. PICK to : to = {e \in Neighbours(d) \ {m.from} : stage[<<d, e>>] # "down"}
  OBVIOUS
<1>3. /\ queue[d] # <<>> /\ OfRelation(m.change)
      /\ queue' = [queue EXCEPT ![d] = Tail(@)]
      /\ wire' = Sending(to, d, <<ChangeFrame(m.change)>>)
      /\ UNCHANGED <<tag, stage, answer, stamps, base, contested>>
  BY <1>1, <1>2 DEF WriteRelation, Forwarded, session, history
<1>4. m.change \in SoundChange(written) /\ NoTagFrame(ChangeFrame(m.change))
  BY <1>1, <1>3, HeadOK DEF IInv, NoTagFrame, ChangeFrame
<1>5. \A l \in Ends : Range(wire'[l]) = Range(wire[l]) \cup
                          (IF l[1] = d /\ l[2] \in to THEN {ChangeFrame(m.change)} ELSE {})
  <2>1. <<ChangeFrame(m.change)>> \in Seq(SoundFrame(written))
    BY <1>4, ChangeFrameOK
  <2>2. Range(<<ChangeFrame(m.change)>>) = {ChangeFrame(m.change)}
    BY RangeOne
  <2> QED
    BY <1>3, <2>1, <2>2, WireSent
<1>6. /\ \A e \in Device : \A n \in Range(queue'[e]) : n \in Range(queue[e])
      /\ \A e \in Device : \A n \in Range(queue[e]) :
             n \in Range(queue'[e]) \/ OfRelation(n.change)
  BY <1>1, <1>3, QueueTaken
<1>7. \A l \in Ends : /\ \A f \in Range(wire[l]) : f \in Range(wire'[l])
                      /\ \A f \in Range(wire'[l]) : f \in Range(wire[l]) \/ NoTagFrame(f)
  BY <1>4, <1>5
<1>8. FreshApart'
  <2>1. queue'[d] = Tail(queue[d]) /\ \A x \in Device \ {d} : queue'[x] = queue[x]
    BY <1>3 DEF IInv, QueueOK
  <2> QED
    BY <1>3, <2>1, FewerApart
<1>9. Agreed => Agreed'
  BY <1>3, <1>6, <1>7, NoTagStepKeeps DEF Announced
<1> QED
  BY <1>3, <1>8, <1>9, BlankStays DEF DKept

LEMMA ComingUpAgrees ==
    ASSUME IInv, IInv', FreshApart, BlankTags, NEW d \in Device, NEW e \in Device,
           <<d, e>> \in Ends, Register(d, e) \/ AnnounceRelations(d, e)
    PROVE  DKept
<1>1. UNCHANGED <<tag, queue, answer, stamps, base, contested>>
  BY DEF Register, AnnounceRelations, rows, history
<1>2. \A l \in Ends : Announced(l)' => Announced(l)
  BY DEF Register, AnnounceRelations, Announced, IInv, SessionOK
<1>3. \A l \in Ends : /\ \A f \in Range(wire[l]) : f \in Range(wire'[l])
                      /\ \A f \in Range(wire'[l]) : f \in Range(wire[l]) \/ NoTagFrame(f)
  <2>1. CASE Register(d, e)
    BY <2>1 DEF Register
  <2>2. CASE AnnounceRelations(d, e)
    <3>1. PICK frames : frames = Frames("Relations", RelationEntries(d))
      OBVIOUS
    <3>2. wire' = Sending({e}, d, frames)
      BY <2>2, <3>1 DEF AnnounceRelations
    <3>3. frames \in Seq(SoundFrame(written)) /\ \A f \in Range(frames) : NoTagFrame(f)
      <4>1. PICK g : g = [frame |-> "Relations", entries |-> RelationEntries(d)]
        OBVIOUS
      <4>2. g \in SoundFrame(written) /\ NoTagFrame(g)
        BY <4>1, RelationEntriesOK DEF IInv, SoundFrame, NoTagFrame
      <4>3. Range(<<g>>) = {g} /\ <<g>> \in Seq(SoundFrame(written))
        BY <4>2, RangeOne
      <4>4. Range(<<>>) = {} /\ <<>> \in Seq(SoundFrame(written))
        BY DEF Range
      <4>5. frames = <<>> \/ frames = <<g>>
        BY <3>1, <4>1 DEF Frames
      <4>6. CASE frames = <<>>
        BY <4>4, <4>6
      <4>7. CASE frames = <<g>>
        BY <4>2, <4>3, <4>7
      <4> QED
        BY <4>5, <4>6, <4>7
    <3>4. \A l \in Ends : Range(wire'[l]) = Range(wire[l]) \cup
              (IF l[1] = d /\ l[2] \in {e} THEN Range(frames) ELSE {})
      BY <3>2, <3>3, WireSent
    <3> QED
      BY <3>3, <3>4
  <2> QED
    BY <2>1, <2>2
<1>4. FreshApart'
  BY <1>1, FewerApart
<1>5. Agreed => Agreed'
  BY <1>1, <1>2, <1>3, NoTagStepKeeps
<1> QED
  BY <1>1, <1>4, <1>5, BlankStays DEF DKept

LEMMA ReceiveRelationAgrees ==
    ASSUME IInv, IInv', FreshApart, BlankTags, NEW d \in Device, NEW e \in Device,
           <<d, e>> \in Ends, <<e, d>> \in Ends, ReceiveRelation(d, e)
    PROVE  DKept
<1>1. PICK f : f = Head(wire[<<d, e>>])
  OBVIOUS
<1>2. /\ wire[<<d, e>>] # <<>> /\ f.frame = "Relations"
      /\ UNCHANGED <<tag, stage, answer, stamps, base, written, contested>>
  BY <1>1 DEF ReceiveRelation, Incoming, Reading, rows, session, history
<1>3. PICK item \in f.entries :
        /\ queue' = IF item.at > entry[e][item.relation].at
                    THEN Queued(e, [kind |-> IF item.deleted THEN "Untagged" ELSE "Tagged",
                                    relation |-> item.relation, at |-> item.at], d)
                    ELSE queue
        /\ wire' = [wire EXCEPT ![<<d, e>>] = Without(@, item)]
  BY <1>1 DEF ReceiveRelation
<1>4. f \in SoundFrame(written) /\ item \in written /\ item \in Fact
  <2>1. f \in SoundFrame(written)
    BY <1>1, <1>2, WireTaken
  <2> QED
    BY <1>2, <1>3, <2>1, FrameCases
<1>5. PICK g : g = Rest(f, item)
  OBVIOUS
<1>6. g \in SoundFrame(written) /\ NoTagFrame(g) /\ NoTagFrame(f)
  <2>1. g \in SoundFrame(written) /\ g.frame = "Relations"
    BY <1>2, <1>4, <1>5, FrameCases DEF SoundFrame, Rest
  <2> QED
    BY <1>2, <2>1 DEF NoTagFrame
<1>7. /\ \A l \in Ends : \A h \in Range(wire'[l]) : h \in Range(wire[l]) \/ h = g
      /\ \A l \in Ends : \A h \in Range(wire[l]) : h \in Range(wire'[l]) \/ h = f
  <2>1. wire[<<d, e>>] \in Seq(SoundFrame(written))
    BY DEF IInv, WireOK
  <2>2. /\ f.entries = {item} =>
               Range(Without(wire[<<d, e>>], item)) = Range(Tail(wire[<<d, e>>]))
        /\ f.entries # {item} =>
               Range(Without(wire[<<d, e>>], item)) = Range(Tail(wire[<<d, e>>])) \cup {g}
    <3>1. Rest(Head(wire[<<d, e>>]), item) \in SoundFrame(written)
      BY <1>1, <1>5, <1>6
    <3>2. /\ Head(wire[<<d, e>>]).entries = {item} =>
                 Range(Without(wire[<<d, e>>], item)) = Range(Tail(wire[<<d, e>>]))
          /\ Head(wire[<<d, e>>]).entries # {item} =>
                 Range(Without(wire[<<d, e>>], item)) =
                     Range(Tail(wire[<<d, e>>])) \cup {Rest(Head(wire[<<d, e>>]), item)}
      BY <1>2, <2>1, <3>1, RangeWithout
    <3> QED
      BY <1>1, <1>5, <3>2
  <2>3. Range(wire[<<d, e>>]) = {f} \cup Range(Tail(wire[<<d, e>>]))
    BY <1>1, <1>2, WireTaken
  <2>4. /\ wire'[<<d, e>>] = Without(wire[<<d, e>>], item)
        /\ \A l \in Ends \ {<<d, e>>} : wire'[l] = wire[l]
    BY <1>3 DEF IInv, WireOK
  <2> QED
    BY <2>2, <2>3, <2>4
<1>8. /\ \A x \in Device : \A n \in Range(queue[x]) : n \in Range(queue'[x])
      /\ \A x \in Device : \A n \in Range(queue'[x]) : n \in Range(queue[x]) \/ OfRelation(n.change)
      /\ FreshApart'
  <2>1. CASE queue' = queue
    BY <1>2, <2>1, FewerApart
  <2>2. CASE queue' # queue
    <3>1. PICK m : m = [change |-> [kind |-> IF item.deleted THEN "Untagged" ELSE "Tagged",
                                    relation |-> item.relation, at |-> item.at], from |-> d]
      OBVIOUS
    <3>2. queue' = [queue EXCEPT ![e] = Append(@, m)]
      BY <1>3, <2>2, <3>1 DEF Queued
    <3>3. m \in SoundCommand(written') /\ OfRelation(m.change) /\ ~Fresh(m, e)
      <4>1. m.change \in RelationChange /\ FactOf(m.change) = item
        BY <1>4, <3>1 DEF RelationChange, FactOf, Fact
      <4>2. m \in SoundCommand(written')
        BY <1>2, <1>4, <3>1, <4>1 DEF SoundCommand, SoundChange
      <4> QED
        BY <3>1, <4>2 DEF OfRelation, Fresh, InPart
    <3>4. QueueOK' /\ written \subseteq written' /\ stamps \subseteq stamps'
      BY <1>2 DEF IInv
    <3>5. /\ \A x \in Device : \A n \in Range(queue[x]) : n \in Range(queue'[x])
          /\ \A x \in Device : \A n \in Range(queue'[x]) :
                 n \in Range(queue[x]) \/ (x = e /\ n = m)
      BY <3>2, <3>3, <3>4, QueueGiven
    <3>6. FreshApart'
      BY <3>2, <3>3, <3>4, MoreApart
    <3> QED
      BY <3>3, <3>5, <3>6
  <2> QED
    BY <2>1, <2>2
<1>9. \A l \in Ends : Announced(l)' => Announced(l)
  BY <1>2 DEF Announced
<1>10. stamps \subseteq stamps' /\ UNCHANGED <<tag, answer, base>>
  BY <1>2
<1>11. Agreed => Agreed'
  BY <1>6, <1>7, <1>8, <1>9, <1>10, NoTagStepKeeps
<1> QED
  BY <1>2, <1>8, <1>11, BlankStays DEF DKept

\* From now on the other end has heard, or will hear, of every tag there is.
LEMMA AnnounceTagsAgrees ==
    ASSUME IInv, IInv', FreshApart, BlankTags, NEW d \in Device, NEW e \in Device,
           <<d, e>> \in Ends, <<e, d>> \in Ends, AnnounceTags(d, e)
    PROVE  DKept
<1>1. /\ UNCHANGED <<tag, queue, answer, stamps, base, contested>>
      /\ stage' = [stage EXCEPT ![<<d, e>>] = "defined"]
  BY DEF AnnounceTags, rows, history
<1>2. PICK frames : frames = Frames("Definitions", TagEntries(d))
  OBVIOUS
<1>3. PICK g : g = [frame |-> "Definitions", entries |-> TagEntries(d)]
  OBVIOUS
<1>4. /\ frames \in Seq(SoundFrame(written))
      /\ Range(frames) = IF TagEntries(d) = {} THEN {} ELSE {g}
  <2>1. g \in SoundFrame(written)
    BY <1>3, TagEntriesOK DEF IInv, SoundFrame
  <2>2. Range(<<g>>) = {g} /\ <<g>> \in Seq(SoundFrame(written))
    BY <2>1, RangeOne
  <2>3. Range(<<>>) = {} /\ <<>> \in Seq(SoundFrame(written))
    BY DEF Range
  <2>4. frames = IF TagEntries(d) = {} THEN <<>> ELSE <<g>>
    BY <1>2, <1>3 DEF Frames
  <2>5. CASE TagEntries(d) = {}
    BY <2>3, <2>4, <2>5
  <2>6. CASE TagEntries(d) # {}
    BY <2>2, <2>4, <2>6
  <2> QED
    BY <2>5, <2>6
<1>5. \A l \in Ends : Range(wire'[l]) = Range(wire[l]) \cup
                          (IF l[1] = d /\ l[2] \in {e} THEN Range(frames) ELSE {})
  <2>1. wire' = Sending({e}, d, frames)
    BY <1>2 DEF AnnounceTags
  <2> QED
    BY <1>4, <2>1, WireSent
<1>6. TagsRise
  BY <1>1, SameTagsRise
<1>7. FreshApart'
  BY <1>1, FewerApart
<1>8. \A x, y \in Device : <<x, y>> \in Ends =>
          /\ \A f \in Range(wire[<<x, y>>]) : f \in Range(wire'[<<x, y>>])
          /\ \A f \in Range(wire'[<<x, y>>]) :
                 f \in Range(wire[<<x, y>>]) \/ (x = d /\ y = e /\ f = g)
  BY <1>4, <1>5
<1>9. ASSUME Agreed PROVE Agreed'
  <2>1. TagBehind'
    <3>1. \A item \in g.entries : tag'[d][item.tag].at >= item.at
      <4>1. \A item \in g.entries : item.tag \in Tag /\ item.at = tag[d][item.tag].at
        BY <1>3 DEF TagEntries
      <4> QED
        BY <1>1, <4>1, TagAtIsNat
    <3>2. TagFrameBehind(g, d)'
      BY <1>3, <3>1 DEF TagFrameBehind
    <3>3. \A x, y \in Device : <<x, y>> \in Ends =>
              \A f \in Range(wire'[<<x, y>>]) :
                  f \in Range(wire[<<x, y>>]) \/ TagFrameBehind(f, x)'
      BY <1>8, <3>2
    <3> QED
      BY <1>1, <1>6, <1>9, <3>3, BehindKeeps DEF Agreed
  <2>2. TagTold'
    <3> SUFFICES ASSUME NEW x \in Device, NEW y \in Device, <<x, y>> \in Ends,
                        stage'[<<x, y>>] \in {"defined", "reading"},
                        NEW t \in Tag, NEW at \in Nat, at = tag'[x][t].at
                 PROVE  TagComes(x, y, t, at)'
      BY DEF TagTold
    <3>1. CASE stage[<<x, y>>] \in {"defined", "reading"}
      <4>1. TagComes(x, y, t, at)
        BY <1>1, <1>9, <3>1 DEF Agreed, TagTold
      <4>2. <<y, x>> \in Ends
        BY EndsOK
      <4> QED
        BY <1>1, <1>6, <1>8, <4>1, <4>2, TagComesStays
    <3>2. CASE stage[<<x, y>>] \notin {"defined", "reading"}
      <4>1. x = d /\ y = e
        BY <1>1, <3>2 DEF IInv, SessionOK
      <4>2. CASE at = 0
        <5>1. tag'[y][t].at >= at
          BY <4>2, TagAtIsNatThen
        <5> QED
          BY <5>1 DEF TagComes
      <4>3. CASE at # 0
        <5>1. PICK item : item = [tag |-> t, at |-> tag[d][t].at, deleted |-> tag[d][t].deleted]
          OBVIOUS
        <5>2. item \in TagEntries(d) /\ item.tag = t /\ item.at >= at
          BY <1>1, <4>1, <4>3, <5>1 DEF TagEntries, Known
        <5>3. g \in Range(wire'[<<x, y>>])
          BY <1>4, <1>5, <4>1, <5>2
        <5>4. TagCarries(g, t, at)
          BY <1>3, <5>2 DEF TagCarries
        <5> QED
          BY <5>3, <5>4 DEF TagComes
      <4> QED
        BY <4>2, <4>3
    <3> QED
      BY <3>1, <3>2
  <2>3. PICK L, U : Ledger(L, U)
    BY <1>9 DEF Agreed
  <2>4. Ledger(L, U)'
    <3>1. FrameIn(L, U, g)
      BY <1>3 DEF FrameIn
    <3>2. \A x, y \in Device : <<x, y>> \in Ends =>
              \A f \in Range(wire'[<<x, y>>]) : f \in Range(wire[<<x, y>>]) \/ FrameIn(L, U, f)
      BY <1>8, <3>1
    <3> QED
      BY <1>1, <2>3, <3>2, SameLedgerKeeps
  <2> QED
    BY <2>1, <2>2, <2>4 DEF Agreed
<1> QED
  BY <1>1, <1>7, <1>9, BlankStays DEF DKept

\* The answer goes out.
LEMMA SendAnswerAgrees ==
    ASSUME IInv, IInv', FreshApart, BlankTags, NEW d \in Device, NEW e \in Device,
           <<d, e>> \in Ends, <<e, d>> \in Ends, SendAnswer(d, e)
    PROVE  DKept
<1>1. PICK c : c = answer[<<d, e>>]
  OBVIOUS
<1>2. /\ c \in Addition
      /\ wire' = Sending({e}, d, <<ChangeFrame(c)>>)
      /\ answer' = [answer EXCEPT ![<<d, e>>] = Nothing]
      /\ UNCHANGED <<tag, queue, stage, stamps, base, contested>>
  BY <1>1 DEF IInv, SessionOK, SendAnswer, rows, history
<1>3. c \in SoundChange(written)
  BY <1>2 DEF SoundChange
<1>4. PICK g : g = ChangeFrame(c)
  OBVIOUS
<1>5. g.frame = "Change" /\ g.change = c
  BY <1>4 DEF ChangeFrame
<1>6. \A l \in Ends : Range(wire'[l]) = Range(wire[l]) \cup
                          (IF l[1] = d /\ l[2] \in {e} THEN {g} ELSE {})
  <2>1. <<ChangeFrame(c)>> \in Seq(SoundFrame(written)) /\ Range(<<ChangeFrame(c)>>) = {g}
    BY <1>3, <1>4, ChangeFrameOK, RangeOne
  <2> QED
    BY <1>2, <2>1, WireSent
<1>7. \A x, y \in Device : <<x, y>> \in Ends =>
          /\ \A f \in Range(wire[<<x, y>>]) : f \in Range(wire'[<<x, y>>])
          /\ \A f \in Range(wire'[<<x, y>>]) :
                 f \in Range(wire[<<x, y>>]) \/ (x = d /\ y = e /\ f = g)
  BY <1>6
<1>8. g \in Range(wire'[<<d, e>>])
  BY <1>6
<1>9. \A x, y \in Device : <<x, y>> \in Ends =>
          \/ answer'[<<x, y>>] = answer[<<x, y>>] /\ (x # d \/ y # e)
          \/ answer'[<<x, y>>] = Nothing /\ x = d /\ y = e
  BY <1>2 DEF IInv, SessionOK
<1>10. TagsRise
  BY <1>2, SameTagsRise
<1>11. FreshApart'
  BY <1>2, FewerApart
<1>12. ASSUME Agreed PROVE Agreed'
  <2>1. TagBehind'
    <3>1. Past(d, c)
      BY <1>1, <1>12 DEF Agreed, TagBehind
    <3>2. TagFrameBehind(g, d)'
      BY <1>2, <1>5, <3>1 DEF TagFrameBehind, Past
    <3>3. \A x, y \in Device : <<x, y>> \in Ends =>
              \A f \in Range(wire'[<<x, y>>]) :
                  f \in Range(wire[<<x, y>>]) \/ TagFrameBehind(f, x)'
      BY <1>7, <3>2
    <3>4. \A x, y \in Device : <<x, y>> \in Ends =>
              answer'[<<x, y>>] = answer[<<x, y>>] \/ Past(x, answer[<<x, y>>])'
      <4> SUFFICES ASSUME NEW x \in Device, NEW y \in Device, <<x, y>> \in Ends,
                          answer'[<<x, y>>] = Nothing
                   PROVE  Past(x, answer[<<x, y>>])'
        BY <1>9
      <4>1. answer'[<<x, y>>].kind = "nothing"
        BY DEF Nothing
      <4> QED
        BY <4>1 DEF Past
    <3> QED
      BY <1>2, <1>10, <1>12, <3>3, <3>4, BehindKeeps DEF Agreed
  <2>2. TagTold'
    <3> SUFFICES ASSUME NEW x \in Device, NEW y \in Device, <<x, y>> \in Ends,
                        stage'[<<x, y>>] \in {"defined", "reading"},
                        NEW t \in Tag, NEW at \in Nat, at = tag'[x][t].at
                 PROVE  TagComes(x, y, t, at)'
      BY DEF TagTold
    <3>1. TagComes(x, y, t, at) /\ <<y, x>> \in Ends
      BY <1>2, <1>12, EndsOK DEF Agreed, TagTold
    <3>2. TagBrings(answer[<<x, y>>], t, at) =>
              answer'[<<x, y>>] = answer[<<x, y>>] \/ TagComes(x, y, t, at)'
      <4> SUFFICES ASSUME TagBrings(c, t, at), x = d, y = e PROVE TagComes(x, y, t, at)'
        BY <1>1, <1>9
      <4>1. TagCarries(g, t, at)
        BY <1>5 DEF TagCarries
      <4> QED
        BY <1>8, <4>1 DEF TagComes
    <3> QED
      BY <1>2, <1>7, <1>10, <3>1, <3>2, TagComesStays
  <2>3. PICK L, U : Ledger(L, U)
    BY <1>12 DEF Agreed
  <2>4. Ledger(L, U)'
    <3>1. FrameIn(L, U, g) /\ ChangeIn(L, U, Nothing)
      BY <1>1, <1>5, <2>3 DEF FrameIn, Ledger, ChangeIn, Nothing, InPart
    <3>2. \A x, y \in Device : <<x, y>> \in Ends =>
              \A f \in Range(wire'[<<x, y>>]) : f \in Range(wire[<<x, y>>]) \/ FrameIn(L, U, f)
      BY <1>7, <3>1
    <3>3. \A x, y \in Device : <<x, y>> \in Ends =>
              answer'[<<x, y>>] = answer[<<x, y>>] \/ ChangeIn(L, U, answer'[<<x, y>>])
      BY <1>9, <3>1
    <3> QED
      BY <1>2, <2>3, <3>2, <3>3, SameLedgerKeeps
  <2> QED
    BY <2>1, <2>2, <2>4 DEF Agreed
<1> QED
  BY <1>2, <1>11, <1>12, BlankStays DEF DKept

\* A change that comes in waits for the writer.
LEMMA ReceiveChangeAgrees ==
    ASSUME IInv, IInv', FreshApart, BlankTags, NEW d \in Device, NEW e \in Device,
           <<d, e>> \in Ends, <<e, d>> \in Ends, ReceiveChange(d, e)
    PROVE  DKept
<1>1. PICK f : f = Head(wire[<<d, e>>])
  OBVIOUS
<1>2. PICK m : m = [change |-> f.change, from |-> d]
  OBVIOUS
<1>3. /\ wire[<<d, e>>] # <<>> /\ f.frame = "Change"
      /\ queue' = [queue EXCEPT ![e] = Append(@, m)]
      /\ wire' = [wire EXCEPT ![<<d, e>>] = Tail(@)]
      /\ UNCHANGED <<tag, stage, answer, stamps, base, written, contested>>
  BY <1>1, <1>2 DEF ReceiveChange, Incoming, Reading, Queued, rows, session, history
<1>4. TagsRise
  BY <1>3, SameTagsRise
<1>5. f \in SoundFrame(written) /\ d # e
  BY <1>1, <1>3, WireTaken, EndsDiffer
<1>6. /\ f \in Range(wire[<<d, e>>])
      /\ \A l \in Ends : \A g \in Range(wire'[l]) : g \in Range(wire[l])
      /\ \A l \in Ends : \A g \in Range(wire[l]) :
             g \in Range(wire'[l]) \/ (l = <<d, e>> /\ g = f)
  BY <1>1, <1>3, FrameTaken
<1>7. m \in SoundCommand(written') /\ m.change = f.change /\ m.from = d /\ ~Fresh(m, e)
  BY <1>2, <1>3, <1>5, FrameCases DEF SoundCommand, Fresh
<1>8. QueueOK' /\ written \subseteq written' /\ stamps \subseteq stamps'
  BY <1>3 DEF IInv
<1>9. /\ m \in Range(queue'[e])
      /\ \A x \in Device : \A n \in Range(queue[x]) : n \in Range(queue'[x])
      /\ \A x \in Device : \A n \in Range(queue'[x]) : n \in Range(queue[x]) \/ (x = e /\ n = m)
  BY <1>3, <1>7, <1>8, QueueGiven
<1>10. FreshApart'
  BY <1>3, <1>7, <1>8, MoreApart
<1>11. ASSUME Agreed PROVE Agreed'
  <2>1. TagBehind'
    <3>1. TagFrameBehind(f, d)
      BY <1>6, <1>11 DEF Agreed, TagBehind
    <3>2. Past(d, m.change)
      BY <1>3, <1>7, <3>1 DEF TagFrameBehind
    <3>3. TagCommandBehind(m, e)'
      BY <1>3, <1>7, <3>2 DEF TagCommandBehind, Past
    <3>4. \A x \in Device : \A n \in Range(queue'[x]) :
              n \in Range(queue[x]) \/ TagCommandBehind(n, x)'
      BY <1>9, <3>3
    <3> QED
      BY <1>3, <1>4, <1>6, <1>11, <3>4, BehindKeeps DEF Agreed
  <2>2. TagTold'
    <3> SUFFICES ASSUME NEW x \in Device, NEW y \in Device, <<x, y>> \in Ends,
                        stage'[<<x, y>>] \in {"defined", "reading"},
                        NEW t \in Tag, NEW at \in Nat, at = tag'[x][t].at
                 PROVE  TagComes(x, y, t, at)'
      BY DEF TagTold
    <3>1. TagComes(x, y, t, at) /\ <<y, x>> \in Ends
      BY <1>3, <1>11, EndsOK DEF Agreed, TagTold
    <3>2. \A g \in Range(wire[<<x, y>>]) :
              TagCarries(g, t, at) => g \in Range(wire'[<<x, y>>]) \/ TagComes(x, y, t, at)'
      <4> SUFFICES ASSUME TagCarries(f, t, at), x = d, y = e PROVE TagComes(x, y, t, at)'
        BY <1>6
      <4>1. TagBrings(m.change, t, at)
        BY <1>3, <1>7 DEF TagCarries
      <4> QED
        BY <1>9, <4>1 DEF TagComes
    <3>3. \A g \in Range(wire[<<y, x>>]) : Asks(g, t) => g \in Range(wire'[<<y, x>>])
      BY <1>3, <1>6, <3>1 DEF Asks
    <3> QED
      BY <1>3, <1>4, <1>9, <3>1, <3>2, <3>3, TagComesStays
  <2>3. PICK L, U : Ledger(L, U)
    BY <1>11 DEF Agreed
  <2>4. Ledger(L, U)'
    <3>1. CommandIn(L, U, m, e)
      BY <1>3, <1>6, <1>7, <2>3 DEF Ledger, FrameIn, CommandIn
    <3>2. \A x \in Device : \A n \in Range(queue'[x]) :
              n \in Range(queue[x]) \/ CommandIn(L, U, n, x)
      BY <1>9, <3>1
    <3> QED
      BY <1>3, <1>6, <1>8, <2>3, <3>2, SameLedgerKeeps
  <2> QED
    BY <2>1, <2>2, <2>4 DEF Agreed
<1> QED
  BY <1>3, <1>10, <1>11, BlankStays DEF DKept

\* A request is answered with the definition there is.
LEMMA ReceiveRequestAgrees ==
    ASSUME IInv, IInv', FreshApart, BlankTags, NEW d \in Device, NEW e \in Device,
           <<d, e>> \in Ends, <<e, d>> \in Ends, ReceiveRequest(d, e)
    PROVE  DKept
<1>1. PICK f : f = Head(wire[<<d, e>>])
  OBVIOUS
<1>2. PICK u : u = f.tag
  OBVIOUS
<1>3. PICK c : c = TagAdded(u, tag[e][u].name, tag[e][u].style, tag[e][u].at)
  OBVIOUS
<1>4. /\ wire[<<d, e>>] # <<>> /\ f.frame = "TagRequest" /\ answer[<<e, d>>] = Nothing
      /\ wire' = [wire EXCEPT ![<<d, e>>] = Tail(@)]
      /\ answer' = [answer EXCEPT ![<<e, d>>] = c]
      /\ contested' = (contested \/ tag[e][u].deleted)
      /\ UNCHANGED <<tag, queue, stage, stamps, base, written>>
  <2>1. /\ wire[<<d, e>>] # <<>> /\ f.frame = "TagRequest" /\ answer[<<e, d>>] = Nothing
        /\ wire' = [wire EXCEPT ![<<d, e>>] = Tail(@)]
        /\ UNCHANGED <<tag, queue, stage, stamps, base, written>>
    BY <1>1 DEF ReceiveRequest, Incoming, Reading, rows, history
  <2>2. /\ answer' = [answer EXCEPT ![<<e, d>>] =
                           TagAdded(f.tag, tag[e][f.tag].name, tag[e][f.tag].style, tag[e][f.tag].at)]
        /\ contested' = (contested \/ tag[e][f.tag].deleted)
    BY <1>1 DEF ReceiveRequest
  <2>3. answer' = [answer EXCEPT ![<<e, d>>] = c]
    BY <1>2, <1>3, <2>2
  <2>4. contested' = (contested \/ tag[e][u].deleted)
    BY <1>2, <2>2
  <2> QED
    BY <2>1, <2>3, <2>4
<1>5. TagsRise
  BY <1>4, SameTagsRise
<1>6. f \in SoundFrame(written) /\ u \in Tag
  <2>1. f \in SoundFrame(written)
    BY <1>1, <1>4, WireTaken
  <2> QED
    BY <1>2, <1>4, <2>1, FrameCases
<1>7. /\ \A l \in Ends : \A g \in Range(wire'[l]) : g \in Range(wire[l])
      /\ \A l \in Ends : \A g \in Range(wire[l]) :
             g \in Range(wire'[l]) \/ (l = <<d, e>> /\ g = f)
  BY <1>1, <1>4, FrameTaken
<1>8. \A x, y \in Device : <<x, y>> \in Ends =>
          \/ answer'[<<x, y>>] = answer[<<x, y>>] /\ (x # e \/ y # d)
          \/ answer'[<<x, y>>] = c /\ x = e /\ y = d
  BY <1>4 DEF IInv, SessionOK
<1>9. answer'[<<e, d>>] = c
  BY <1>4 DEF IInv, SessionOK
<1>10. /\ c.kind = "TagAdded" /\ c.tag = u /\ c.name = tag[e][u].name
       /\ c.style = tag[e][u].style /\ c.at = tag[e][u].at
       /\ ~OfRelation(c) /\ ~InPart(c)
  BY <1>3 DEF TagAdded, OfRelation, InPart
<1>11. FreshApart'
  BY <1>4, FewerApart
<1>12. ASSUME Agreed, ~contested' PROVE Agreed'
  <2>1. TagBehind'
    <3>1. \A x, y \in Device : <<x, y>> \in Ends =>
              answer'[<<x, y>>] = answer[<<x, y>>] \/ Past(x, answer[<<x, y>>])'
      <4> SUFFICES ASSUME NEW x \in Device, NEW y \in Device, <<x, y>> \in Ends,
                          answer'[<<x, y>>] = c, x = e
                   PROVE  Past(x, answer[<<x, y>>])'
        BY <1>8
      <4>1. tag'[e][c.tag].at >= c.at
        BY <1>4, <1>6, <1>10, TagAtIsNat
      <4> QED
        BY <4>1 DEF Past
    <3> QED
      BY <1>4, <1>5, <1>7, <1>12, <3>1, BehindKeeps DEF Agreed
  <2>2. TagTold'
    <3> SUFFICES ASSUME NEW x \in Device, NEW y \in Device, <<x, y>> \in Ends,
                        stage'[<<x, y>>] \in {"defined", "reading"},
                        NEW t \in Tag, NEW at \in Nat, at = tag'[x][t].at
                 PROVE  TagComes(x, y, t, at)'
      BY DEF TagTold
    <3>1. TagComes(x, y, t, at) /\ <<y, x>> \in Ends
      BY <1>4, <1>12, EndsOK DEF Agreed, TagTold
    <3>2. \A g \in Range(wire[<<x, y>>]) : TagCarries(g, t, at) => g \in Range(wire'[<<x, y>>])
      BY <1>4, <1>7 DEF TagCarries
    <3>3. \A g \in Range(wire[<<y, x>>]) :
              Asks(g, t) => g \in Range(wire'[<<y, x>>]) \/ TagComes(x, y, t, at)'
      <4> SUFFICES ASSUME Asks(f, t), x = e, y = d PROVE TagComes(x, y, t, at)'
        BY <1>7, <3>1
      <4>1. u = t
        BY <1>2 DEF Asks
      <4>2. TagBrings(c, t, at)
        BY <1>4, <1>10, <4>1, TagAtIsNat DEF TagBrings
      <4> QED
        BY <1>9, <4>2 DEF TagComes
    <3>4. TagBrings(answer[<<x, y>>], t, at) => answer'[<<x, y>>] = answer[<<x, y>>]
      <4>1. CASE x = e /\ y = d
        BY <1>4, <4>1 DEF TagBrings, Nothing
      <4>2. CASE x # e \/ y # d
        BY <1>8, <4>2
      <4> QED
        BY <4>1, <4>2
    <3> QED
      BY <1>4, <1>5, <3>1, <3>2, <3>3, <3>4, TagComesStays
  <2>3. PICK L, U : Ledger(L, U)
    BY <1>12 DEF Agreed
  <2>4. Ledger(L, U)'
    <3>1. ChangeIn(L, U, c)
      <4>1. RowIn(L, U, u, tag[e][u]) /\ tag[e][u] \in Definition /\ ~tag[e][u].deleted
        BY <1>4, <1>6, <1>12, <2>3, TagAtIsNat DEF Ledger
      <4>2. tag[e][u] = [name |-> c.name, style |-> c.style, deleted |-> FALSE, at |-> c.at]
        BY <1>10, <4>1 DEF Definition
      <4> QED
        BY <1>10, <4>1, <4>2 DEF ChangeIn, RowIn
    <3>2. \A x, y \in Device : <<x, y>> \in Ends =>
              answer'[<<x, y>>] = answer[<<x, y>>] \/ ChangeIn(L, U, answer'[<<x, y>>])
      BY <1>8, <3>1
    <3> QED
      BY <1>4, <1>7, <2>3, <3>2, SameLedgerKeeps
  <2> QED
    BY <2>1, <2>2, <2>4 DEF Agreed
<1> QED
  BY <1>4, <1>11, <1>12, BlankStays DEF DKept

\* An item about a definition: its deletion is queued, anything else asked for.
LEMMA ReceiveDefinitionAgrees ==
    ASSUME IInv, IInv', FreshApart, BlankTags, NEW d \in Device, NEW e \in Device,
           <<d, e>> \in Ends, <<e, d>> \in Ends, ReceiveDefinition(d, e)
    PROVE  DKept
<1>1. PICK f : f = Head(wire[<<d, e>>])
  OBVIOUS
<1>2. /\ wire[<<d, e>>] # <<>> /\ f.frame = "Definitions"
      /\ UNCHANGED <<tag, stage, answer, stamps, base, written, contested>>
  BY <1>1 DEF ReceiveDefinition, Incoming, Reading, rows, session, history
<1>3. PICK item \in f.entries :
        /\ queue' = IF Needed(tag[e][item.tag], item) /\ item.deleted
                    THEN Queued(e, [kind |-> "TagRemoved", tag |-> item.tag,
                                    at |-> item.at, on |-> base[item.tag][item.at]], d)
                    ELSE queue
        /\ wire' = [wire EXCEPT ![<<d, e>>] = Without(@, item),
                                ![<<e, d>>] = @ \o Requests(e, item)]
  BY <1>1 DEF ReceiveDefinition
<1>4. TagsRise /\ d # e
  BY <1>2, SameTagsRise, EndsDiffer
<1>5. f \in SoundFrame(written) /\ item \in Item
  <2>1. f \in SoundFrame(written)
    BY <1>1, <1>2, WireTaken
  <2> QED
    BY <1>2, <1>3, <2>1, FrameCases
<1>6. item.tag \in Tag /\ item.at \in At /\ item.at \in Nat /\ tag[e][item.tag].at \in Nat
  BY <1>5, StampsArePositive, TagAtIsNat DEF Item
<1>7. PICK g : g = Rest(f, item)
  OBVIOUS
<1>8. g \in SoundFrame(written) /\ g.frame = "Definitions" /\ g.entries = f.entries \ {item}
  BY <1>2, <1>5, <1>7, FrameCases DEF SoundFrame, Rest
<1>9. PICK h : h = [frame |-> "TagRequest", tag |-> item.tag]
  OBVIOUS
<1>10. h \in SoundFrame(written) /\ h.frame = "TagRequest" /\ h.tag = item.tag
  BY <1>6, <1>9 DEF SoundFrame
<1>11. PICK back : back = Requests(e, item)
  OBVIOUS
<1>12. /\ back \in Seq(SoundFrame(written))
       /\ Range(back) = IF Needed(tag[e][item.tag], item) /\ ~item.deleted THEN {h} ELSE {}
  <2>1. Range(<<h>>) = {h} /\ <<h>> \in Seq(SoundFrame(written))
    BY <1>10, RangeOne
  <2>2. Range(<<>>) = {} /\ <<>> \in Seq(SoundFrame(written))
    BY DEF Range
  <2>3. back = IF Needed(tag[e][item.tag], item) /\ ~item.deleted THEN <<h>> ELSE <<>>
    BY <1>9, <1>11 DEF Requests
  <2>4. CASE Needed(tag[e][item.tag], item) /\ ~item.deleted
    BY <2>1, <2>3, <2>4
  <2>5. CASE ~(Needed(tag[e][item.tag], item) /\ ~item.deleted)
    BY <2>2, <2>3, <2>5
  <2> QED
    BY <2>4, <2>5
<1>13. /\ \A l \in Ends : \A o \in Range(wire'[l]) :
              \/ o \in Range(wire[l])
              \/ l = <<d, e>> /\ o = g
              \/ l = <<e, d>> /\ o \in Range(back)
       /\ \A l \in Ends : \A o \in Range(wire[l]) :
              o \in Range(wire'[l]) \/ (l = <<d, e>> /\ o = f)
       /\ f.entries # {item} => g \in Range(wire'[<<d, e>>])
       /\ f \in Range(wire[<<d, e>>])
       /\ Range(back) \subseteq Range(wire'[<<e, d>>])
  <2>1. Rest(Head(wire[<<d, e>>]), item) \in SoundFrame(written)
    BY <1>1, <1>7, <1>8
  <2>2. wire' = [wire EXCEPT ![<<d, e>>] = Without(@, item), ![<<e, d>>] = @ \o back]
    BY <1>3, <1>11
  <2>3. /\ \A l \in Ends : \A o \in Range(wire'[l]) :
               \/ o \in Range(wire[l])
               \/ l = <<d, e>> /\ o = Rest(Head(wire[<<d, e>>]), item)
               \/ l = <<e, d>> /\ o \in Range(back)
        /\ \A l \in Ends : \A o \in Range(wire[l]) :
               o \in Range(wire'[l]) \/ (l = <<d, e>> /\ o = Head(wire[<<d, e>>]))
        /\ Head(wire[<<d, e>>]).entries # {item} =>
               Rest(Head(wire[<<d, e>>]), item) \in Range(wire'[<<d, e>>])
        /\ Head(wire[<<d, e>>]) \in Range(wire[<<d, e>>])
        /\ Range(back) \subseteq Range(wire'[<<e, d>>])
    BY <1>2, <1>12, <2>1, <2>2, ItemTaken
  <2> QED
    BY <1>1, <1>7, <2>3
<1>14. PICK c : c = Deletion(item.tag, item.at, base[item.tag][item.at])
  OBVIOUS
<1>15. /\ c \in SoundChange(written) /\ c.tag = item.tag /\ c.at = item.at
       /\ c.kind = "TagRemoved" /\ ~OfRelation(c)
  <2>1. base[item.tag][item.at] \in At
    BY <1>6 DEF IInv, FactsOK
  <2> QED
    BY <1>6, <1>14, <2>1 DEF Deletion, SoundChange, PartChange, OfRelation
<1>16. PICK m : m = [change |-> c, from |-> d]
  OBVIOUS
<1>17. m \in SoundCommand(written') /\ m.change = c /\ m.from = d /\ ~Fresh(m, e)
  BY <1>2, <1>4, <1>15, <1>16 DEF SoundCommand, Fresh
<1>18. /\ FreshApart'
       /\ \A x \in Device : \A n \in Range(queue[x]) : n \in Range(queue'[x])
       /\ \A x \in Device : \A n \in Range(queue'[x]) :
              n \in Range(queue[x]) \/ (x = e /\ n = m)
       /\ Needed(tag[e][item.tag], item) /\ item.deleted => m \in Range(queue'[e])
  <2>1. CASE Needed(tag[e][item.tag], item) /\ item.deleted
    <3>1. queue' = [queue EXCEPT ![e] = Append(@, m)]
      BY <1>3, <1>14, <1>16, <2>1 DEF Queued, Deletion
    <3>2. QueueOK' /\ written \subseteq written' /\ stamps \subseteq stamps'
      BY <1>2 DEF IInv
    <3>3. /\ m \in Range(queue'[e])
          /\ \A x \in Device : \A n \in Range(queue[x]) : n \in Range(queue'[x])
          /\ \A x \in Device : \A n \in Range(queue'[x]) :
                 n \in Range(queue[x]) \/ (x = e /\ n = m)
      BY <1>17, <3>1, <3>2, QueueGiven
    <3>4. FreshApart'
      BY <1>17, <3>1, <3>2, MoreApart
    <3> QED
      BY <3>3, <3>4
  <2>2. CASE ~(Needed(tag[e][item.tag], item) /\ item.deleted)
    <3>1. queue' = queue
      BY <1>3, <2>2
    <3> QED
      BY <1>2, <2>2, <3>1, FewerApart
  <2> QED
    BY <2>1, <2>2
<1>19. ASSUME Agreed PROVE Agreed'
  <2>1. TagFrameBehind(f, d) /\ \A other \in f.entries : tag[d][other.tag].at >= other.at
    BY <1>2, <1>13, <1>19 DEF Agreed, TagBehind, TagFrameBehind
  <2>2. TagBehind'
    <3>1. TagCommandBehind(m, e)'
      BY <1>2, <1>3, <1>15, <1>17, <2>1 DEF TagCommandBehind, Past
    <3>2. \A x \in Device : \A n \in Range(queue'[x]) :
              n \in Range(queue[x]) \/ TagCommandBehind(n, x)'
      BY <1>18, <3>1
    <3>3. TagFrameBehind(g, d)'
      BY <1>2, <1>8, <2>1 DEF TagFrameBehind
    <3>4. \A o \in Range(back) : TagFrameBehind(o, e)'
      BY <1>10, <1>12 DEF TagFrameBehind
    <3>5. \A x, y \in Device : <<x, y>> \in Ends =>
              \A o \in Range(wire'[<<x, y>>]) :
                  o \in Range(wire[<<x, y>>]) \/ TagFrameBehind(o, x)'
      BY <1>13, <3>3, <3>4
    <3> QED
      BY <1>2, <1>4, <1>19, <3>2, <3>5, BehindKeeps DEF Agreed
  <2>3. TagTold'
    <3> SUFFICES ASSUME NEW x \in Device, NEW y \in Device, <<x, y>> \in Ends,
                        stage'[<<x, y>>] \in {"defined", "reading"},
                        NEW t \in Tag, NEW at \in Nat, at = tag'[x][t].at
                 PROVE  TagComes(x, y, t, at)'
      BY DEF TagTold
    <3>1. TagComes(x, y, t, at) /\ <<y, x>> \in Ends
      BY <1>2, <1>19, EndsOK DEF Agreed, TagTold
    <3>2. \A o \in Range(wire[<<x, y>>]) :
              TagCarries(o, t, at) => o \in Range(wire'[<<x, y>>]) \/ TagComes(x, y, t, at)'
      <4> SUFFICES ASSUME TagCarries(f, t, at), x = d, y = e PROVE TagComes(x, y, t, at)'
        BY <1>13
      <4>1. PICK other \in f.entries : other.tag = t /\ other.at >= at
        BY <1>2 DEF TagCarries
      <4>2. CASE other # item
        <5>1. g \in Range(wire'[<<x, y>>]) /\ other \in g.entries
          BY <1>8, <1>13, <4>1, <4>2
        <5>2. TagCarries(g, t, at)
          BY <1>8, <4>1, <5>1 DEF TagCarries
        <5> QED
          BY <5>1, <5>2 DEF TagComes
      <4>3. CASE other = item /\ ~Needed(tag[e][item.tag], item)
        <5>1. tag'[y][t].at >= at
          BY <1>2, <1>6, <4>1, <4>3 DEF Needed
        <5> QED
          BY <5>1 DEF TagComes
      <4>4. CASE other = item /\ Needed(tag[e][item.tag], item) /\ item.deleted
        <5>1. TagBrings(m.change, t, at)
          BY <1>15, <1>17, <4>1, <4>4 DEF TagBrings
        <5> QED
          BY <1>18, <4>4, <5>1 DEF TagComes
      <4>5. CASE other = item /\ Needed(tag[e][item.tag], item) /\ ~item.deleted
        <5>1. h \in Range(wire'[<<y, x>>]) /\ Asks(h, t)
          BY <1>10, <1>12, <1>13, <4>1, <4>5 DEF Asks
        <5> QED
          BY <5>1 DEF TagComes
      <4> QED
        BY <4>2, <4>3, <4>4, <4>5
    <3>3. \A o \in Range(wire[<<y, x>>]) : Asks(o, t) => o \in Range(wire'[<<y, x>>])
      BY <1>2, <1>13, <3>1 DEF Asks
    <3> QED
      BY <1>2, <1>4, <1>18, <3>1, <3>2, <3>3, TagComesStays
  <2>4. PICK L, U : Ledger(L, U)
    BY <1>19 DEF Agreed
  <2>5. Ledger(L, U)'
    <3>1. CommandIn(L, U, m, e)
      <4>1. ChangeIn(L, U, c)
        BY <1>6, <1>14, <2>4 DEF Ledger
      <4> QED
        BY <1>17, <4>1 DEF CommandIn
    <3>2. \A x \in Device : \A n \in Range(queue'[x]) :
              n \in Range(queue[x]) \/ CommandIn(L, U, n, x)
      BY <1>18, <3>1
    <3>3. FrameIn(L, U, g) /\ \A o \in Range(back) : FrameIn(L, U, o)
      BY <1>8, <1>10, <1>12 DEF FrameIn
    <3>4. \A x, y \in Device : <<x, y>> \in Ends =>
              \A o \in Range(wire'[<<x, y>>]) : o \in Range(wire[<<x, y>>]) \/ FrameIn(L, U, o)
      BY <1>13, <3>3
    <3> QED
      BY <1>2, <2>4, <3>2, <3>4, SameLedgerKeeps
  <2> QED
    BY <2>2, <2>3, <2>5 DEF Agreed
<1> QED
  BY <1>2, <1>18, <1>19, BlankStays DEF DKept

-----------------------------------------------------------------------------
\* A link that breaks has to announce again.
LEMMA DownAgrees ==
    ASSUME IInv, IInv', FreshApart, BlankTags, NEW broken, Down(broken),
           \A d \in Device : \/ queue'[d] = queue[d]
                             \/ queue'[d] = <<>> /\ \A e \in Device : {e, d} \in Tree => {e, d} \in broken
    PROVE  DKept
<1>1. /\ UNCHANGED <<tag, stamps, base, contested>>
      /\ stage' = [l \in Ends |-> IF {l[1], l[2]} \in broken THEN "down" ELSE stage[l]]
      /\ answer' = [l \in Ends |-> IF {l[1], l[2]} \in broken THEN Nothing ELSE answer[l]]
      /\ wire' = [l \in Ends |-> IF {l[1], l[2]} \in broken THEN <<>> ELSE wire[l]]
  BY DEF Down, rows, history
<1>2. Range(<<>>) = {}
  BY DEF Range
<1>3. TagsRise
  BY <1>1, SameTagsRise
<1>4. FreshApart'
  BY <1>1, FewerApart
<1>5. /\ \A x \in Device : \A n \in Range(queue'[x]) : n \in Range(queue[x])
      /\ \A x, y \in Device : <<x, y>> \in Ends =>
             \A f \in Range(wire'[<<x, y>>]) : f \in Range(wire[<<x, y>>])
  BY <1>1, <1>2
<1>6. \A x, y \in Device : <<x, y>> \in Ends =>
          answer'[<<x, y>>] = answer[<<x, y>>] \/ answer'[<<x, y>>] = Nothing
  BY <1>1
<1>7. Nothing.kind = "nothing"
  BY DEF Nothing
<1>8. ASSUME Agreed PROVE Agreed'
  <2>1. TagBehind'
    <3>1. \A x, y \in Device : <<x, y>> \in Ends =>
              answer'[<<x, y>>] = answer[<<x, y>>] \/ Past(x, answer[<<x, y>>])'
      <4> SUFFICES ASSUME NEW x \in Device, NEW y \in Device, <<x, y>> \in Ends,
                          answer'[<<x, y>>] = Nothing
                   PROVE  Past(x, answer[<<x, y>>])'
        BY <1>6
      <4>1. answer'[<<x, y>>].kind = "nothing"
        BY <1>7
      <4> QED
        BY <4>1 DEF Past
    <3> QED
      BY <1>3, <1>5, <1>8, <3>1, BehindKeeps DEF Agreed
  <2>2. TagTold'
    <3> SUFFICES ASSUME NEW x \in Device, NEW y \in Device, <<x, y>> \in Ends,
                        stage'[<<x, y>>] \in {"defined", "reading"},
                        NEW t \in Tag, NEW at \in Nat, at = tag'[x][t].at
                 PROVE  TagComes(x, y, t, at)'
      BY DEF TagTold
    <3>1. <<y, x>> \in Ends /\ {y, x} = {x, y}
      BY EndsOK
    <3>2. /\ {x, y} \notin broken /\ stage[<<x, y>>] \in {"defined", "reading"}
          /\ wire'[<<x, y>>] = wire[<<x, y>>] /\ answer'[<<x, y>>] = answer[<<x, y>>]
      BY <1>1
    <3>3. wire'[<<y, x>>] = wire[<<y, x>>]
      BY <1>1, <3>1, <3>2
    <3>4. queue'[y] = queue[y]
      BY <3>2 DEF Ends
    <3>5. TagComes(x, y, t, at)
      BY <1>1, <1>8, <3>2 DEF Agreed, TagTold
    <3> QED
      BY <1>3, <3>2, <3>3, <3>4, <3>5, TagComesStays
  <2>3. PICK L, U : Ledger(L, U)
    BY <1>8 DEF Agreed
  <2>4. Ledger(L, U)'
    <3>1. ChangeIn(L, U, Nothing)
      BY DEF ChangeIn, Nothing, InPart
    <3>2. \A x, y \in Device : <<x, y>> \in Ends =>
              answer'[<<x, y>>] = answer[<<x, y>>] \/ ChangeIn(L, U, answer'[<<x, y>>])
      BY <1>6, <3>1
    <3> QED
      BY <1>1, <1>5, <2>3, <3>2, SameLedgerKeeps
  <2> QED
    BY <2>1, <2>2, <2>4 DEF Agreed
<1> QED
  BY <1>1, <1>4, <1>8, BlankStays DEF DKept

\* What every device has to begin with.
First == [t \in Tag |-> [at \in At |-> [NoTag EXCEPT !.at = 1]]]

LEMMA InitAgrees == Init => DInv
<1> SUFFICES ASSUME Init PROVE DInv
  OBVIOUS
<1>1. IInv
  BY InitIInv
<1>2. Range(<<>>) = {}
  BY DEF Range
<1>3. /\ queue = [d \in Device |-> <<>>] /\ wire = [l \in Ends |-> <<>>]
      /\ answer = [l \in Ends |-> Nothing] /\ stage = [l \in Ends |-> "down"]
      /\ tag = [d \in Device |-> [t \in Tag |->
                   IF t \in Everywhere THEN [NoTag EXCEPT !.at = 1] ELSE NoTag]]
  BY DEF Init
<1>4. BlankTags
  BY <1>3, NoTagOK DEF BlankTags, Definition
<1>5. FreshApart
  BY <1>2, <1>3 DEF FreshApart, Apart
<1>6. TagBehind /\ TagTold
  <2>1. \A d \in Device : Past(d, Nothing)
    BY DEF Past, Nothing
  <2>2. TagBehind
    BY <1>2, <1>3, <2>1 DEF TagBehind
  <2>3. TagTold
    BY <1>3 DEF TagTold
  <2> QED
    BY <2>2, <2>3
<1>7. Ledger(First, {1})
  <2>1. First \in Ledgers
    BY NoTagOK DEF First, Ledgers, Definition, At
  <2>2. \A d \in Device, t \in Tag : RowIn(First, {1}, t, tag[d][t])
    <3> SUFFICES ASSUME NEW d \in Device, NEW t \in Tag
                 PROVE  RowIn(First, {1}, t, tag[d][t])
      OBVIOUS
    <3>1. 1 \in At /\ NoTag.at = 0 /\ [NoTag EXCEPT !.at = 1].at = 1
      BY DEF At, NoTag
    <3>2. First[t][1] = [NoTag EXCEPT !.at = 1]
      BY <3>1 DEF First
    <3>3. tag[d][t] = [NoTag EXCEPT !.at = 1] \/ tag[d][t] = NoTag
      BY <1>3
    <3>4. CASE tag[d][t] = NoTag
      <4>1. tag[d][t].at = 0
        BY <3>1, <3>4
      <4> QED
        BY <4>1 DEF RowIn
    <3>5. CASE tag[d][t] = [NoTag EXCEPT !.at = 1]
      <4>1. tag[d][t].at = 1
        BY <3>1, <3>5
      <4>2. tag[d][t] = First[t][tag[d][t].at]
        BY <3>2, <3>5, <4>1
      <4> QED
        BY <4>1, <4>2 DEF RowIn
    <3> QED
      BY <3>3, <3>4, <3>5
  <2>3. ChangeIn(First, {1}, Nothing)
    BY DEF ChangeIn, Nothing, InPart
  <2>4. \A t \in Tag, at \in At : ChangeIn(First, {1}, Deletion(t, at, base[t][at]))
    BY DEF Init, ChangeIn, Deletion, InPart
  <2> QED
    BY <1>2, <1>3, <2>1, <2>2, <2>3, <2>4 DEF Ledger
<1> QED
  BY <1>1, <1>4, <1>5, <1>6, <1>7 DEF DInv, Agreed

\* What is contested stays so.
LEMMA ContestedStays ==
    ASSUME [Next]_vars, contested
    PROVE  contested'
<1>1. CASE UNCHANGED vars
  BY <1>1 DEF vars
<1>2. ASSUME NEW d \in Acting, NEW at \in Stamp, User(d, at)
      PROVE  contested'
  BY <1>2 DEF User, CreateTag, RestoreTag, ChangeTag, ChangeRelation, Submit
<1>3. ASSUME NEW d \in Device, Write(d) \/ Crash(d)
      PROVE  contested'
  BY <1>3 DEF Write, WriteRelation, WriteDefinition, Crash, Down
<1>4. ASSUME NEW d, NEW e, Session(d, e) \/ Disconnect(d, e)
      PROVE  contested'
  <2>1. CASE ReceiveRequest(d, e)
    BY <2>1 DEF ReceiveRequest
  <2>2. CASE ~ReceiveRequest(d, e)
    BY <1>4, <2>2 DEF Session, Register, AnnounceTags, AnnounceRelations, ReceiveChange,
                      ReceiveDefinition, ReceiveRelation, SendAnswer, Disconnect, Down
  <2> QED
    BY <2>1, <2>2
<1> QED
  BY <1>1, <1>2, <1>3, <1>4 DEF Next

LEMMA StepAgrees == DInv /\ [Next]_vars => DInv'
<1> SUFFICES ASSUME DInv, [Next]_vars PROVE DInv'
  OBVIOUS
<1>1. IInv /\ IInv' /\ FreshApart /\ BlankTags
  BY StepIInv DEF DInv
<1>2. DKept
  <2>1. CASE UNCHANGED vars
    <3>1. UNCHANGED <<tag, queue, stage, answer, wire, stamps, base, contested>>
      BY <2>1 DEF vars, rows, session, history
    <3>2. FreshApart'
      BY <1>1, <3>1, FewerApart
    <3>3. Agreed => Agreed'
      BY <1>1, <3>1, NoTagStepKeeps DEF Announced
    <3> QED
      BY <1>1, <3>1, <3>2, <3>3, BlankStays DEF DKept
  <2>2. ASSUME NEW d \in Acting, NEW at \in Stamp, User(d, at)
        PROVE  DKept
    <3>1. d \in Device
      BY TagAssumption DEF TagAssumption
    <3>2. PICK c \in SoundChange(written') : Submit(d, c) /\ written \subseteq written'
      BY <1>1, <2>2, <3>1, UserSubmits
    <3>3. FreshApart' /\ (Agreed => Agreed')
      BY <1>1, <3>1, <3>2, SubmitAgrees
    <3>4. UNCHANGED tag
      BY <3>2 DEF Submit, rows
    <3> QED
      BY <1>1, <3>3, <3>4, BlankStays DEF DKept
  <2>3. ASSUME NEW d \in Device, Write(d)
        PROVE  DKept
    BY <1>1, <2>3, WriteRelationAgrees, WriteDefinitionAgrees DEF Write, DKept
  <2>4. ASSUME NEW d \in Device, Crash(d)
        PROVE  DKept
    <3>1. PICK broken : broken = {l \in Tree : d \in l}
      OBVIOUS
    <3>2. Down(broken)
      BY <2>4, <3>1 DEF Crash
    <3>3. \A e \in Device : \/ queue'[e] = queue[e]
                            \/ /\ queue'[e] = <<>>
                               /\ \A x \in Device : {x, e} \in Tree => {x, e} \in broken
      <4>1. queue' = [queue EXCEPT ![d] = <<>>]
        BY <2>4 DEF Crash
      <4>2. \A x \in Device : {x, d} \in Tree => {x, d} \in broken
        BY <3>1
      <4> QED
        BY <1>1, <4>1, <4>2 DEF IInv, QueueOK
    <3> QED
      BY <1>1, <3>2, <3>3, DownAgrees
  <2>5. ASSUME NEW l \in Ends, Session(l[1], l[2])
        PROVE  DKept
    <3>1. PICK d \in Device, e \in Device : d = l[1] /\ e = l[2] /\ <<d, e>> \in Ends /\ <<e, d>> \in Ends
      BY EndsOK
    <3>2. Session(d, e)
      BY <2>5, <3>1
    <3> QED
      BY <1>1, <3>1, <3>2, ComingUpAgrees, AnnounceTagsAgrees, ReceiveChangeAgrees,
         ReceiveDefinitionAgrees, ReceiveRelationAgrees, ReceiveRequestAgrees,
         SendAnswerAgrees DEF Session
  <2>6. ASSUME NEW l \in Ends, Disconnect(l[1], l[2])
        PROVE  DKept
    <3>1. Down({{l[1], l[2]}}) /\ \A e \in Device : queue'[e] = queue[e]
      BY <2>6 DEF Disconnect
    <3> QED
      BY <1>1, <3>1, DownAgrees
  <2> QED
    BY <2>1, <2>2, <2>3, <2>4, <2>5, <2>6 DEF Next
<1>3. contested' \/ Agreed'
  BY <1>2, ContestedStays DEF DInv, DKept
<1> QED
  BY <1>1, <1>2, <1>3 DEF DInv, DKept

\* When all is quiet and nothing contested, neighbours agree on every tag.
LEMMA QuietTagNeighbours ==
    ASSUME DInv, Quiet, ~contested, NEW d \in Device, NEW e \in Device,
           <<d, e>> \in Ends, <<e, d>> \in Ends
    PROVE  tag[d] = tag[e]
<1>1. /\ IInv /\ BlankTags /\ Agreed /\ queue[d] = <<>> /\ queue[e] = <<>>
      /\ wire[<<d, e>>] = <<>> /\ wire[<<e, d>>] = <<>>
      /\ answer[<<d, e>>] = Nothing /\ answer[<<e, d>>] = Nothing
      /\ stage[<<d, e>>] = "reading" /\ stage[<<e, d>>] = "reading"
  BY DEF DInv, Quiet
<1>2. Range(<<>>) = {} /\ Nothing.kind = "nothing"
  BY DEF Range, Nothing
<1>3. PICK L, U : Ledger(L, U)
  BY <1>1 DEF Agreed
<1>4. ASSUME NEW t \in Tag
      PROVE  tag[d][t] = tag[e][t]
  <2>1. tag[d][t].at \in Nat /\ tag[e][t].at \in Nat
    BY <1>1, TagAtIsNat
  <2>2. TagComes(d, e, t, tag[d][t].at) /\ TagComes(e, d, t, tag[e][t].at)
    BY <1>1, <2>1 DEF Agreed, TagTold
  <2>3. tag[e][t].at >= tag[d][t].at /\ tag[d][t].at >= tag[e][t].at
    BY <1>1, <1>2, <2>2 DEF TagComes, TagBrings
  <2>4. tag[d][t].at = tag[e][t].at
    BY <2>1, <2>3
  <2>5. CASE tag[d][t].at = 0
    BY <1>1, <2>4, <2>5 DEF BlankTags
  <2>6. CASE tag[d][t].at # 0
    <3>1. RowIn(L, U, t, tag[d][t]) /\ RowIn(L, U, t, tag[e][t])
      BY <1>3 DEF Ledger
    <3> QED
      BY <2>1, <2>4, <2>6, <3>1 DEF RowIn
  <2> QED
    BY <2>5, <2>6
<1>5. tag[d] \in [Tag -> Definition] /\ tag[e] \in [Tag -> Definition]
  BY <1>1 DEF IInv, RowsOK
<1> QED
  BY <1>4, <1>5

\* And the same definitions, though reconciliation compares stamps alone, as
\* long as no part of a definition was written over another row than the one it
\* was changed on and no deleted definition was sent as if it were not
\* (catalog/tagging.rs, store/tags.rs, peer/plan_tags.rs).
THEOREM DefinitionsConverge == ASSUME Connected PROVE Spec => []QuietDefinitions
<1>1. DInv => QuietDefinitions
  <2> SUFFICES ASSUME DInv, Quiet, ~contested PROVE \A d, e \in Device : tag[d] = tag[e]
    BY DEF QuietDefinitions
  <2>1. \A d, e \in Device : <<d, e>> \in Ends => tag[d] = tag[e]
    BY QuietTagNeighbours, EndsOK
  <2> QED
    BY <2>1, AllAlike
<1> QED
  BY <1>1, InitAgrees, StepAgrees, PTL DEF Spec
=============================================================================

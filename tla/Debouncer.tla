----------------------------- MODULE Debouncer ------------------------------
(***************************************************************************)
(* The queue between the file watcher and the sync directories             *)
(* (tagsyd/src/sync_directories/watch/debounce.rs): file events wait here  *)
(* for a window of time, and a new one is merged with those that wait.     *)
(*                                                                         *)
(* The operators are functions of the queue, a sequence of events, oldest  *)
(* first.  A merge keeps the time of the event that is already queued, so  *)
(* the times never decrease along the queue.                               *)
(***************************************************************************)
EXTENDS Naturals, Sequences, SequencesExt

CONSTANT Nowhere   \* the missing end of a rename

\* DebouncedEventKind.  Only a rename has a source.
Event(Place) == [kind : {"create", "modify", "remove", "move", "mkdir", "rmdir"},
                 from : Place \cup {Nowhere}, to : Place \cup {Nowhere}]

CreateOf(p)     == [kind |-> "create", from |-> Nowhere, to |-> p]
ModifyOf(p)     == [kind |-> "modify", from |-> Nowhere, to |-> p]
RemoveOf(p)     == [kind |-> "remove", from |-> Nowhere, to |-> p]
DirCreate(p)  == [kind |-> "mkdir", from |-> Nowhere, to |-> p]
DirRemove(p)  == [kind |-> "rmdir", from |-> Nowhere, to |-> p]
MoveOf(p, q)  == [kind |-> "move", from |-> p, to |-> q]
MoveOut(p)    == MoveOf(p, Nowhere)
MoveIn(q)     == MoveOf(Nowhere, q)

\* What the watcher reports of a rename inside the tree: each end, then both.
MoveReport(p, q) == <<MoveOut(p), MoveIn(q), MoveOf(p, q)>>

\* The place whose window an event waits for.
PrimaryPath(e) == IF e.to # Nowhere THEN e.to ELSE e.from

-----------------------------------------------------------------------------
\* The newest queued event that is e, 0 if there is none.
Newest(queue, e) ==
    Max({0} \cup {i \in DOMAIN queue : queue[i] = e})

\* The newest queued rename onto p whose source is known.
NewestRenameTo(queue, p) ==
    Max({0} \cup {i \in DOMAIN queue :
                     /\ queue[i].kind = "move"
                     /\ queue[i].from # Nowhere
                     /\ queue[i].to = p})

\* Modify + remove: the writes since the last create are forgotten.
WithoutWrites(queue, p) ==
    LET since == Newest(queue, CreateOf(p))
    IN  SubSeq(queue, 1, since)
            \o SelectSeq(SubSeq(queue, since + 1, Len(queue)),
                         LAMBDA e : e # ModifyOf(p))

\* The create of the name that the rename onto p took away, as an editor
\* leaves it that keeps a backup: mv a b, write a, rm b.
EditorCreate(queue, p) ==
    LET rename == NewestRenameTo(queue, p)
    IN  IF rename = 0 THEN 0 ELSE Newest(queue, CreateOf(queue[rename].from))

\* The assertion of the editor pattern: the rename came before the create.
EditorOrder(queue, e) ==
    (/\ e.kind = "remove"
     /\ Newest(queue, CreateOf(e.to)) = 0
     /\ EditorCreate(WithoutWrites(queue, e.to), e.to) # 0)
        => LET kept == WithoutWrites(queue, e.to)
           IN  NewestRenameTo(kept, e.to) < EditorCreate(kept, e.to)

PushRemove(queue, p) ==
    LET kept    == WithoutWrites(queue, p)
        created == Newest(kept, CreateOf(p))
        rename  == NewestRenameTo(kept, p)
        written == EditorCreate(kept, p)
    IN  CASE created # 0 -> RemoveAt(kept, created)
          [] created = 0 /\ written # 0 ->
                 RemoveAt([kept EXCEPT ![written] = ModifyOf(kept[rename].from)],
                          rename)
          [] OTHER -> Append(kept, RemoveOf(p))

\* A rename replaces its two halves when they are the last two events, and
\* carries a create that still waits to the new name.
PushRename(queue, p, q) ==
    LET len     == Len(queue)
        halves  == len >= 2 /\ queue[len - 1] = MoveOut(p) /\ queue[len] = MoveIn(q)
        kept    == IF halves THEN SubSeq(queue, 1, len - 2) ELSE queue
        created == Newest(kept, CreateOf(p))
    IN  IF created # 0 THEN [kept EXCEPT ![created] = CreateOf(q)]
                       ELSE Append(kept, MoveOf(p, q))

\* A write is part of the create or the write that waits already.
PushModify(queue, p) ==
    IF Newest(queue, CreateOf(p)) # 0 \/ Newest(queue, ModifyOf(p)) # 0
    THEN queue
    ELSE Append(queue, ModifyOf(p))

Push(queue, e) ==
    CASE e.kind = "remove" -> PushRemove(queue, e.to)
      [] e.kind = "modify" -> PushModify(queue, e.to)
      [] e.kind = "move" /\ e.from # Nowhere /\ e.to # Nowhere ->
             PushRename(queue, e.from, e.to)
      [] OTHER -> Append(queue, e)

\* The events of one report, in order.
PushAll(queue, events) == FoldLeft(Push, queue, events)
=============================================================================

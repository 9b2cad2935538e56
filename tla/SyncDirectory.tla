--------------------------- MODULE SyncDirectory ----------------------------
(***************************************************************************)
(* The sync directories of one device (tagsyd/src/sync_directories): the   *)
(* files on disk, the index of each directory, the actor that owns them,   *)
(* and the user, who changes the same files.                               *)
(*                                                                         *)
(* The actor takes commands of the catalog (place, replace, move, remove   *)
(* a file) and events of the watcher (what changed on disk).  The watcher  *)
(* reports the actor's own changes too, so the actor records each one and  *)
(* drops the event that matches a record.  What is left it tells the       *)
(* catalog.  At a start it first compares every directory with its index.  *)
(*                                                                         *)
(* A name is a sequence of components, the last one numbered when the      *)
(* plain name was taken: <<<<p>>>> is "p", <<<<p, 1>>>> is "p (1)".  A     *)
(* Universal directory names files by their id.  The tags of a file are    *)
(* reduced to whether it has those that the TagBased directories require,  *)
(* and a content stands for its hash.                                      *)
(***************************************************************************)
EXTENDS Debouncer, FiniteSets, Functions

CONSTANTS
    Dirs,         \* the configured directories, in order
    Kind,         \* [directory -> "tagged", "universal" or "vault"]
    TempMount,    \* the directories on the mount of the daemon's own files
    Begins,       \* {<<q, p>>}: the text of component q begins with that of p
    Content,
    Orderly,      \* a stop waits for the catalog to take what it was sent
    Setting       \* who acts on what, one of which a behaviour takes:
                  \*   names      the names that users and peers give to files
                  \*   contents   and the contents
                  \*   acts       what the user does: "write", "delete", "in", "out"
                  \*              or "rename" a file, "rename over" another,
                  \*              "rename across" directories or in a Universal
                  \*              one, "folder in", "folder out", "folder rename";
                  \*              and peers: "add", "change", "move", "remove",
                  \*              "tag", "connect"
                  \*   user       how often
                  \*   peer       how often a peer does, through the catalog
                  \*   stops      how often the daemon stops
                  \*   pullsFail  the bytes of a pull may not come
                  \*   pace       when the user acts: "settled", all is quiet;
                  \*              "quick", an act may come within the window of
                  \*              the last, and a stop at any time; "racing",
                  \*              anyone at any time

Dir == Range(Dirs)

ASSUME DirectoryAssumption ==
    /\ IsInjective(Dirs)
    /\ Kind \in [Dir -> {"tagged", "universal", "vault"}]
    /\ TempMount \subseteq Dir
    /\ Orderly \in BOOLEAN
    /\ \A s \in Setting : /\ \A name \in s.names : Len(name) \in 1 .. 2
                          /\ s.contents \subseteq Content
                          /\ {s.user, s.peer, s.stops} \subseteq Nat
                          /\ s.pullsFail \in BOOLEAN
                          /\ s.pace \in {"settled", "quick", "racing"}

VARIABLES
    disk,      \* [place -> Content], the files that exist
    folders,   \* the folders that exist, the roots aside
    watched,   \* the folders the dispatcher takes for watched
    seen,      \* the folders whose changes are reported, the roots aside
    queue,     \* the debouncer
    ready,     \* watcher events past their window
    index,     \* [Dir -> [id -> name]], the rows of each directory
    writes,    \* the actor's own changes that no event has matched yet
    inbox,     \* commands to the actor
    scan,      \* where the comparison at the start is
    ingest,    \* changes sent to the catalog
    files,     \* [id -> row], the files of the catalog
    versions,  \* [id -> Content], the latest version of each
    pulls,     \* bytes on their way from a peer
    minted,    \* ids given out so far
    acts,      \* how often each of user, peer and stop has acted; whether
               \* nothing but the daemon has, since the last start; and, as
               \* history that no step looks at, what has been met:
               \*   crowd   an act came before the one before was dealt with
               \*   over    the user renamed a file over another
               \*   across  ... to another directory, or in a Universal one
               \*   stale   a stop came while the bytes of a file were not
               \*           those of its last version
               \*   torn    a start found two new contents of one file
               \*   untag   bytes came for a tag that the file has lost
               \*   failed  a pull has failed
               \*   blind   a folder is taken for watched that is not seen
               \*   spelled a file was taken to be in a folder by its spelling
    setting    \* the setting of this behaviour

tree    == <<disk, folders>>
watcher == <<watched, seen, queue, ready>>
actor   == <<index, writes, minted>>
catalog == <<files, versions, pulls>>
vars == <<tree, watcher, actor, inbox, scan, ingest, catalog, acts, setting>>

Universal(d) == Kind[d] # "tagged"

\* History.
Met(what, happens) == IF happens THEN {what} ELSE {}
Meets(what, happens) == acts' = [acts EXCEPT !.met = @ \cup Met(what, happens)]
None(whats) == acts.met \cap whats = {}

Put(f, x, y)  == [z \in DOMAIN f \cup {x} |-> IF z = x THEN y ELSE f[z]]
Drop(f, xs)   == [z \in DOMAIN f \ xs |-> f[z]]

-----------------------------------------------------------------------------
(***************************************************************************)
(* Places and names.                                                       *)
(***************************************************************************)
\* A place is a file or a folder in a directory.
DirOf(p)  == p[1]
NameOf(p) == p[2]

IdName(f) == << <<f>> >>

PhysicalFor(d, f, name) == IF Universal(d) THEN IdName(f) ELSE name

Numbered(name, n) == [name EXCEPT ![Len(name)] = Append(@, n)]

FolderOf(p) == <<DirOf(p), Front(NameOf(p))>>

Within(p, folder) ==
    /\ DirOf(p) = DirOf(folder)
    /\ IsStrictPrefix(NameOf(folder), NameOf(p))

\* get_all_files_at: the text of the stored name begins with that of the name.
SpelledUnder(name, other) ==
    /\ Len(name) > 0 /\ Len(other) >= Len(name)
    /\ SubSeq(other, 1, Len(name) - 1) = Front(name)
    /\ \/ other[Len(name)] = Last(name)
       \/ <<other[Len(name)], Last(name)>> \in Begins

-----------------------------------------------------------------------------
(***************************************************************************)
(* The index of a directory (directory_index.rs, OpenDirectory).           *)
(***************************************************************************)
Holds(d, f) == f \in DOMAIN index[d]

Tracking(rows, name) == {f \in DOMAIN rows : rows[f] = name}

\* get_file_id, Nowhere if no file has the name.
FileAt(rows, name) == IF Tracking(rows, name) = {} THEN Nowhere
                      ELSE Min(Tracking(rows, name))

\* tracked_file_id: in a Universal directory the name is the id.
TrackedAt(d, rows, name) ==
    IF ~Universal(d) THEN FileAt(rows, name)
    ELSE IF \E f \in DOMAIN rows : name = IdName(f) THEN name[1][1] ELSE Nowhere

\* is_shared_with_another_file
Shared(d, f) == ~Universal(d) /\ Tracking(index[d], index[d][f]) # {f}

\* Where the actor looks for the bytes of a tracked file.
BytesPlace(d, f) == <<d, IF Universal(d) THEN IdName(f) ELSE index[d][f]>>

\* first_holding_path, among some of the directories.
HoldingPlace(f, among) ==
    LET held == {i \in DOMAIN Dirs : /\ Dirs[i] \in among
                                     /\ Holds(Dirs[i], f)
                                     /\ BytesPlace(Dirs[i], f) \in DOMAIN disk}
    IN  IF held = {} THEN Nowhere ELSE BytesPlace(Dirs[Min(held)], f)

\* resolve_unique_physical: the name, or its first free numbered variant.
IsFree(d, name, f) ==
    /\ Tracking(index[d], name) \subseteq {f}
    /\ <<d, name>> \in DOMAIN disk => FileAt(index[d], name) = f

Candidates(d) == 1 .. Cardinality(DOMAIN disk) + Cardinality(DOMAIN index[d]) + 1

UniqueNameTaken(d, name, f) == name

UniqueName(d, name, f) ==
    IF IsFree(d, name, f) THEN name
    ELSE Numbered(name, Min({n \in Candidates(d) : IsFree(d, Numbered(name, n), f)}))

\* contains_all_tags
Wanted(d, hasTags) == Universal(d) \/ hasTags

-----------------------------------------------------------------------------
(***************************************************************************)
(* The actor's own changes (self_write.rs).                                *)
(***************************************************************************)
Expect(p, what) == [at |-> p, what |-> what]

MatchesArrivals(record, p, observed) ==
    record.at = p /\ observed # "removal" /\ record.what # "removal"

\* What an event shows: "removal", "arrival", or the content found.
Matches(record, p, observed) ==
    /\ record.at = p
    /\ CASE observed = "removal" -> record.what = "removal"
         [] observed = "arrival" -> record.what # "removal"
         [] OTHER -> record.what \in {"any", observed}

IsOwnOldest(records, p, observed) ==
    records # <<>> /\ Matches(Head(records), p, observed)

IsOwn(records, p, observed) ==
    \E i \in DOMAIN records : Matches(records[i], p, observed)

\* The oldest match is used up.
Taken(records, p, observed) ==
    IF ~IsOwn(records, p, observed) THEN records
    ELSE RemoveAt(records, Min({i \in DOMAIN records : Matches(records[i], p, observed)}))

\* A record waits SELF_WRITE_TTL, far longer than any event takes.
Expire ==
    /\ writes # <<>>
    /\ queue = <<>> /\ ready = <<>> /\ inbox = <<>>
    /\ writes' = <<>>
    /\ UNCHANGED <<tree, watcher, index, minted, inbox, scan, ingest, catalog, acts, setting>>

-----------------------------------------------------------------------------
(***************************************************************************)
(* Bytes (file_bytes.rs): a file of the daemon's own, or whatever is at a  *)
(* place when the command is handled.                                      *)
(***************************************************************************)
Temp(c)     == [at |-> Nowhere, content |-> c, moved |-> TRUE]
CopyOf(p)   == [at |-> p, content |-> Nowhere, moved |-> FALSE]
AsMove(b)   == [b EXCEPT !.moved = TRUE]
AsCopy(b)   == [b EXCEPT !.moved = FALSE]

Readable(b)  == b.at = Nowhere \/ b.at \in DOMAIN disk
ContentOf(b) == IF b.at = Nowhere THEN b.content ELSE disk[b.at]

\* A move is a rename on one mount, else a copy.
Renamed(b, p) ==
    /\ b.moved
    /\ IF b.at = Nowhere THEN DirOf(p) \in TempMount
       ELSE DirOf(b.at) = DirOf(p) \/ {DirOf(b.at), DirOf(p)} \subseteq TempMount

\* A new file is seen as created and then written.
WriteReport(p) == IF p \in DOMAIN disk THEN <<ModifyOf(p)>> ELSE <<CreateOf(p), ModifyOf(p)>>

IsRoot(folder) == NameOf(folder) = <<>>

\* create_dir_all
FolderReport(p) == IF IsRoot(FolderOf(p)) \/ FolderOf(p) \in folders
                   THEN <<>> ELSE <<DirCreate(FolderOf(p))>>

PlaceReport(b, p) ==
    FolderReport(p) \o
    (IF ~Renamed(b, p)
     THEN WriteReport(p) \o (IF b.moved /\ b.at # Nowhere THEN <<RemoveOf(b.at)>> ELSE <<>>)
     ELSE IF b.at = Nowhere THEN <<MoveIn(p)>> ELSE MoveReport(b.at, p))

FoldersWith(p) == folders \cup ({FolderOf(p)} \ {<<d, <<>>>> : d \in Dir})

\* materialize_to
DiskWith(b, p) ==
    Put(Drop(disk, IF b.moved THEN {b.at} ELSE {}), p, ContentOf(b))

\* try_remove_empty_directory, for the folder p has left.
Emptied(p, left) ==
    {folder \in {FolderOf(p)} \cap folders : ~ \E q \in left : Within(q, folder)}

EmptiedReport(p, left) ==
    IF Emptied(p, left) = {} THEN <<>> ELSE <<DirRemove(FolderOf(p))>>

-----------------------------------------------------------------------------
(***************************************************************************)
(* The watcher.  It reports what changes right inside a folder it sees; a  *)
(* folder that leaves its place is not seen any more.                      *)
(***************************************************************************)
Up      == scan.at # 0
Running == scan.at > Len(Dirs)

Sees(p) == IsRoot(FolderOf(p)) \/ FolderOf(p) \in seen

\* Of a rename between a folder that is seen and one that is not, one half.
Reported(events) ==
    SelectSeq(events, LAMBDA e : \A p \in {e.from, e.to} \ {Nowhere} : Sees(p))

Report(events, gone) ==
    /\ queue' = IF Up THEN PushAll(queue, Reported(events)) ELSE queue
    /\ seen' = seen \ gone

\* extract_finalized: each directory has a window of its own.
Settle(d) ==
    LET mine == {i \in DOMAIN queue : DirOf(PrimaryPath(queue[i])) = d}
    IN  /\ mine # {}
        /\ ready' = Append(ready, queue[Min(mine)])
        /\ queue' = RemoveAt(queue, Min(mine))
        /\ UNCHANGED <<tree, watched, seen, actor, inbox, scan, ingest, catalog, acts, setting>>

-----------------------------------------------------------------------------
(***************************************************************************)
(* What the actor tells the catalog, and what the catalog tells the actor. *)
(***************************************************************************)
Added(f, d, name, b, c, hasTags) ==
    [kind |-> "added", file |-> f, dir |-> d, name |-> name, bytes |-> b,
     content |-> c, tagged |-> hasTags]
Changed(f, d, b, c) ==
    [kind |-> "changed", file |-> f, dir |-> d, bytes |-> b, content |-> c]
Moved(f, d, name) == [kind |-> "moved", file |-> f, dir |-> d, name |-> name]
Deleted(f, d)     == [kind |-> "deleted", file |-> f, dir |-> d]

CreateFile(f, d, name, b) ==
    [kind |-> "create", file |-> f, dir |-> d, name |-> name, bytes |-> b]
ChangeFile(f, d, name, b) ==
    [kind |-> "change", file |-> f, dir |-> d, name |-> name, bytes |-> b]
MoveFile(f, d, name) == [kind |-> "move", file |-> f, dir |-> d, name |-> name]
RemoveFile(f, d)     == [kind |-> "remove", file |-> f, dir |-> d]
ApplyPlacement(f, hasTags) ==
    [kind |-> "placement", file |-> f, name |-> files[f].name,
     tagged |-> hasTags, content |-> versions[f]]
Pull(f, c, how, name, hasTags) ==
    [file |-> f, content |-> c, how |-> how, name |-> name, tagged |-> hasTags]
MissingContent       == [kind |-> "missing",
                         tagged |-> [f \in {g \in DOMAIN files : files[g].live} |->
                                        files[f].tagged]]

-----------------------------------------------------------------------------
(***************************************************************************)
(* Arrivals.  The operators map a state of the actor, what it has sent     *)
(* included, to the next one.                                              *)
(***************************************************************************)
Now == [index |-> index, writes |-> writes, minted |-> minted, ingest |-> ingest]

Become(s) == /\ index' = s.index
             /\ writes' = s.writes
             /\ minted' = s.minted
             /\ ingest' = s.ingest

Tell(s, change) == [s EXCEPT !.ingest = Append(@, change)]

\* add_file in a TagBased directory, upload_file in a Universal one, whose
\* bytes are then moved to the name that is the new id.
AddFile(s, p) ==
    LET d == DirOf(p)
        f == s.minted + 1
    IN  IF Universal(d)
        THEN Tell([s EXCEPT !.minted = f,
                            !.writes = Append(@, Expect(p, "removal"))],
                  Added(f, d, NameOf(p), AsMove(CopyOf(p)), disk[p], FALSE))
        ELSE Tell([s EXCEPT !.minted = f, !.index[d] = Put(@, f, NameOf(p))],
                  Added(f, d, NameOf(p), CopyOf(p), disk[p], TRUE))

\* update_file_content
UpdateContent(s, f, p) == Tell(s, Changed(f, DirOf(p), CopyOf(p), disk[p]))

RemoveById(s, d, f) == Tell([s EXCEPT !.index[d] = Drop(@, {f})], Deleted(f, d))

MoveWithin(s, d, f, name) == Tell([s EXCEPT !.index[d][f] = name], Moved(f, d, name))


\* ingest_arrival: new bytes for the file that has the name, else a new file.
IngestArrival(s, p) ==
    LET f == TrackedAt(DirOf(p), s.index[DirOf(p)], NameOf(p))
    IN  IF p \notin DOMAIN disk THEN s
        ELSE IF f # Nowhere THEN UpdateContent(s, f, p) ELSE AddFile(s, p)

\* One file that watch_and_ingest_directory finds.
IngestFound(s, p) ==
    IF IsOwn(s.writes, p, "arrival")
    THEN [s EXCEPT !.writes = Taken(@, p, "arrival")]
    ELSE IF TrackedAt(DirOf(p), s.index[DirOf(p)], NameOf(p)) # Nowhere THEN s
    ELSE AddFile(s, p)

IngestFolder(s, folder) ==
    FoldLeft(IngestFound, s, SetToSeq({p \in DOMAIN disk : Within(p, folder)}))

\* watch_tree: a folder already taken for watched is left alone, also when it
\* stands for one that was moved away and took the watch with it.
WatchTree(folder) ==
    LET found == {f \in folders : f = folder \/ Within(f, folder)}
    IN  /\ watched' = watched \cup found
        /\ seen' = seen \cup (found \ watched)
        /\ Meets("blind", ~(found \cap watched \subseteq seen))

-----------------------------------------------------------------------------
(***************************************************************************)
(* handle_event, for the oldest settled event.                             *)
(***************************************************************************)
NextEvent(kind) ==
    /\ Running
    /\ ready # <<>> /\ Head(ready).kind = kind
    /\ ready' = Tail(ready)
    /\ UNCHANGED <<tree, queue, inbox, scan, catalog, setting>>

OnCreate ==
    LET p == Head(ready).to
    IN  /\ NextEvent("create")
        /\ Become(IF IsOwn(writes, p, "arrival")
                  THEN [Now EXCEPT !.writes = Taken(@, p, "arrival")]
                  ELSE IngestArrival(Now, p))
        /\ UNCHANGED <<watched, seen, acts>>

\* A file that cannot be read drops the event, before its record is taken.
OnModify ==
    LET p == Head(ready).to
        f == FileAt(index[DirOf(p)], NameOf(p))
    IN  /\ NextEvent("modify")
        /\ Become(IF p \notin DOMAIN disk THEN Now
                  ELSE IF IsOwn(writes, p, disk[p])
                  THEN [Now EXCEPT !.writes = Taken(@, p, disk[p])]
                  ELSE IF f = Nowhere THEN Now ELSE UpdateContent(Now, f, p))
        /\ UNCHANGED <<watched, seen, acts>>

OnRemove ==
    LET p == Head(ready).to
        d == DirOf(p)
        f == FileAt(index[d], NameOf(p))
    IN  /\ NextEvent("remove")
        /\ Become(IF IsOwn(writes, p, "removal")
                  THEN [Now EXCEPT !.writes = Taken(@, p, "removal")]
                  ELSE IF f = Nowhere THEN Now ELSE RemoveById(Now, d, f))
        /\ UNCHANGED <<watched, seen, acts>>

\* A rename inside a directory; the records of both ends are taken.  Without
\* a file of that name it is a folder's.
OnMove ==
    LET from == Head(ready).from
        to   == Head(ready).to
        d    == DirOf(from)
        rows == index[d]
        f    == FileAt(rows, NameOf(from))
        own  == Taken(Taken(writes, from, "removal"), to, "arrival")
        beneath == {g \in DOMAIN rows : /\ SpelledUnder(NameOf(from), rows[g])
                                        /\ IsPrefix(NameOf(from), rows[g])}
        Follow(s, g) ==
            MoveWithin(s, d, g, NameOf(to) \o SubSeq(rows[g], Len(NameOf(from)) + 1,
                                                     Len(rows[g])))
    IN  /\ ready # <<>> /\ Nowhere \notin {from, to}
        /\ NextEvent("move")
        /\ Become(IF Universal(d) THEN Now
                  ELSE IF own # writes THEN [Now EXCEPT !.writes = own]
                  ELSE IF DirOf(to) # d THEN Now
                  ELSE IF f # Nowhere THEN MoveWithin(Now, d, f, NameOf(to))
                  ELSE FoldLeft(Follow, Now, SetToSeq(beneath)))
        /\ UNCHANGED <<watched, seen, acts>>

\* A move out of the directory, of a file or of the folder of that name.
OnMoveOut ==
    LET from == Head(ready).from
        d    == DirOf(from)
        f    == FileAt(index[d], NameOf(from))
        gone == IF f # Nowhere THEN {f}
                ELSE {g \in DOMAIN index[d] : SpelledUnder(NameOf(from), index[d][g])}
        Removed(s, g) == RemoveById(s, d, g)
    IN  /\ ready # <<>> /\ Head(ready).to = Nowhere
        /\ NextEvent("move")
        /\ Meets("spelled", \E g \in gone : ~IsPrefix(NameOf(from), index[d][g]))
        /\ Become(FoldLeft(Removed, Now, SetToSeq(gone)))
        /\ UNCHANGED <<watched, seen>>

OnMoveIn ==
    LET to == Head(ready).to
    IN  /\ ready # <<>> /\ Head(ready).from = Nowhere
        /\ NextEvent("move")
        /\ IF to \in folders
           THEN WatchTree(to) /\ Become(IngestFolder(Now, to))
           ELSE /\ Become(IF to \notin DOMAIN disk THEN Now
                          ELSE IF IsOwn(writes, to, "arrival")
                          THEN [Now EXCEPT !.writes = Taken(@, to, "arrival")]
                          ELSE IngestArrival(Now, to))
                /\ UNCHANGED <<watched, seen, acts>>

OnDirCreate ==
    /\ NextEvent("mkdir")
    /\ WatchTree(Head(ready).to)
    /\ Become(IngestFolder(Now, Head(ready).to))

\* unwatch_tree
OnDirRemove ==
    LET gone == {f \in watched : f = Head(ready).to \/ Within(f, Head(ready).to)}
    IN  /\ NextEvent("rmdir")
        /\ watched' = watched \ gone
        /\ seen' = seen \ gone
        /\ Become(Now)
        /\ UNCHANGED acts

HandleEvent == \/ OnCreate \/ OnModify \/ OnRemove
               \/ OnMove \/ OnMoveOut \/ OnMoveIn
               \/ OnDirCreate \/ OnDirRemove

-----------------------------------------------------------------------------
(***************************************************************************)
(* handle_command, for the oldest command.                                 *)
(***************************************************************************)
NextCommand(kind) ==
    /\ Running
    /\ inbox # <<>> /\ Head(inbox).kind = kind
    /\ inbox' = Tail(inbox)
    /\ UNCHANGED <<watched, ready, minted, scan, ingest, files, versions, acts, setting>>

\* The bytes, the row if there is none, and the record, in this order.
PlaceAt(d, f, name, b) ==
    /\ disk' = DiskWith(b, <<d, name>>)
    /\ folders' = FoldersWith(<<d, name>>)
    /\ Report(PlaceReport(b, <<d, name>>), {})
    /\ index' = IF Holds(d, f) THEN index ELSE [index EXCEPT ![d] = Put(@, f, name)]
    /\ writes' = Append(writes, Expect(<<d, name>>, ContentOf(b)))

DoCreateFile ==
    LET c == Head(inbox)
    IN  /\ NextCommand("create")
        /\ IF Holds(c.dir, c.file) \/ ~Readable(c.bytes)
           THEN UNCHANGED <<tree, seen, queue, index, writes>>
           ELSE PlaceAt(c.dir, c.file, UniqueName(c.dir, c.name, c.file), c.bytes)
        /\ UNCHANGED pulls

NameToChangeGiven(d, f, name) ==
    IF Holds(d, f) THEN index[d][f] ELSE PhysicalFor(d, f, name)

\* Overwrite where the file is held, else create it.
NameToChange(d, f, name) ==
    IF Holds(d, f) THEN index[d][f]
    ELSE IF Universal(d) THEN IdName(f) ELSE UniqueName(d, name, f)

DoChangeFile ==
    LET c == Head(inbox)
    IN  /\ NextCommand("change")
        /\ IF ~Readable(c.bytes)
           THEN UNCHANGED <<tree, seen, queue, index, writes>>
           ELSE PlaceAt(c.dir, c.file, NameToChange(c.dir, c.file, c.name), c.bytes)
        /\ UNCHANGED pulls

\* The row moves first; the rename may then find nothing to move.
DoMoveFile ==
    LET c    == Head(inbox)
        d    == c.dir
        f    == c.file
        from == <<d, index[d][f]>>
        name == IF Universal(d) THEN c.name ELSE UniqueName(d, c.name, f)
        to   == <<d, name>>
        rest == (DOMAIN disk \ {from}) \cup {to}
    IN  /\ NextCommand("move")
        /\ IF ~Holds(d, f) \/ index[d][f] = name
           THEN UNCHANGED <<tree, seen, queue, index, writes>>
           ELSE /\ index' = [index EXCEPT ![d][f] = name]
                /\ IF Universal(d) THEN UNCHANGED <<tree, seen, queue, writes>>
                   ELSE IF from \notin DOMAIN disk
                   THEN /\ folders' = FoldersWith(to)
                        /\ Report(FolderReport(to), {})
                        /\ UNCHANGED <<disk, writes>>
                   ELSE /\ disk' = Put(Drop(disk, {from}), to, disk[from])
                        /\ folders' = FoldersWith(to) \ Emptied(from, rest)
                        /\ Report(FolderReport(to) \o MoveReport(from, to)
                                      \o EmptiedReport(from, rest),
                                  Emptied(from, rest))
                        /\ writes' = writes \o <<Expect(from, "removal"), Expect(to, "any")>>
        /\ UNCHANGED pulls

\* A vault keeps the bytes of what is deleted; so does a file whose name
\* another one has too.
DoRemoveFile ==
    LET d    == Head(inbox).dir
        f    == Head(inbox).file
        p    == BytesPlace(d, f)
        rest == DOMAIN disk \ {p}
        left == IF Universal(d) THEN {} ELSE Emptied(p, rest)
    IN  /\ NextCommand("remove")
        /\ IF ~Holds(d, f) \/ Kind[d] = "vault"
           THEN UNCHANGED <<tree, seen, queue, index, writes>>
           ELSE /\ index' = [index EXCEPT ![d] = Drop(@, {f})]
                /\ IF Shared(d, f) THEN UNCHANGED <<tree, seen, queue, writes>>
                   ELSE /\ disk' = Drop(disk, {p})
                        /\ folders' = folders \ left
                        /\ Report((IF p \in DOMAIN disk THEN <<RemoveOf(p)>> ELSE <<>>)
                                      \o (IF left = {} THEN <<>> ELSE EmptiedReport(p, rest)),
                                  left)
                        /\ writes' = Append(writes, Expect(p, "removal"))
        /\ UNCHANGED pulls

\* apply_placement: every directory in turn gains or drops the file, as its
\* tags say.  The bytes come from the first directory that holds it when the
\* first one needs it; bytes that should go and are not there stop the rest.
Position(d) == CHOOSE i \in DOMAIN Dirs : Dirs[i] = d

DoApplyPlacement ==
    LET c        == Head(inbox)
        f        == c.file
        dropping == {d \in Dir : Holds(d, f) /\ ~Wanted(d, c.tagged)}
        removing == {d \in dropping : ~Shared(d, f)}
        failing  == {d \in removing : BytesPlace(d, f) \notin DOMAIN disk}
        reached  == {d \in Dir : \A e \in failing : Position(d) < Position(e)}
        gaining  == {d \in reached : Wanted(d, c.tagged) /\ ~Holds(d, f)}
        source   == HoldingPlace(f, {d \in Dir :
                        ~(d \in dropping /\ \A e \in gaining : Position(d) < Position(e))})
        gained   == IF source = Nowhere THEN {} ELSE gaining
        NameIn(d) == IF Universal(d) THEN IdName(f) ELSE UniqueName(d, c.name, f)
        NewPlace(d) == <<d, NameIn(d)>>
        gone     == {BytesPlace(d, f) : d \in removing \cap reached}
        kept     == DOMAIN disk \ gone
        emptied  == UNION {Emptied(p, kept) : p \in gone}
        ReportOf(d) == IF d \in gained THEN PlaceReport(CopyOf(source), NewPlace(d))
                       ELSE IF BytesPlace(d, f) \in gone
                       THEN <<RemoveOf(BytesPlace(d, f))>> \o EmptiedReport(BytesPlace(d, f), kept)
                       ELSE <<>>
        RecordOf(d) == IF d \in gained THEN <<Expect(NewPlace(d), disk[source])>>
                       ELSE IF BytesPlace(d, f) \in gone
                       THEN <<Expect(BytesPlace(d, f), "removal")>>
                       ELSE <<>>
        touched  == SelectSeq(Dirs, LAMBDA d : d \in gained \cup (removing \cap reached))
    IN  /\ NextCommand("placement")
        /\ disk' = [p \in kept \cup {NewPlace(d) : d \in gained} |->
                       IF p \in kept THEN disk[p] ELSE disk[source]]
        /\ folders' = (folders \ emptied) \cup UNION {FoldersWith(NewPlace(d)) \ folders : d \in gained}
        /\ Report(FlattenSeq([i \in DOMAIN touched |-> ReportOf(touched[i])]), emptied)
        /\ index' = [d \in Dir |-> IF d \in gained THEN Put(index[d], f, NameIn(d))
                                   ELSE IF d \in dropping \cap reached THEN Drop(index[d], {f})
                                   ELSE index[d]]
        /\ writes' = writes \o FlattenSeq([i \in DOMAIN touched |-> RecordOf(touched[i])])
        /\ pulls' = IF failing = {} /\ gaining # {} /\ source = Nowhere
                    THEN pulls \cup {Pull(f, c.content, "create", c.name, c.tagged)}
                    ELSE pulls

\* The sweep of a connect: files that some directory should hold and none does.
DoMissingContent ==
    LET c == Head(inbox)
        missing == {f \in DOMAIN c.tagged : /\ \E d \in Dir : Wanted(d, c.tagged[f])
                                            /\ HoldingPlace(f, Dir) = Nowhere}
    IN  /\ NextCommand("missing")
        /\ pulls' = pulls \cup {Pull(f, versions[f], "create", files[f].name, files[f].tagged) :
                                   f \in missing}
        /\ UNCHANGED <<tree, seen, queue, index, writes>>

HandleCommand == \/ DoCreateFile \/ DoChangeFile \/ DoMoveFile \/ DoRemoveFile
                 \/ DoApplyPlacement \/ DoMissingContent

-----------------------------------------------------------------------------
(***************************************************************************)
(* The catalog: it takes what the actor tells it in order and has the      *)
(* other directories follow.  Of two stamps the later one to arrive is the *)
(* later one.  While it waits for the answer to a sweep it does nothing.   *)
(***************************************************************************)
CatalogFree == Up /\ \A i \in DOMAIN inbox : inbox[i].kind # "missing"

NextChange(kind) ==
    /\ CatalogFree
    /\ ingest # <<>> /\ Head(ingest).kind = kind
    /\ ingest' = Tail(ingest)
    /\ UNCHANGED <<tree, watcher, actor, pulls, scan, acts, setting>>

FollowingAll(origin, hasTags) == SelectSeq(Dirs, LAMBDA d : d # origin)

Following(origin, hasTags) ==
    SelectSeq(Dirs, LAMBDA d : d # origin /\ Wanted(d, hasTags))

\* place_content: of several directories the last one may have the source.
BytesFor(targets, i, b) == IF i < Len(targets) THEN AsCopy(b) ELSE b

Creations(f, name, targets, b) ==
    [i \in DOMAIN targets |->
        CreateFile(f, targets[i], PhysicalFor(targets[i], f, name), BytesFor(targets, i, b))]

Replacements(f, targets, b) ==
    [i \in DOMAIN targets |->
        ChangeFile(f, targets[i], files[f].name, BytesFor(targets, i, b))]

\* A Universal directory has its own file moved to the name that is its id.
TakeAdded ==
    LET c == Head(ingest)
        origin == IF Universal(c.dir) THEN Nowhere ELSE c.dir
    IN  /\ NextChange("added")
        /\ files' = Put(files, c.file, [name |-> c.name, live |-> TRUE, tagged |-> c.tagged])
        /\ versions' = Put(versions, c.file, c.content)
        /\ inbox' = inbox \o Creations(c.file, c.name, Following(origin, c.tagged), c.bytes)

\* A newer version revives a deleted file.
Revived(f) == IF f \in DOMAIN files THEN [files EXCEPT ![f].live = TRUE] ELSE files

TakeChanged ==
    LET c == Head(ingest)
        f == c.file
    IN  /\ NextChange("changed")
        /\ versions' = Put(versions, f, c.content)
        /\ files' = Revived(f)
        /\ inbox' = IF f \notin DOMAIN files THEN inbox
                    ELSE inbox \o Replacements(f, Following(c.dir, files[f].tagged), c.bytes)

MovesOf(f, name, targets) ==
    [i \in DOMAIN targets |-> MoveFile(f, targets[i], PhysicalFor(targets[i], f, name))]

TakeMoved ==
    LET c == Head(ingest)
        f == c.file
    IN  /\ NextChange("moved")
        /\ IF f \notin DOMAIN files THEN UNCHANGED <<files, inbox>>
           ELSE /\ files' = [files EXCEPT ![f].name = c.name]
                /\ inbox' = inbox \o MovesOf(f, c.name, Following(c.dir, files[f].tagged))
        /\ UNCHANGED versions

RemovalsOf(f, targets) == [i \in DOMAIN targets |-> RemoveFile(f, targets[i])]

TakeDeleted ==
    LET c == Head(ingest)
        f == c.file
    IN  /\ NextChange("deleted")
        /\ IF f \notin DOMAIN files \/ ~files[f].live THEN UNCHANGED <<files, inbox>>
           ELSE /\ files' = [files EXCEPT ![f].live = FALSE]
                /\ inbox' = inbox \o RemovalsOf(f, Following(c.dir, files[f].tagged))
        /\ UNCHANGED versions

\* materialize: bytes have come; only those of the latest version are placed.
Materialize ==
    \E p \in pulls :
        LET f == p.file
            targets == Following(Nowhere, IF p.how = "create" THEN p.tagged \/ files[f].tagged
                                                              ELSE files[f].tagged)
            untagged == p.how = "create" /\ p.tagged /\ ~files[f].tagged
        IN  /\ CatalogFree
            /\ pulls' = pulls \ {p}
            /\ Meets("untag", untagged)
            /\ inbox' = IF ~files[f].live \/ versions[f] # p.content THEN inbox
                        ELSE inbox \o
                             (IF p.how = "create" THEN Creations(f, p.name, targets, Temp(p.content))
                              ELSE Replacements(f, targets, Temp(p.content)))
            /\ UNCHANGED <<tree, watcher, actor, scan, ingest, files, versions, setting>>

\* Seeded mistake: missing content is looked for at once, not on the next connect.
PullFailsAskingAgain ==
    setting.pullsFail /\
    \E p \in pulls :
        /\ pulls' = pulls \ {p}
        /\ Meets("failed", TRUE)
        /\ inbox' = Append(inbox, MissingContent)
        /\ UNCHANGED <<tree, watcher, actor, scan, ingest, files, versions, setting>>

\* No peer has the bytes, or the connection breaks.
PullFails ==
    setting.pullsFail /\
    \E p \in pulls :
        /\ pulls' = pulls \ {p}
        /\ Meets("failed", TRUE)
        /\ UNCHANGED <<tree, watcher, actor, inbox, scan, ingest, files, versions, setting>>

Catalog == TakeAdded \/ TakeChanged \/ TakeMoved \/ TakeDeleted \/ Materialize

-----------------------------------------------------------------------------
(***************************************************************************)
(* Changes that peers announce, as the catalog applies them.               *)
(***************************************************************************)
CaughtUp == Running /\ inbox = <<>> /\ ingest = <<>> /\ queue = <<>> /\ ready = <<>>

PeerMay(what) ==
    /\ what \in setting.acts
    /\ CatalogFree
    /\ acts.peer < setting.peer
    /\ acts' = [acts EXCEPT !.peer = @ + 1, !.scanned = FALSE,
                            !.met = @ \cup Met("crowd", ~CaughtUp)]
    /\ UNCHANGED setting
    /\ setting.pace = "racing" \/ (Running /\ queue = <<>> /\ ready = <<>> /\ ingest = <<>>)
    /\ UNCHANGED <<tree, watcher, index, writes, scan, ingest>>

\* Bytes that no directory wants are not pulled.
Pulling(p, hasTags) ==
    pulls' = IF Following(Nowhere, hasTags) = <<>> THEN pulls ELSE pulls \cup {p}

PeerAdds ==
    \E name \in setting.names, c \in setting.contents, hasTags \in BOOLEAN :
        LET f == minted + 1
        IN  /\ PeerMay("add")
            /\ minted' = f
            /\ files' = Put(files, f, [name |-> name, live |-> TRUE, tagged |-> hasTags])
            /\ versions' = Put(versions, f, c)
            /\ Pulling(Pull(f, c, "create", name, hasTags), hasTags)
            /\ UNCHANGED inbox

\* The same content is not transferred again, unless it revives the file.
PeerChanges ==
    \E f \in DOMAIN files, c \in setting.contents :
        /\ PeerMay("change")
        /\ versions' = [versions EXCEPT ![f] = c]
        /\ files' = Revived(f)
        /\ IF versions[f] = c /\ files[f].live THEN UNCHANGED pulls
           ELSE Pulling(Pull(f, c, "change", files[f].name, files[f].tagged), files[f].tagged)
        /\ UNCHANGED <<inbox, minted>>

PeerMoves ==
    \E f \in DOMAIN files, name \in setting.names :
        /\ PeerMay("move")
        /\ files' = [files EXCEPT ![f].name = name]
        /\ inbox' = inbox \o MovesOf(f, name, Following(Nowhere, files[f].tagged))
        /\ UNCHANGED <<versions, pulls, minted>>

PeerDeletes ==
    \E f \in DOMAIN files :
        /\ PeerMay("remove")
        /\ files[f].live
        /\ files' = [files EXCEPT ![f].live = FALSE]
        /\ inbox' = inbox \o RemovalsOf(f, Following(Nowhere, files[f].tagged))
        /\ UNCHANGED <<versions, pulls, minted>>

\* plan_placement; also what an announced file that has not changed leads to.
PeerTags ==
    \E f \in DOMAIN files, hasTags \in BOOLEAN :
        /\ PeerMay("tag")
        /\ files' = [files EXCEPT ![f].tagged = hasTags]
        /\ inbox' = IF files[f].live THEN Append(inbox, ApplyPlacement(f, hasTags)) ELSE inbox
        /\ UNCHANGED <<versions, pulls, minted>>

PeerConnects ==
    /\ PeerMay("connect")
    /\ inbox' = Append(inbox, MissingContent)
    /\ UNCHANGED <<catalog, minted>>

Peer == \/ PeerAdds \/ PeerChanges \/ PeerMoves \/ PeerDeletes
        \/ PeerTags \/ PeerConnects

-----------------------------------------------------------------------------
(***************************************************************************)
(* The user.  Nothing is reported while the daemon is down, or in a folder *)
(* that is not seen.                                                       *)
(***************************************************************************)
Place == Dir \X setting.names

Undisturbed == inbox = <<>> /\ ingest = <<>> /\ pulls = {}

\* Nothing is left to do.
Quiet == CaughtUp /\ pulls = {}

UserMay(what) ==
    /\ what \in setting.acts
    /\ acts.user < setting.user
    /\ Up => Running
    /\ setting.pace = "racing" \/ (Undisturbed /\ writes = <<>> /\ ready = <<>>)
    /\ setting.pace = "settled" => queue = <<>>
    /\ acts' = [acts EXCEPT !.user = @ + 1, !.scanned = FALSE,
                            !.met = @ \cup Met("crowd", Up /\ ~Quiet)
                                      \cup Met("over", what = "rename over")
                                      \cup Met("across", what = "rename across")]
    /\ UNCHANGED setting
    /\ UNCHANGED <<watched, ready, actor, inbox, scan, ingest, catalog>>

UserWrites ==
    \E p \in Place \cup DOMAIN disk, c \in setting.contents :
        /\ UserMay("write")
        /\ p \notin folders
        /\ p \in DOMAIN disk => disk[p] # c
        /\ disk' = Put(disk, p, c)
        /\ folders' = FoldersWith(p)
        /\ Report(FolderReport(p) \o WriteReport(p), {})

UserDeletes ==
    \E p \in DOMAIN disk :
        /\ UserMay("delete")
        /\ disk' = Drop(disk, {p})
        /\ UNCHANGED folders
        /\ Report(<<RemoveOf(p)>>, {})

\* A rename, over a file that is there too.  Only into a folder that is there.
RenameAct(p, q) == IF DirOf(p) # DirOf(q) \/ Universal(DirOf(p)) THEN "rename across"
                   ELSE IF q \in DOMAIN disk THEN "rename over" ELSE "rename"

UserRenames ==
    \E p \in DOMAIN disk, q \in Place :
        /\ UserMay(RenameAct(p, q))
        /\ q # p /\ q \notin folders
        /\ IsRoot(FolderOf(q)) \/ FolderOf(q) \in folders
        /\ disk' = Put(Drop(disk, {p}), q, disk[p])
        /\ UNCHANGED folders
        /\ Report(MoveReport(p, q), {})

UserMovesIn ==
    \E q \in Place, c \in setting.contents :
        /\ UserMay("in")
        /\ q \notin folders
        /\ IsRoot(FolderOf(q)) \/ FolderOf(q) \in folders
        /\ disk' = Put(disk, q, c)
        /\ UNCHANGED folders
        /\ Report(<<MoveIn(q)>>, {})

UserMovesOut ==
    \E p \in DOMAIN disk :
        /\ UserMay("out")
        /\ disk' = Drop(disk, {p})
        /\ UNCHANGED folders
        /\ Report(<<MoveOut(p)>>, {})

Beneath(folder) == {p \in DOMAIN disk : Within(p, folder)}

\* A folder of the user's that has one file in it.
UserMovesFolderIn ==
    \E p \in Place, c \in setting.contents :
        /\ UserMay("folder in")
        /\ ~IsRoot(FolderOf(p))
        /\ FolderOf(p) \notin folders \cup DOMAIN disk
        /\ disk' = Put(disk, p, c)
        /\ folders' = FoldersWith(p)
        /\ Report(<<MoveIn(FolderOf(p))>>, {})

UserMovesFolderOut ==
    \E folder \in folders :
        /\ UserMay("folder out")
        /\ disk' = Drop(disk, Beneath(folder))
        /\ folders' = folders \ {folder}
        /\ Report(<<MoveOut(folder)>>, {folder})

RenamedFolder(p, folder, to) ==
    <<DirOf(to), NameOf(to) \o SubSeq(NameOf(p), Len(NameOf(folder)) + 1, Len(NameOf(p)))>>

UserRenamesFolder ==
    \E folder \in folders, p \in Place :
        LET to == FolderOf(p)
            moving == Beneath(folder)
        IN  /\ UserMay("folder rename")
            /\ DirOf(to) = DirOf(folder) /\ ~Universal(DirOf(to))
            /\ ~IsRoot(to) /\ to \notin folders \cup DOMAIN disk
            /\ disk' = [q \in (DOMAIN disk \ moving)
                                \cup {RenamedFolder(m, folder, to) : m \in moving} |->
                           IF q \in DOMAIN disk \ moving THEN disk[q]
                           ELSE disk[CHOOSE m \in moving : RenamedFolder(m, folder, to) = q]]
            /\ folders' = (folders \ {folder}) \cup {to}
            /\ Report(MoveReport(folder, to), {folder})

User == \/ UserWrites \/ UserDeletes \/ UserRenames \/ UserMovesIn \/ UserMovesOut
        \/ UserMovesFolderIn \/ UserMovesFolderOut \/ UserRenamesFolder

-----------------------------------------------------------------------------
(***************************************************************************)
(* Stop, start, and the comparison at the start (initial_sync.rs).  Its    *)
(* state: the directory (0 while down), the pass, what the pass still has  *)
(* to look at, and the content of every file as the catalog knew it.       *)
(***************************************************************************)
Down == [at |-> 0, pass |-> 1, todo |-> <<>>, known |-> << >>]

RowsToCheck(i) == IF i > Len(Dirs) THEN <<>> ELSE SetToSeq(DOMAIN index[Dirs[i]])

\* The contents the places of a file have that the catalog does not know.
Unknown(f) ==
    {disk[BytesPlace(d, f)] : d \in {e \in Dir : Holds(e, f) /\ BytesPlace(e, f) \in DOMAIN disk}}
        \ {versions[g] : g \in {f} \cap DOMAIN versions}

\* Every queue is in memory; what is on disk stays.
Stop ==
    /\ Up
    /\ acts.stop < setting.stops
    /\ Orderly => ingest = <<>>
    /\ setting.pace # "settled" \/ Quiet
    /\ acts' = [acts EXCEPT !.stop = @ + 1, !.scanned = FALSE,
                            !.met = @ \cup Met("stale", \E f \in 1 .. minted : Unknown(f) # {})]
    /\ UNCHANGED setting
    /\ scan' = Down
    /\ queue' = <<>> /\ ready' = <<>> /\ inbox' = <<>> /\ writes' = <<>>
    /\ watched' = {} /\ seen' = {}
    /\ pulls' = {} /\ ingest' = <<>>
    /\ UNCHANGED <<tree, index, minted, files, versions>>

Start ==
    /\ ~Up
    /\ scan' = [at |-> 1, pass |-> 1, todo |-> RowsToCheck(1), known |-> versions]
    /\ watched' = folders /\ seen' = folders
    /\ acts' = [acts EXCEPT !.scanned = TRUE,
                            !.met = @ \cup Met("torn", \E f \in 1 .. minted : Cardinality(Unknown(f)) > 1)]
    /\ UNCHANGED setting
    /\ UNCHANGED <<tree, queue, ready, actor, inbox, ingest, catalog>>

Scanning(pass) ==
    /\ Up /\ ~Running
    /\ scan.pass = pass
    /\ scan.todo # <<>>
    /\ scan' = [scan EXCEPT !.todo = Tail(@)]
    /\ UNCHANGED <<tree, watcher, inbox, catalog, acts, setting>>

ScanRowByName ==
    LET d == Dirs[scan.at]
        f == Head(scan.todo)
    IN  /\ Scanning(1)
        /\ Become(IF BytesPlace(d, f) \in DOMAIN disk THEN Now ELSE RemoveById(Now, d, f))

\* Pass 1: a tracked file is gone, or is not what the catalog knew.
ScanRow ==
    LET d == Dirs[scan.at]
        f == Head(scan.todo)
        p == BytesPlace(d, f)
    IN  /\ Scanning(1)
        /\ Become(IF p \notin DOMAIN disk THEN RemoveById(Now, d, f)
                  ELSE IF f \in DOMAIN scan.known /\ scan.known[f] = disk[p] THEN Now
                  ELSE UpdateContent(Now, f, p))

\* Pass 2: a file that no row tracks is new.
ScanFile ==
    LET p == Head(scan.todo)
    IN  /\ Scanning(2)
        /\ Become(IF \/ p \notin DOMAIN disk
                     \/ TrackedAt(DirOf(p), index[DirOf(p)], NameOf(p)) # Nowhere
                  THEN Now ELSE AddFile(Now, p))

ScanOn ==
    /\ Up /\ ~Running
    /\ scan.todo = <<>>
    /\ scan' = IF scan.pass = 1
               THEN [scan EXCEPT !.pass = 2,
                                 !.todo = SetToSeq({p \in DOMAIN disk : DirOf(p) = Dirs[scan.at]})]
               ELSE [scan EXCEPT !.pass = 1, !.at = @ + 1, !.todo = RowsToCheck(scan.at + 1),
                                 !.known = IF scan.at = Len(Dirs) THEN << >> ELSE @]
    /\ UNCHANGED <<tree, watcher, actor, inbox, ingest, catalog, acts, setting>>

Scan == ScanRow \/ ScanFile \/ ScanOn

-----------------------------------------------------------------------------
Init ==
    /\ disk = << >> /\ folders = {}
    /\ watched = {} /\ seen = {} /\ queue = <<>> /\ ready = <<>>
    /\ index = [d \in Dir |-> << >>] /\ writes = <<>> /\ minted = 0
    /\ inbox = <<>> /\ ingest = <<>>
    /\ files = << >> /\ versions = << >> /\ pulls = {}
    /\ scan = [Down EXCEPT !.at = Len(Dirs) + 1]
    /\ setting \in Setting
    /\ acts = [user |-> 0, peer |-> 0, stop |-> 0, scanned |-> FALSE, met |-> {}]

Settles == \E d \in Dir : Settle(d)

\* What the daemon does by itself.
Daemon == \/ Settles \/ HandleEvent \/ HandleCommand \/ Expire
          \/ Catalog \/ PullFails \/ Scan

Next == Daemon \/ User \/ Peer \/ Stop \/ Start

Spec == Init /\ [][Next]_vars

FairSpec == Spec /\ WF_vars(Daemon) /\ WF_vars(Start)

-----------------------------------------------------------------------------
(***************************************************************************)
(* Properties.                                                             *)
(***************************************************************************)
Ids == 1 .. minted

\* A directory and its index name the same files; what a row tracks is known to
\* the catalog and, where the file belongs, has the content of its last version.
Mirror(d) ==
    /\ \A p \in DOMAIN disk : DirOf(p) = d => TrackedAt(d, index[d], NameOf(p)) # Nowhere
    /\ \A f \in DOMAIN index[d] :
           /\ BytesPlace(d, f) \in DOMAIN disk
           /\ f \in DOMAIN files
           /\ (files[f].live /\ Wanted(d, files[f].tagged))
                  => disk[BytesPlace(d, f)] = versions[f]

\* The daemon has dealt with everything before each act, and is up.
InTurn == setting.pace = "settled" /\ acts.stop = 0

\* After these the directories need not agree with the catalog even so: the code
\* has no answer to the renames, the next connect asks again for what failed, and
\* for the last two see OnDirCreate and SpelledUnder.
Astray == {"over", "across", "failed", "blind", "spelled"}


\* A live file is where its tags say and nowhere else, a deleted one only in a vault.
Placed(f) ==
    \A d \in Dir : IF files[f].live THEN Holds(d, f) <=> Wanted(d, files[f].tagged)
                                    ELSE Holds(d, f) => Kind[d] = "vault"

\* When the daemon has dealt with everything, each file is where its last tags say,
\* though they changed while its bytes were on their way or its commands waited:
\* commands, pulls and the user's changes have not overtaken each other.  Bytes that
\* come for a tag the file has lost are the exception: they are placed for the tags
\* they were asked with and those of the catalog together (catalog/placement.rs).
QuietPlaced ==
    (InTurn /\ Quiet /\ None(Astray \cup {"untag"})) => \A f \in DOMAIN files : Placed(f)

SameName(rows, f, g) == f # g /\ {f, g} \subseteq DOMAIN rows /\ rows[f] = rows[g]

TakesMove == ready # <<>> /\ Head(ready).kind = "move" /\ ready' = Tail(ready)

\* Two files come to have one name in a directory only by a rename that the watcher
\* reports, the user's over another file: the numbering of names keeps apart those
\* that peers, moves and placements give.
OneFilePerName ==
    [][\A d \in Dir, f, g \in Ids' :
           SameName(index'[d], f, g) => SameName(index[d], f, g) \/ TakesMove]_vars

\* The daemon announces nothing that the user has not done (self_write.rs).  Refuted:
\* see the next.
SilentAlone == acts.user = 0 => ingest = <<>>

\* Each change that the daemon makes itself comes back as an event and is recognised,
\* as long as peers leave it the time to deal with one change before the next; and a
\* start announces nothing either, unless bytes of a peer's had not come before the stop.
OnlyUserChanges == None({"crowd", "stale"}) => SilentAlone

DeletedIsGone ==
    \A i \in Len(ingest) + 1 .. Len(ingest') :
        ingest'[i].kind = "deleted"
            => BytesPlace(ingest'[i].dir, ingest'[i].file) \notin DOMAIN disk

\* A file is announced as deleted only when its bytes are gone.  Refuted: see the next.
DeletesAlwaysGone == [][DeletedIsGone]_vars

\* From act to act, a file is announced as deleted only when its bytes are gone: no
\* event of the daemon's own renames and removals, of folders, or of a scan is taken
\* for a deletion.  Where acts crowd, an event may be of bytes that are back since
\* (events.rs); and files may be taken to be in a folder that left by their spelling.
DeletesOnlyGone == [][None({"crowd", "spelled"})' => DeletedIsGone]_vars

FilesAt(p) == {f \in DOMAIN index[DirOf(p)] : BytesPlace(DirOf(p), f) = p}

\* A command replaces or removes no bytes but those of its own file, or those that
\* a Universal directory has moved to their id.
OwnBytesOnly ==
    [][HandleCommand =>
           \A p \in DOMAIN disk :
               (p \notin DOMAIN disk' \/ disk'[p] # disk[p])
                   => \/ Head(inbox).file \in FilesAt(p)
                      \/ Head(inbox).kind = "create" /\ Head(inbox).bytes.at = p]_vars

\* Whatever events were lost or misjudged before, even with user, peers and daemon
\* at the same files, what a start finds is set right once its scan has been dealt
\* with (the promise of self_write.rs, initial_sync.rs), unless it finds two new
\* contents of one file: each directory then replaces the other's bytes by a command
\* that names the place of its own.
ScanRepairs == (Quiet /\ acts.scanned /\ None({"torn"})) => \A d \in Dir : Mirror(d)

\* The daemon comes to rest: its own changes do not keep it busy for ever.
ComesToRest == <>[]Quiet
=============================================================================

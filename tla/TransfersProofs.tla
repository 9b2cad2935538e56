--------------------------- MODULE TransfersProofs ---------------------------
(***************************************************************************)
(* For any devices, links, contents, permits, breakdowns and time-outs:    *)
(* the bytes of the newest version of the file are somewhere               *)
(* (LatestSurvives), and when all is quiet a device whose directory takes  *)
(* the file has them unless a pull was lost (QuietDelivered).  The user    *)
(* goes back to no earlier content of the file.                            *)
(*                                                                         *)
(* Each content is announced once, under one stamp.  A content that is     *)
(* dropped anywhere is one that some device knows to be superseded or      *)
(* deleted, or that is on some disk.                                       *)
(***************************************************************************)
EXTENDS Transfers, SequenceTheorems, FiniteSetTheorems, TLAPS

LEMMA TwoEnds ==
    /\ \A l \in Ends : l \in Device \X Device /\ l[1] \in Device /\ l[2] \in Device
    /\ \A d, e \in Device : {d, e} \in Tree => d # e
<1>1. \A d, e \in Device : {d, e} \in Tree => d # e
  <2> SUFFICES ASSUME NEW d \in Device, {d, d} \in Tree PROVE FALSE
    OBVIOUS
  <2>1. PICK l \in Tree : l = {d}
    <3>1. {d, d} = {d}
      OBVIOUS
    <3> QED
      BY <3>1
  <2>2. Cardinality(l) = 2
    BY TransfersAssumption
  <2>3. Cardinality({d}) = 1
    BY FS_Singleton
  <2> QED
    BY <2>1, <2>2, <2>3
<1> QED
  BY <1>1 DEF Ends

(***************************************************************************)
(* Types.                                                                  *)
(***************************************************************************)
LEMMA InitTypes == Init => TypeOK
<1> SUFFICES ASSUME Init PROVE TypeOK
  OBVIOUS
<1>1. Original \in Content
  BY TransfersAssumption DEF Original
<1>2. PICK shared \in BOOLEAN :
        /\ recorded = [d \in Device |-> IF shared THEN {Original} ELSE {}]
        /\ latest = [d \in Device |->
                        IF shared THEN [content |-> Original, at |-> 1] ELSE Unknown]
        /\ disk = [d \in Device |-> IF shared /\ d \in Holder THEN Original ELSE None]
        /\ used = IF shared THEN {Original} ELSE {}
  BY DEF Init
<1>3. recorded \in [Device -> SUBSET Content]
  BY <1>1, <1>2
<1>4. latest \in [Device -> Version]
  BY <1>1, <1>2 DEF Version, Unknown
<1>5. \A d \in Device : Known(d) => latest[d].content \in recorded[d]
  BY <1>1, <1>2 DEF Known, Unknown
<1>6. disk \in [Device -> Content \cup {None}] /\ used \subseteq Content
  BY <1>1, <1>2
<1>7. /\ deleted \in [Device -> Nat] /\ outbox \in [Device -> SUBSET Content]
      /\ linked \subseteq Tree
      /\ asked \in [Ends -> SUBSET Order] /\ done \in [Ends -> SUBSET Order]
      /\ clock \in Nat /\ acts \in Nat /\ drops \in Nat
      /\ misjudged \in BOOLEAN /\ lost \in [Device -> BOOLEAN]
  BY DEF Init
<1>8. pull \in [Device -> [Content -> Pull \cup {Idle}]]
  BY DEF Init
<1>9. pass \in [Device -> [stage : {"idle", "probe", "remove"}, entry : Content \cup {None}]]
  BY DEF Init, NoPass
<1>10. inbox \in [Device -> Seq(Commands)] /\ wire \in [Ends -> Seq(Frames)]
  BY EmptySeq DEF Init
<1> QED
  BY <1>3, <1>4, <1>5, <1>6, <1>7, <1>8, <1>9, <1>10 DEF TypeOK

LEMMA CommandTypes ==
    /\ \A c \in Content, p \in Placement :
           [kind |-> "AnnounceUpload", content |-> c, placement |-> p] \in Commands
    /\ \A o \in Order : Materialize(o) \in Commands
    /\ \A c \in Content, k \in Nat, d \in Device :
           [kind |-> "Version", content |-> c, at |-> k, from |-> d] \in Commands
    /\ \A k \in Nat, d \in Device : [kind |-> "Deletion", at |-> k, from |-> d] \in Commands
    /\ [kind |-> "Sweep"] \in Commands
<1>1. \A o \in Order : Materialize(o) \in Commands
  BY DEF Order, Materialize, Commands
<1> QED
  BY <1>1 DEF Commands

LEMMA FrameTypes ==
    /\ \A v \in Version : v.content \in Content => VersionFrame(v) \in Frames
    /\ \A k \in Nat : DeletionFrame(k) \in Frames
BY DEF Version, VersionFrame, DeletionFrame, Frames

\* What the fields of a command are.
LEMMA CommandFields ==
    ASSUME NEW m \in Commands
    PROVE  /\ m.kind = "AnnounceUpload" => m.content \in Content /\ m.placement \in Placement
           /\ m.kind = "Materialize" => m.content \in Content /\ m.placement \in Placement
           /\ m.kind = "Version" => m.content \in Content /\ m.at \in Nat /\ m.from \in Device
           /\ m.kind = "Deletion" => m.at \in Nat /\ m.from \in Device
BY DEF Commands

LEMMA HeadCommand ==
    ASSUME TypeOK, NEW d \in Device, NEW kind, Command(d, kind)
    PROVE  /\ Head(inbox[d]) \in Commands /\ Head(inbox[d]).kind = kind
           /\ inbox[d] \in Seq(Commands) /\ inbox[d] # <<>>
           /\ Handled(d) => /\ inbox' \in [Device -> Seq(Commands)]
                            /\ inbox'[d] = Tail(inbox[d])
                            /\ \A e \in Device : e # d => inbox'[e] = inbox[e]
<1>1. inbox \in [Device -> Seq(Commands)] /\ inbox[d] \in Seq(Commands)
  BY DEF TypeOK
<1>2. /\ inbox[d] # <<>> /\ Head(inbox[d]).kind = kind
  BY DEF Command
<1>3. Head(inbox[d]) \in Commands /\ Tail(inbox[d]) \in Seq(Commands)
  BY <1>1, <1>2, HeadTailProperties
<1> QED
  BY <1>1, <1>2, <1>3 DEF Handled

LEMMA EnqueuedCommand ==
    ASSUME TypeOK, NEW d \in Device, NEW m \in Commands, inbox' = Enqueued(d, m)
    PROVE  /\ inbox' \in [Device -> Seq(Commands)]
           /\ inbox'[d] = Append(inbox[d], m)
           /\ \A e \in Device : e # d => inbox'[e] = inbox[e]
<1>1. inbox \in [Device -> Seq(Commands)] /\ inbox[d] \in Seq(Commands)
  BY DEF TypeOK
<1>2. Append(inbox[d], m) \in Seq(Commands)
  BY <1>1, AppendProperties
<1> QED
  BY <1>1, <1>2 DEF Enqueued

LEMMA ForwardedTypes ==
    ASSUME TypeOK, NEW d \in Device, NEW f \in Frames, NEW o
    PROVE  Forwarded(d, f, o) \in [Ends -> Seq(Frames)]
<1>1. \A l \in Ends : wire[l] \in Seq(Frames) /\ Append(wire[l], f) \in Seq(Frames)
  BY AppendProperties DEF TypeOK
<1> QED
  BY <1>1 DEF Forwarded

LEMMA SubmittedTypes ==
    ASSUME TypeOK, NEW d \in Device, NEW c \in Content, NEW e \in Device, NEW p \in Placement
    PROVE  Submitted(d, c, e, p) \in [Device -> [Content -> Pull \cup {Idle}]]
<1>1. Queued(e, p) \in Pull
  BY TransfersAssumption DEF Queued, Pull
<1>2. pull \in [Device -> [Content -> Pull \cup {Idle}]]
  BY DEF TypeOK
<1>3. [pull[d] EXCEPT ![c] = Queued(e, p)] \in [Content -> Pull \cup {Idle}]
  BY <1>1, <1>2
<1> QED
  BY <1>2, <1>3 DEF Submitted

\* A pull that is not idle has all its fields.
LEMMA PullTypes ==
    ASSUME TypeOK, NEW d \in Device, NEW c \in Content
    PROVE  /\ pull[d][c] \in Pull \cup {Idle}
           /\ pull[d][c] # Idle => pull[d][c] \in Pull
           /\ pull[d][c] \in Pull => pull[d][c].state \in {"queued", "running", "ended"}
           /\ pull[d][c].state # "idle" => pull[d][c] \in Pull
           /\ pull[d][c] \in Pull => OrderOf(d, c) \in Order /\ pull[d][c].from \in Device
           /\ pull[d][c] \in Pull => pull[d][c] # Idle
<1>1. pull[d][c] \in Pull \cup {Idle}
  BY DEF TypeOK
<1>2. pull[d][c] \in Pull => pull[d][c].state \in {"queued", "running", "ended"}
  BY DEF Pull
<1>3. Idle.state = "idle"
  BY DEF Idle
<1>4. pull[d][c] \in Pull => OrderOf(d, c) \in Order /\ pull[d][c].from \in Device
  BY DEF Pull, OrderOf, Order
<1> QED
  BY <1>1, <1>2, <1>3, <1>4

\* A step of a pull on its way leaves what it is for.
LEMMA PullMoves ==
    ASSUME TypeOK, NEW d \in Device, NEW c \in Content, pull[d][c].state # "idle",
           NEW p \in Pull, pull' = [pull EXCEPT ![d][c] = p]
    PROVE  /\ pull' \in [Device -> [Content -> Pull \cup {Idle}]]
           /\ pull'[d][c] = p
           /\ \A e \in Device, x \in Content : <<e, x>> # <<d, c>> => pull'[e][x] = pull[e][x]
BY DEF TypeOK

LEMMA UserTypes ==
    ASSUME TypeOK, NEW d \in Acting, Delete(d) \/ \E c \in Content : Upload(d, c)
    PROVE  TypeOK'
<1>0. d \in Device
  BY TransfersAssumption
<1>1. CASE Delete(d)
  <2>1. clock' \in Nat /\ acts' \in Nat
    BY <1>1 DEF Delete, TypeOK
  <2>2. inbox' \in [Device -> Seq(Commands)]
    BY <1>0, <1>1, <2>1, CommandTypes, EnqueuedCommand DEF Delete
  <2> QED
    BY <1>1, <2>1, <2>2 DEF Delete, TypeOK, Known, catalog, bytes, session
<1>2. CASE \E c \in Content : Upload(d, c)
  <2> PICK c \in Content : Upload(d, c)
    BY <1>2
  <2>1. acts' \in Nat /\ used' \subseteq Content /\ outbox' \in [Device -> SUBSET Content]
    BY <1>0 DEF Upload, TypeOK
  <2>2. inbox' \in [Device -> Seq(Commands)]
    <3> DEFINE p == IF Known(d) THEN "Change" ELSE "Create"
    <3>1. p \in Placement
      BY DEF Placement
    <3>2. inbox' = Enqueued(d, [kind |-> "AnnounceUpload", content |-> c, placement |-> p])
      BY DEF Upload
    <3> HIDE DEF p
    <3> QED
      BY <1>0, <3>1, <3>2, CommandTypes, EnqueuedCommand
  <2> QED
    BY <2>1, <2>2 DEF Upload, TypeOK, Known, catalog, session
<1> QED
  BY <1>1, <1>2

LEMMA TransferTypes ==
    ASSUME TypeOK, NEW d \in Device, NEW c \in Content, Transfer(d, c) \/ TimeOut(d, c)
    PROVE  TypeOK'
<1> DEFINE p == pull[d][c]
<1>0. /\ p.state # "idle" => p \in Pull
      /\ Idle.state = "idle"
  BY PullTypes DEF Idle
<1>1. CASE Admit(d, c)
  <2>1. p \in Pull /\ [p EXCEPT !.state = "running"] \in Pull
    BY <1>0, <1>1 DEF Admit, Pull
  <2>2. pull' \in [Device -> [Content -> Pull \cup {Idle}]]
    BY <1>1, <2>1, PullMoves DEF Admit
  <2> QED
    BY <1>1, <2>2 DEF Admit, TypeOK, Known, catalog, bytes, session, counts
<1>2. CASE FetchChunk(d, c)
  <2>1. p \in Pull /\ [p EXCEPT !.got = @ + 1] \in Pull
    BY <1>0, <1>2, TransfersAssumption DEF FetchChunk, Pull
  <2>2. pull' \in [Device -> [Content -> Pull \cup {Idle}]]
    BY <1>0, <1>2, <2>1, PullMoves DEF FetchChunk
  <2> QED
    BY <1>2, <2>2 DEF FetchChunk, TypeOK, Known, catalog, bytes, session, counts
<1>3. ASSUME p.state = "running", pull' = [pull EXCEPT ![d][c].state = "ended"]
      PROVE  pull' \in [Device -> [Content -> Pull \cup {Idle}]]
  <2>1. p \in Pull /\ [p EXCEPT !.state = "ended"] \in Pull
    BY <1>0, <1>3 DEF Pull
  <2> QED
    BY <1>3, <2>1, PullMoves
<1>4. CASE Starve(d, c)
  BY <1>3, <1>4 DEF Starve, TypeOK, Known, catalog, bytes, session, counts
<1>5. CASE Deliver(d, c)
  <2>1. pull' \in [Device -> [Content -> Pull \cup {Idle}]]
    BY <1>3, <1>5 DEF Deliver
  <2>2. OrderOf(d, c) \in Order /\ p.from \in Device
    BY <1>0, <1>5, PullTypes DEF Deliver
  <2>3. inbox' \in [Device -> Seq(Commands)]
    <3>1. CASE p.from = d
      BY <1>5, <2>2, <3>1, CommandTypes, EnqueuedCommand DEF Deliver
    <3>2. CASE p.from # d
      BY <1>5, <3>2 DEF Deliver, TypeOK
    <3> QED
      BY <3>1, <3>2
  <2>4. done' \in [Ends -> SUBSET Order] /\ lost' \in [Device -> BOOLEAN]
    BY <1>5, <2>2 DEF Deliver, TypeOK
  <2> QED
    BY <1>5, <2>1, <2>3, <2>4 DEF Deliver, TypeOK, Known, catalog, bytes, counts
<1>6. CASE Finish(d, c)
  <2>1. pull' \in [Device -> [Content -> Pull \cup {Idle}]]
    BY <1>6 DEF Finish, TypeOK
  <2> QED
    BY <1>6, <2>1 DEF Finish, TypeOK, Known, catalog, bytes, session, counts
<1>7. CASE TimeOut(d, c)
  BY <1>3, <1>7 DEF TimeOut, TypeOK, Known, catalog, bytes, session
<1> QED
  BY <1>1, <1>2, <1>4, <1>5, <1>6, <1>7 DEF Transfer

LEMMA RecordedTypes ==
    ASSUME TypeOK, NEW d \in Device, NEW v \in Version, v.content \in Content, Recorded(d, v)
    PROVE  /\ recorded' \in [Device -> SUBSET Content]
           /\ latest' \in [Device -> Version]
           /\ \A e \in Device : Known(e)' => latest'[e].content \in recorded'[e]
BY DEF TypeOK, Recorded, Known

LEMMA WriteTypes ==
    ASSUME TypeOK, NEW d \in Device, Write(d)
    PROVE  TypeOK'
<1> DEFINE m == Head(inbox[d])
<1>1. CASE WriteUpload(d)
  <2> DEFINE v == [content |-> m.content, at |-> clock + 1]
  <2>1. /\ m \in Commands /\ m.kind = "AnnounceUpload"
        /\ inbox' \in [Device -> Seq(Commands)]
    BY <1>1, HeadCommand DEF WriteUpload
  <2>2. m.content \in Content /\ m.placement \in Placement
    BY <2>1, CommandFields
  <2>3. /\ v \in Version /\ v.content \in Content /\ VersionFrame(v) \in Frames
        /\ clock' \in Nat
    <3>1. clock \in Nat /\ clock' = clock + 1
      BY <1>1 DEF TypeOK, WriteUpload
    <3>2. v \in Version /\ v.content \in Content
      BY <2>2, <3>1 DEF Version
    <3> HIDE DEF v
    <3> QED
      BY <3>1, <3>2, FrameTypes
  <2>4. Recorded(d, v) /\ wire' = Forwarded(d, VersionFrame(v), d)
    BY <1>1 DEF WriteUpload
  <2> HIDE DEF v
  <2>5. wire' \in [Ends -> Seq(Frames)]
    BY <2>3, <2>4, ForwardedTypes
  <2>6. pull' \in [Device -> [Content -> Pull \cup {Idle}]]
    BY <1>1, <2>2, SubmittedTypes DEF WriteUpload, TypeOK
  <2>7. lost' \in [Device -> BOOLEAN]
    BY <1>1 DEF WriteUpload, MadeUp, TypeOK
  <2> QED
    BY <1>1, <2>1, <2>3, <2>4, <2>5, <2>6, <2>7, RecordedTypes
    DEF WriteUpload, TypeOK, bytes, session
<1>2. CASE WriteVersion(d)
  <2> DEFINE v == [content |-> m.content, at |-> m.at]
             order == [content |-> m.content,
                       placement |-> IF Known(d) THEN "Change" ELSE "Create"]
  <2>1. /\ m \in Commands /\ m.kind = "Version"
        /\ inbox' \in [Device -> Seq(Commands)]
    BY <1>2, HeadCommand DEF WriteVersion
  <2>2. m.content \in Content /\ m.at \in Nat /\ m.from \in Device
    BY <2>1, CommandFields
  <2>3. /\ v \in Version /\ v.content \in Content /\ VersionFrame(v) \in Frames
        /\ order \in Order
    BY <2>2, FrameTypes DEF Version, Order, Placement
  <2>4. /\ Recorded(d, v) \/ UNCHANGED <<recorded, latest>>
        /\ wire' = Forwarded(d, VersionFrame(v), m.from)
    BY <1>2 DEF WriteVersion
  <2>5. asked' \in [Ends -> SUBSET Order] /\ lost' \in [Device -> BOOLEAN]
    BY <1>2, <2>3 DEF WriteVersion, TypeOK
  <2> HIDE DEF v
  <2>6. wire' \in [Ends -> Seq(Frames)]
    BY <2>3, <2>4, ForwardedTypes
  <2>7. /\ recorded' \in [Device -> SUBSET Content]
        /\ latest' \in [Device -> Version]
        /\ \A e \in Device : Known(e)' => latest'[e].content \in recorded'[e]
    BY <2>3, <2>4, RecordedTypes DEF TypeOK, Known
  <2> QED
    BY <1>2, <2>1, <2>5, <2>6, <2>7 DEF WriteVersion, TypeOK, bytes, counts
<1>3. CASE WriteDeletion(d)
  <2>1. /\ m \in Commands /\ m.kind = "Deletion"
        /\ inbox' \in [Device -> Seq(Commands)]
    BY <1>3, HeadCommand DEF WriteDeletion
  <2>2. m.at \in Nat /\ m.from \in Device /\ DeletionFrame(m.at) \in Frames
    BY <2>1, CommandFields, FrameTypes
  <2>3. wire' = Forwarded(d, DeletionFrame(m.at), m.from) \/ wire' = wire
    BY <1>3 DEF WriteDeletion
  <2>4. wire' \in [Ends -> Seq(Frames)]
    <3>1. Forwarded(d, DeletionFrame(m.at), m.from) \in [Ends -> Seq(Frames)]
      BY <2>2, ForwardedTypes
    <3>2. wire \in [Ends -> Seq(Frames)]
      BY DEF TypeOK
    <3> QED
      BY <2>3, <3>1, <3>2
  <2>5. deleted' \in [Device -> Nat] /\ disk' \in [Device -> Content \cup {None}]
    BY <1>3, <2>2 DEF WriteDeletion, TypeOK
  <2> QED
    BY <1>3, <2>1, <2>4, <2>5 DEF WriteDeletion, TypeOK, Known, session, counts
<1>4. CASE WriteBytes(d)
  <2>1. /\ m \in Commands /\ m.kind = "Materialize"
        /\ inbox' \in [Device -> Seq(Commands)]
    BY <1>4, HeadCommand DEF WriteBytes
  <2>2. m.content \in Content
    BY <2>1, CommandFields
  <2>3. disk' \in [Device -> Content \cup {None}]
    BY <1>4, <2>2 DEF WriteBytes, TypeOK
  <2> QED
    BY <1>4, <2>1, <2>3 DEF WriteBytes, TypeOK, Known, catalog, session, counts
<1>5. CASE Sweep(d)
  <2>1. inbox' \in [Device -> Seq(Commands)]
    BY <1>5, HeadCommand DEF Sweep
  <2>2. Live(d) => latest[d].content \in Content
    BY DEF Live, TypeOK
  <2>3. pull' \in [Device -> [Content -> Pull \cup {Idle}]]
    BY <1>5, <2>2, SubmittedTypes DEF Sweep, TypeOK, Placement
  <2>4. lost' \in [Device -> BOOLEAN]
    BY <1>5 DEF Sweep, MadeUp, TypeOK
  <2> QED
    BY <1>5, <2>1, <2>3, <2>4 DEF Sweep, TypeOK, Known, catalog, bytes, session, counts
<1> QED
  BY <1>1, <1>2, <1>3, <1>4, <1>5 DEF Write

LEMMA SessionTypes ==
    ASSUME TypeOK, NEW d \in Device, NEW e \in Device, <<d, e>> \in Ends, Session(d, e)
    PROVE  TypeOK'
<1> DEFINE l == <<d, e>>
<1>1. CASE Receive(d, e)
  <2> DEFINE f == Head(wire[l])
             m == IF f.kind = "Version"
                  THEN [kind |-> "Version", content |-> f.content, at |-> f.at, from |-> d]
                  ELSE [kind |-> "Deletion", at |-> f.at, from |-> d]
  <2>1. wire[l] \in Seq(Frames) /\ wire[l] # <<>>
    BY <1>1 DEF Receive, TypeOK
  <2>2. f \in Frames /\ Tail(wire[l]) \in Seq(Frames)
    BY <2>1, HeadTailProperties
  <2>3. m \in Commands
    BY <2>2 DEF Frames, Commands
  <2>4. inbox' = Enqueued(e, m)
    BY <1>1 DEF Receive
  <2> HIDE DEF m
  <2>5. inbox' \in [Device -> Seq(Commands)]
    BY <2>3, <2>4, EnqueuedCommand
  <2>6. wire' \in [Ends -> Seq(Frames)]
    BY <1>1, <2>2 DEF Receive, TypeOK
  <2> QED
    BY <1>1, <2>5, <2>6 DEF Receive, TypeOK, Known, catalog, bytes, session, counts
<1>2. CASE StartReceive(d, e)
  <2>1. PICK order \in asked[l] :
          /\ asked' = [asked EXCEPT ![<<d, e>>] = @ \ {order}]
          /\ pull' = Submitted(d, order.content, e, order.placement)
          /\ lost' = IF order.content = latest[d].content
                     THEN MadeUp(d, order.content) ELSE lost
          /\ UNCHANGED <<catalog, bytes, inbox, pass, linked, done, wire, counts, misjudged>>
    BY <1>2 DEF StartReceive
  <2>2. order.content \in Content /\ order.placement \in Placement
    BY DEF TypeOK, Order
  <2>3. pull' \in [Device -> [Content -> Pull \cup {Idle}]]
    BY <2>1, <2>2, SubmittedTypes
  <2>4. asked' \in [Ends -> SUBSET Order] /\ lost' \in [Device -> BOOLEAN]
    BY <2>1 DEF TypeOK, MadeUp
  <2> QED
    BY <2>1, <2>3, <2>4 DEF TypeOK, Known, catalog, bytes, counts
<1>3. CASE TakeDone(d, e)
  <2>1. PICK order \in done[l] :
          /\ done' = [done EXCEPT ![<<d, e>>] = @ \ {order}]
          /\ inbox' = Enqueued(d, Materialize(order))
          /\ UNCHANGED <<catalog, bytes, pull, pass, linked, asked, wire, counts, misjudged,
                         lost>>
    BY <1>3 DEF TakeDone
  <2>2. Materialize(order) \in Commands
    BY CommandTypes DEF TypeOK
  <2>3. inbox' \in [Device -> Seq(Commands)]
    BY <2>1, <2>2, EnqueuedCommand
  <2>4. done' \in [Ends -> SUBSET Order]
    BY <2>1 DEF TypeOK
  <2> QED
    BY <2>1, <2>3, <2>4 DEF TypeOK, Known, catalog, bytes, counts
<1> QED
  BY <1>1, <1>2, <1>3 DEF Session

LEMMA ConnectTypes ==
    ASSUME TypeOK, NEW link \in Tree, Connect(link)
    PROVE  TypeOK'
<1>1. \A d \in Device : Row(d) \in Seq(Frames)
  <2> SUFFICES ASSUME NEW d \in Device PROVE Row(d) \in Seq(Frames)
    OBVIOUS
  <2>1. deleted[d] \in Nat /\ latest[d] \in Version
    BY DEF TypeOK
  <2>2. Known(d) => latest[d].content \in Content
    BY DEF TypeOK
  <2>3. DeletionFrame(deleted[d]) \in Frames
    BY <2>1, FrameTypes
  <2>4. Known(d) => VersionFrame(latest[d]) \in Frames
    BY <2>1, <2>2, FrameTypes
  <2> QED
    BY <2>3, <2>4, EmptySeq DEF Row
<1>2. wire' \in [Ends -> Seq(Frames)]
  BY <1>1, TwoEnds DEF Connect, TypeOK
<1>3. inbox' \in [Device -> Seq(Commands)]
  <2>1. \A d \in Device : /\ inbox[d] \in Seq(Commands)
                          /\ Append(inbox[d], [kind |-> "Sweep"]) \in Seq(Commands)
    BY CommandTypes, AppendProperties DEF TypeOK
  <2> QED
    BY <2>1 DEF Connect
<1> QED
  BY <1>2, <1>3 DEF Connect, TypeOK, Known, catalog, bytes, counts

LEMMA DownTypes ==
    ASSUME TypeOK, NEW broken, NEW killed, Down(broken, killed)
    PROVE  /\ linked' \subseteq Tree
           /\ wire' \in [Ends -> Seq(Frames)]
           /\ asked' \in [Ends -> SUBSET Order] /\ done' \in [Ends -> SUBSET Order]
           /\ pull' \in [Device -> [Content -> Pull \cup {Idle}]]
           /\ lost' \in [Device -> BOOLEAN] /\ drops' \in Nat
<1>1. wire' \in [Ends -> Seq(Frames)]
  BY EmptySeq DEF Down, TypeOK
<1>2. pull' \in [Device -> [Content -> Pull \cup {Idle}]]
  <2>1. \A d \in Device, c \in Content : Orphaned(d, pull[d][c], broken) \in Pull \cup {Idle}
    <3>1. ASSUME NEW p \in Pull \cup {Idle}, NEW d \in Device
          PROVE  Orphaned(d, p, broken) \in Pull \cup {Idle}
      <4>1. p # Idle => [p EXCEPT !.live = FALSE] \in Pull
        BY DEF Pull
      <4> QED
        BY <4>1 DEF Orphaned
    <3>2. \A d \in Device, c \in Content : pull[d][c] \in Pull \cup {Idle}
      BY DEF TypeOK
    <3> QED
      BY <3>1, <3>2
  <2> QED
    BY <2>1 DEF Down
<1>3. lost' \in [Device -> BOOLEAN]
  BY DEF Down, TypeOK
<1>4. asked' \in [Ends -> SUBSET Order] /\ done' \in [Ends -> SUBSET Order]
  BY DEF Down, TypeOK
<1>5. linked' \subseteq Tree /\ drops' \in Nat
  BY DEF Down, TypeOK
<1> QED
  BY <1>1, <1>2, <1>3, <1>4, <1>5

LEMMA BreakTypes ==
    ASSUME TypeOK,
           (\E link \in Tree : Disconnect(link)) \/ (\E d \in Device : Crash(d))
    PROVE  TypeOK'
<1>1. ASSUME NEW link \in Tree, Disconnect(link) PROVE TypeOK'
  <2>1. Down({link}, {}) /\ UNCHANGED <<inbox, pass>>
    BY <1>1 DEF Disconnect
  <2>2. /\ linked' \subseteq Tree
        /\ wire' \in [Ends -> Seq(Frames)]
        /\ asked' \in [Ends -> SUBSET Order] /\ done' \in [Ends -> SUBSET Order]
        /\ pull' \in [Device -> [Content -> Pull \cup {Idle}]]
        /\ lost' \in [Device -> BOOLEAN] /\ drops' \in Nat
    BY <2>1, DownTypes
  <2> QED
    BY <2>1, <2>2 DEF Down, TypeOK, Known, catalog, bytes
<1>2. ASSUME NEW d \in Device, Crash(d) PROVE TypeOK'
  <2>1. Down({l \in Tree : d \in l}, {d})
    BY <1>2 DEF Crash
  <2>2. /\ linked' \subseteq Tree
        /\ wire' \in [Ends -> Seq(Frames)]
        /\ asked' \in [Ends -> SUBSET Order] /\ done' \in [Ends -> SUBSET Order]
        /\ pull' \in [Device -> [Content -> Pull \cup {Idle}]]
        /\ lost' \in [Device -> BOOLEAN] /\ drops' \in Nat
    BY <2>1, DownTypes
  <2>3. inbox' \in [Device -> Seq(Commands)]
    BY <1>2, EmptySeq DEF Crash, TypeOK
  <2>4. pass' \in [Device -> [stage : {"idle", "probe", "remove"},
                              entry : Content \cup {None}]]
    BY <1>2 DEF Crash, TypeOK, NoPass
  <2> QED
    BY <2>1, <2>2, <2>3, <2>4 DEF Down, TypeOK, Known, catalog, bytes
<1> QED
  BY <1>1, <1>2

LEMMA PassTypes ==
    ASSUME TypeOK, NEW d \in Device, ReleasePass(d)
    PROVE  TypeOK'
<1> DEFINE Passes == [stage : {"idle", "probe", "remove"}, entry : Content \cup {None}]
<1>1. ASSUME NEW c \in Content, Judge(d, c) PROVE TypeOK'
  <2>1. pass' \in [Device -> Passes] /\ misjudged' \in BOOLEAN
    BY <1>1 DEF Judge, TypeOK
  <2> QED
    BY <1>1, <2>1 DEF Judge, TypeOK, Known, catalog, bytes, session, counts
<1>2. CASE Probe(d)
  <2>1. PICK p : /\ p = [pass[d] EXCEPT !.stage = "remove"] \/ p = NoPass
                 /\ pass' = [pass EXCEPT ![d] = p]
    BY <1>2 DEF Probe
  <2>2. p \in Passes /\ pass \in [Device -> Passes]
    <3>1. pass \in [Device -> Passes]
      BY DEF TypeOK
    <3>2. NoPass \in Passes
      BY DEF NoPass
    <3>3. pass[d] \in Passes
      BY <3>1
    <3>4. [pass[d] EXCEPT !.stage = "remove"] \in Passes
      BY <3>3
    <3> QED
      BY <2>1, <3>1, <3>2, <3>4
  <2>3. pass' \in [Device -> Passes]
    BY <2>1, <2>2
  <2> QED
    BY <1>2, <2>3 DEF Probe, TypeOK, Known, catalog, bytes, session, counts
<1>3. CASE Release(d)
  <2>1. pass' \in [Device -> Passes] /\ outbox' \in [Device -> SUBSET Content]
    BY <1>3 DEF Release, TypeOK, NoPass
  <2> QED
    BY <1>3, <2>1 DEF Release, TypeOK, Known, catalog, session, counts
<1> QED
  BY <1>1, <1>2, <1>3 DEF ReleasePass

LEMMA StutterTypes == ASSUME TypeOK, UNCHANGED vars PROVE TypeOK'
BY DEF vars, TypeOK, Known, catalog, bytes, session, counts

LEMMA TypesKept == ASSUME TypeOK, [Next]_vars PROVE TypeOK'
<1>1. ASSUME NEW l \in Ends, Session(l[1], l[2]) PROVE TypeOK'
  <2>1. l[1] \in Device /\ l[2] \in Device /\ <<l[1], l[2]>> \in Ends
    BY TwoEnds DEF Ends
  <2> QED
    BY <1>1, <2>1, SessionTypes
<1> QED
  BY <1>1, UserTypes, WriteTypes, PassTypes, BreakTypes, TransferTypes, ConnectTypes,
     StutterTypes DEF Next

\* Every variable keeps its type, and what a device has latest it has recorded.
THEOREM TypeCorrect == Spec => []TypeOK
BY InitTypes, TypesKept, PTL DEF Spec

(***************************************************************************)
(* The inductive invariant.                                                *)
(***************************************************************************)
\* Under which stamp each content was announced, 0 if it was not.
Stamping == [Content -> Nat]

Stamped(s) ==
    /\ s \in Stamping
    /\ \A c \in Content : s[c] <= clock /\ (s[c] > 0 => c \in used)
    /\ \A b, c \in Content : s[b] = s[c] /\ s[c] > 0 => b = c

\* The stamps of deletions.
Gaps(s) == {k \in 1 .. clock : \A c \in Content : s[c] # k}

RowOK(d, s) ==
    /\ IF Known(d) THEN latest[d].content \in recorded[d]
                        /\ latest[d].at = s[latest[d].content]
                   ELSE latest[d] = Unknown
    /\ \A c \in recorded[d] : 0 < s[c] /\ s[c] <= latest[d].at
    /\ deleted[d] \in Gaps(s) \cup {0}
    /\ disk[d] \in recorded[d] \cup {None}

\* A file that is to be made is missing, or there is something at least as new.
Fitting(d, s) ==
    {o \in Order : /\ o.content \in recorded[d]
                   /\ o.placement = "Create" =>
                          disk[d] = None \/ s[disk[d]] >= s[o.content]}

Uploads(s) ==
    {m \in [kind : {"AnnounceUpload"}, content : used, placement : Placement] :
        s[m.content] = 0 /\ (m.placement = "Create" => used = {m.content})}

Versions(s) ==
    {m \in [kind : {"Version"}, content : Content, at : Nat, from : Device] :
        m.at = s[m.content] /\ m.at > 0}

GoodCommand(d, s) ==
    Uploads(s) \cup {Materialize(o) : o \in Fitting(d, s)} \cup Versions(s)
      \cup [kind : {"Deletion"}, at : Gaps(s), from : Device] \cup [kind : {"Sweep"}]

GoodFrame(s) ==
    {f \in [kind : {"Version"}, content : Content, at : Nat] :
        f.at = s[f.content] /\ f.at > 0}
      \cup [kind : {"Deletion"}, at : Gaps(s)]

IsUpload(m, c) == m.kind = "AnnounceUpload" /\ m.content = c

IsBytes(m, c) == m.kind = "Materialize" /\ m.content = c

Announces(q, c) == \E i \in 1 .. Len(q) : IsUpload(q[i], c)

Carries(q, c) == \E i \in 1 .. Len(q) : IsBytes(q[i], c)

\* An upload is announced once.
Once(q) == \A c \in Content : \A i, j \in 1 .. Len(q) :
               IsUpload(q[i], c) /\ IsUpload(q[j], c) => i = j

QueuesOK(s) ==
    /\ \A d \in Device : inbox[d] \in Seq(GoodCommand(d, s)) /\ Once(inbox[d])
    /\ wire \in [Ends -> Seq(GoodFrame(s))]

PullOK(d, c, s) ==
    pull[d][c] # Idle =>
        /\ pull[d][c].from # d => <<d, pull[d][c].from>> \in Ends
        /\ OrderOf(d, c) \in Fitting(d, s)

OrdersOK(s) ==
    /\ \A d \in Device, c \in Content : PullOK(d, c, s)
    /\ \A l \in Ends : asked[l] \cup done[l] \subseteq Fitting(l[1], s)

\* A content is one device's to announce and to keep.
Has(d, c) == c \in outbox[d] \/ Awaited(d, c)

OwnedOK(s) ==
    /\ \A c \in Content, d, e \in Device : Has(d, c) /\ Has(e, c) => d = e
    /\ \A c \in Content, d \in Device :
           /\ Has(d, c) => c \in used
           /\ Awaited(d, c) /\ ~misjudged => c \in outbox[d]
           /\ c \in outbox[d] /\ s[c] > 0 => c \in recorded[d]

\* Some device has a newer version or a newer deletion; or the content will never
\* be announced.
Past(c, s) == \E d \in Device : latest[d].at > s[c] \/ deleted[d] > s[c]

Needed(c, s) == IF s[c] > 0 THEN ~Past(c, s)
                ELSE c \notin used \/ \E d \in Device : Awaited(d, c)

\* What is about to be removed from an outbox is not needed, or on some disk.
PassOK(d, s) ==
    /\ pass[d].stage # "idle" => pass[d].entry \in outbox[d]
    /\ pass[d].stage = "remove" =>
           \/ misjudged
           \/ ~Needed(pass[d].entry, s)
           \/ \E e \in Device : disk[e] = pass[d].entry

KeptOK(s) ==
    /\ \A d \in Device : PassOK(d, s)
    /\ \A c \in Content : s[c] > 0 /\ ~misjudged =>
           Past(c, s) \/ \E e \in Device : Answers(e, c)

\* The bytes have been pulled and the writer will hear of them.
Brought(d, c) ==
    \/ \E l \in Ends : l[1] = d /\ \E o \in done[l] : o.content = c
    \/ Carries(inbox[d], c)

ToPull(d, c) ==
    /\ pull[d][c].state # "ended"
    /\ pull[d][c] # Idle \/ \E l \in Ends : l[1] = d /\ \E o \in asked[l] : o.content = c

Served(d) ==
    Live(d) /\ ~lost[d] => \/ disk[d] = latest[d].content
                           \/ Brought(d, latest[d].content)
                           \/ ToPull(d, latest[d].content)

Inv(s) ==
    /\ TypeOK
    /\ Stamped(s)
    /\ \A d \in Device : RowOK(d, s)
    /\ QueuesOK(s)
    /\ OrdersOK(s)
    /\ OwnedOK(s)
    /\ KeptOK(s)
    /\ \A d \in Holder : Served(d)

(***************************************************************************)
(* Queues.                                                                 *)
(***************************************************************************)
LEMMA AwaitedIs ==
    \A d \in Device, c \in Content : Awaited(d, c) <=> Announces(inbox[d], c)
BY DEF Awaited, Announces, IsUpload

LEMMA AppendMeans ==
    ASSUME NEW S, NEW q \in Seq(S), NEW m \in S
    PROVE  /\ \A c : Announces(Append(q, m), c) <=> Announces(q, c) \/ IsUpload(m, c)
           /\ \A c : Carries(Append(q, m), c) <=> Carries(q, c) \/ IsBytes(m, c)
           /\ Once(q) /\ (\A c \in Content : IsUpload(m, c) => ~Announces(q, c))
                  => Once(Append(q, m))
<1> DEFINE r == Append(q, m)
           n == Len(q)
<1>1. /\ n \in Nat /\ Len(r) = n + 1 /\ r[n + 1] = m
      /\ \A i \in 1 .. n : r[i] = q[i]
  BY AppendProperties, LenProperties
<1>2. \A i \in 1 .. n + 1 : i \in 1 .. n \/ i = n + 1
  BY <1>1
<1>3. \A i \in 1 .. n : i \in 1 .. n + 1
  BY <1>1
<1>4. n + 1 \in 1 .. n + 1 /\ n + 1 \notin 1 .. n
  BY <1>1
<1> HIDE DEF r, n
<1>5. \A c : Announces(r, c) <=> Announces(q, c) \/ IsUpload(m, c)
  BY <1>1, <1>2, <1>3, <1>4 DEF Announces, n
<1>6. \A c : Carries(r, c) <=> Carries(q, c) \/ IsBytes(m, c)
  BY <1>1, <1>2, <1>3, <1>4 DEF Carries, n
<1>7. ASSUME Once(q), \A c \in Content : IsUpload(m, c) => ~Announces(q, c)
      PROVE  Once(r)
  <2> SUFFICES ASSUME NEW c \in Content, NEW i \in 1 .. n + 1, NEW j \in 1 .. n + 1,
                      IsUpload(r[i], c), IsUpload(r[j], c)
               PROVE  i = j
    BY <1>1 DEF Once
  <2>1. ASSUME i \in 1 .. n, j \in 1 .. n PROVE i = j
    BY <1>1, <1>7, <2>1 DEF Once, n
  <2>2. ASSUME NEW k \in 1 .. n, IsUpload(r[k], c), IsUpload(r[n + 1], c) PROVE FALSE
    BY <1>1, <1>7, <2>2 DEF Announces, n
  <2> QED
    BY <1>2, <2>1, <2>2
<1> QED
  BY <1>5, <1>6, <1>7 DEF r

LEMMA TailMeans ==
    ASSUME NEW S, NEW q \in Seq(S), q # <<>>
    PROVE  /\ \A c : Announces(q, c) <=> Announces(Tail(q), c) \/ IsUpload(Head(q), c)
           /\ \A c : Carries(q, c) <=> Carries(Tail(q), c) \/ IsBytes(Head(q), c)
           /\ Once(q) => Once(Tail(q))
           /\ Once(q) => \A c \in Content : IsUpload(Head(q), c) => ~Announces(Tail(q), c)
<1> DEFINE r == Tail(q)
           n == Len(r)
<1>1. /\ n \in Nat /\ Len(q) = n + 1 /\ q[1] = Head(q)
      /\ \A i \in 1 .. n : r[i] = q[i + 1]
  <2>1. Len(q) \in Nat \ {0} /\ Len(r) = Len(q) - 1 /\ q[1] = Head(q)
    BY HeadTailProperties, LenProperties, EmptySeq
  <2>2. \A i \in 1 .. Len(r) : r[i] = q[i + 1]
    BY HeadTailProperties
  <2> QED
    BY <2>1, <2>2
<1>2. \A i \in 1 .. n + 1 : i = 1 \/ (i - 1 \in 1 .. n /\ i = (i - 1) + 1)
  BY <1>1
<1>3. \A i \in 1 .. n : i + 1 \in 1 .. n + 1 /\ i + 1 # 1
  BY <1>1
<1>4. 1 \in 1 .. n + 1
  BY <1>1
<1> HIDE DEF r, n
<1>5. \A c : Announces(q, c) <=> Announces(r, c) \/ IsUpload(Head(q), c)
  <2> SUFFICES ASSUME NEW c
               PROVE  Announces(q, c) <=> Announces(r, c) \/ IsUpload(Head(q), c)
    OBVIOUS
  <2>1. ASSUME Announces(q, c) PROVE Announces(r, c) \/ IsUpload(Head(q), c)
    <3> PICK i \in 1 .. n + 1 : IsUpload(q[i], c)
      BY <1>1, <2>1 DEF Announces
    <3>1. ASSUME i - 1 \in 1 .. n, i = (i - 1) + 1 PROVE Announces(r, c)
      <4>1. r[i - 1] = q[i]
        BY <1>1, <3>1
      <4> QED
        BY <3>1, <4>1 DEF Announces, n
    <3> QED
      BY <1>1, <1>2, <3>1
  <2>2. ASSUME Announces(r, c) PROVE Announces(q, c)
    BY <1>1, <1>3, <2>2 DEF Announces, n
  <2>3. ASSUME IsUpload(Head(q), c) PROVE Announces(q, c)
    BY <1>1, <1>4, <2>3 DEF Announces
  <2> QED
    BY <2>1, <2>2, <2>3
<1>6. \A c : Carries(q, c) <=> Carries(r, c) \/ IsBytes(Head(q), c)
  <2> SUFFICES ASSUME NEW c
               PROVE  Carries(q, c) <=> Carries(r, c) \/ IsBytes(Head(q), c)
    OBVIOUS
  <2>1. ASSUME Carries(q, c) PROVE Carries(r, c) \/ IsBytes(Head(q), c)
    <3> PICK i \in 1 .. n + 1 : IsBytes(q[i], c)
      BY <1>1, <2>1 DEF Carries
    <3>1. ASSUME i - 1 \in 1 .. n, i = (i - 1) + 1 PROVE Carries(r, c)
      <4>1. r[i - 1] = q[i]
        BY <1>1, <3>1
      <4> QED
        BY <3>1, <4>1 DEF Carries, n
    <3> QED
      BY <1>1, <1>2, <3>1
  <2>2. ASSUME Carries(r, c) PROVE Carries(q, c)
    BY <1>1, <1>3, <2>2 DEF Carries, n
  <2>3. ASSUME IsBytes(Head(q), c) PROVE Carries(q, c)
    BY <1>1, <1>4, <2>3 DEF Carries
  <2> QED
    BY <2>1, <2>2, <2>3
<1>7. ASSUME Once(q) PROVE Once(r)
  <2> SUFFICES ASSUME NEW c \in Content, NEW i \in 1 .. n, NEW j \in 1 .. n,
                      IsUpload(r[i], c), IsUpload(r[j], c)
               PROVE  i = j
    BY DEF Once, n
  <2>1. i + 1 \in 1 .. n + 1 /\ j + 1 \in 1 .. n + 1
    BY <1>3
  <2>2. i + 1 = j + 1
    BY <1>1, <1>7, <2>1 DEF Once
  <2> QED
    BY <1>1, <2>2
<1>8. ASSUME Once(q), NEW c \in Content, IsUpload(Head(q), c), Announces(r, c) PROVE FALSE
  <2> PICK i \in 1 .. n : IsUpload(r[i], c)
    BY <1>8 DEF Announces, n
  <2>1. IsUpload(q[i + 1], c) /\ i + 1 \in 1 .. n + 1 /\ i + 1 # 1
    BY <1>1, <1>3
  <2> QED
    BY <1>1, <1>4, <1>8, <2>1 DEF Once
<1> QED
  BY <1>5, <1>6, <1>7, <1>8 DEF r

LEMMA EmptyMeans ==
    /\ \A c : ~Announces(<<>>, c) /\ ~Carries(<<>>, c)
    /\ Once(<<>>)
<1>1. 1 .. Len(<<>>) = {}
  BY EmptySeq
<1> QED
  BY <1>1 DEF Announces, Carries, Once

(***************************************************************************)
(* What a step does to the history: t is s after it.                       *)
(***************************************************************************)
Moves(s, t) ==
    /\ Gaps(s) \subseteq Gaps(t)'
    /\ \A d \in Device : /\ recorded[d] \subseteq recorded'[d]
                         /\ Fitting(d, s) \subseteq Fitting(d, t)'
    /\ \A c \in Content : s[c] > 0 => t[c] = s[c]
    /\ \A c \in Content : Needed(c, t)' => Needed(c, s)
    /\ \A c \in Content, d \in Device : disk[d] = c => disk'[d] = c \/ ~Needed(c, t)'
    /\ misjudged => misjudged'

\* The numbers the invariant speaks of.
LEMMA Numbers ==
    ASSUME NEW s, Inv(s)
    PROVE  /\ clock \in Nat /\ \A c \in Content : s[c] \in Nat
           /\ \A d \in Device : latest[d].at \in Nat /\ deleted[d] \in Nat
           /\ \A d \in Device : latest[d] \in Version /\ recorded[d] \subseteq Content
BY DEF Inv, TypeOK, Stamped, Stamping, Version

\* What has a stamp that a device knows is superseded there, or its latest.
LEMMA Superseded ==
    ASSUME NEW s, Inv(s), NEW d \in Device, NEW c \in recorded[d]
    PROVE  /\ Known(d) /\ s[c] > 0
           /\ c # latest[d].content => s[c] < latest[d].at
           /\ c = latest[d].content => s[c] = latest[d].at
<1>1. RowOK(d, s) /\ Stamped(s)
  BY DEF Inv
<1>2. c \in Content /\ latest[d].at \in Nat /\ s[c] \in Nat
  BY Numbers
<1>3. 0 < s[c] /\ s[c] <= latest[d].at
  BY <1>1 DEF RowOK
<1>4. Known(d)
  BY <1>2, <1>3 DEF Known
<1>5. latest[d].content \in Content /\ latest[d].at = s[latest[d].content]
  BY <1>1, <1>4, Numbers DEF RowOK
<1>6. c # latest[d].content => s[c] # latest[d].at
  BY <1>1, <1>2, <1>3, <1>5 DEF Stamped
<1> QED
  BY <1>2, <1>3, <1>4, <1>5, <1>6

LEMMA PastMoves ==
    ASSUME NEW s, Inv(s), TypeOK',
           \A d \in Device : latest'[d].at >= latest[d].at /\ deleted'[d] >= deleted[d],
           NEW c \in Content, Past(c, s)
    PROVE  Past(c, s)'
<1>1. PICK d \in Device : latest[d].at > s[c] \/ deleted[d] > s[c]
  BY DEF Past
<1>2. /\ latest[d].at \in Nat /\ deleted[d] \in Nat /\ s[c] \in Nat
      /\ latest'[d].at \in Nat /\ deleted'[d] \in Nat
  BY Numbers DEF TypeOK, Version
<1>3. latest'[d].at > s[c] \/ deleted'[d] > s[c]
  BY <1>1, <1>2
<1> QED
  BY <1>3 DEF Past

\* No upload is announced but by WriteUpload, and none put off but by Upload.
NoUploads == \A c \in used, d \in Device : Awaited(d, c)' => Awaited(d, c)

\* A step that leaves rows and disks alone.
LEMMA RestMoves ==
    ASSUME NEW s, Inv(s), UNCHANGED <<recorded, latest, deleted, disk>>, clock' \in Nat,
           clock <= clock', used \subseteq used', misjudged => misjudged', NoUploads
    PROVE  /\ Moves(s, s) /\ Stamped(s)'
           /\ \A d \in Device : RowOK(d, s)'
<1>1. /\ clock \in Nat /\ \A c \in Content : s[c] \in Nat
  BY Numbers
<1>2. Stamped(s) /\ \A d \in Device : RowOK(d, s)
  BY DEF Inv
<1>3. Gaps(s) \subseteq Gaps(s)'
  BY <1>1 DEF Gaps
<1>4. Stamped(s)'
  <2>1. \A c \in Content : s[c] <= clock'
    BY <1>1, <1>2 DEF Stamped
  <2> QED
    BY <1>2, <2>1 DEF Stamped
<1>5. \A d \in Device : RowOK(d, s)'
  BY <1>2, <1>3 DEF RowOK, Known
<1>6. \A d \in Device : Fitting(d, s) \subseteq Fitting(d, s)'
  BY DEF Fitting
<1>7. \A c \in Content : Needed(c, s)' => Needed(c, s)
  <2>1. \A c \in Content : Past(c, s)' <=> Past(c, s)
    BY DEF Past
  <2> QED
    BY <2>1 DEF Needed, NoUploads
<1> QED
  BY <1>3, <1>4, <1>5, <1>6, <1>7 DEF Moves

\* The head of an inbox that is an announcement, a version or bytes.
LEMMA HeadGood ==
    ASSUME NEW s, Inv(s), NEW d \in Device, NEW kind, Command(d, kind)
    PROVE  /\ Head(inbox[d]) \in GoodCommand(d, s)
           /\ Head(inbox[d]).kind = kind
           /\ inbox[d] \in Seq(GoodCommand(d, s)) /\ inbox[d] # <<>>
<1>1. inbox[d] \in Seq(GoodCommand(d, s))
  BY DEF Inv, QueuesOK
<1>2. inbox[d] # <<>> /\ Head(inbox[d]).kind = kind
  BY DEF Command
<1> QED
  BY <1>1, <1>2, HeadTailProperties

LEMMA GoodFields ==
    ASSUME NEW s, NEW d \in Device, NEW m \in GoodCommand(d, s)
    PROVE  /\ m.kind = "AnnounceUpload" => m \in Uploads(s)
           /\ m.kind = "Materialize" =>
                  \E o \in Fitting(d, s) : m.content = o.content /\ m.placement = o.placement
           /\ m.kind = "Version" => m \in Versions(s)
           /\ m.kind = "Deletion" => m.at \in Gaps(s) /\ m.from \in Device
BY DEF GoodCommand, Uploads, Versions, Materialize

\* Handling a command announces no upload.
LEMMA HandledMoves ==
    ASSUME NEW s, Inv(s), NEW d \in Device, inbox[d] # <<>>, Handled(d)
    PROVE  /\ NoUploads
           /\ \A e \in Device, c \in Content : Awaited(e, c)' => Awaited(e, c)
           /\ \A c \in Content : IsUpload(Head(inbox[d]), c) => Awaited(d, c) /\ ~Awaited(d, c)'
           /\ \A e \in Device, c \in Content : e # d => (Awaited(e, c)' <=> Awaited(e, c))
<1>1. /\ inbox \in [Device -> Seq(Commands)]
      /\ Once(inbox[d])
      /\ used \subseteq Content
  BY DEF Inv, QueuesOK, TypeOK
<1>2. inbox'[d] = Tail(inbox[d]) /\ \A e \in Device : e # d => inbox'[e] = inbox[e]
  BY <1>1 DEF Handled
<1>3. \A e \in Device, c \in Content : e # d => (Awaited(e, c)' <=> Awaited(e, c))
  BY <1>2 DEF Awaited
<1>4. \A c \in Content : Awaited(d, c)' <=> Announces(Tail(inbox[d]), c)
  BY <1>2 DEF Awaited, Announces, IsUpload
<1>5. \A c \in Content : /\ Awaited(d, c)' => Awaited(d, c)
                         /\ IsUpload(Head(inbox[d]), c) => Awaited(d, c) /\ ~Awaited(d, c)'
  <2>1. inbox[d] \in Seq(Commands)
    BY <1>1
  <2> QED
    BY <1>1, <1>4, <2>1, AwaitedIs, TailMeans
<1> QED
  BY <1>1, <1>3, <1>5 DEF NoUploads

\* The content is announced now.
WithStamp(s, c) == [s EXCEPT ![c] = clock + 1]

LEMMA WriteUploadMoves ==
    ASSUME NEW s, Inv(s), TypeOK', NEW d \in Device, WriteUpload(d),
           NEW c, c = Head(inbox[d]).content, NEW t, t = WithStamp(s, c)
    PROVE  /\ Moves(s, t) /\ Stamped(t)'
           /\ \A e \in Device : RowOK(e, t)'
           /\ c \in Content /\ s[c] = 0 /\ c \in used /\ Awaited(d, c)
           /\ Head(inbox[d]).placement \in Placement
           /\ Head(inbox[d]).placement = "Create" => used = {c}
<1>1. Head(inbox[d]) \in Uploads(s) /\ inbox[d] # <<>>
  BY HeadGood, GoodFields DEF WriteUpload
<1>2. /\ c \in used /\ s[c] = 0 /\ IsUpload(Head(inbox[d]), c)
      /\ Head(inbox[d]).placement \in Placement
      /\ Head(inbox[d]).placement = "Create" => used = {c}
  BY <1>1 DEF Uploads, IsUpload
<1>3. c \in Content /\ used \subseteq Content
  BY <1>2 DEF Inv, TypeOK
<1>4. /\ Handled(d) /\ clock' = clock + 1
      /\ Recorded(d, [content |-> c, at |-> clock + 1])
      /\ UNCHANGED <<deleted, disk, outbox, used, misjudged>>
  BY DEF WriteUpload, bytes
<1>5. /\ Awaited(d, c)
      /\ \A e \in Device, x \in Content : Awaited(e, x)' => Awaited(e, x)
  BY <1>1, <1>2, <1>3, <1>4, HandledMoves
<1>6. /\ clock \in Nat /\ \A x \in Content : s[x] \in Nat
      /\ Stamped(s) /\ \A e \in Device : RowOK(e, s)
      /\ \A e \in Device : recorded[e] \subseteq Content
      /\ recorded \in [Device -> SUBSET Content] /\ latest \in [Device -> Version]
      /\ \A e \in Device : latest[e].at \in Nat /\ deleted[e] \in Nat
  BY Numbers DEF Inv, TypeOK
<1>7. t \in Stamping /\ t[c] = clock + 1 /\ \A x \in Content : x # c => t[x] = s[x]
  BY <1>3, <1>6 DEF Stamping, Stamped, WithStamp
<1> HIDE DEF Stamping
<1>8. \A x \in Content : s[x] > 0 => t[x] = s[x]
  BY <1>2, <1>7
<1>9. Gaps(s) \subseteq Gaps(t)'
  BY <1>4, <1>6, <1>7 DEF Gaps
<1>10. Stamped(t)'
  <2>1. \A x \in Content : t[x] <= clock' /\ (t[x] > 0 => x \in used')
    BY <1>2, <1>4, <1>6, <1>7 DEF Stamped
  <2>2. ASSUME NEW x \in Content, NEW y \in Content, t[x] = t[y], t[y] > 0 PROVE x = y
    BY <1>6, <1>7, <2>2 DEF Stamped
  <2> QED
    BY <1>7, <2>1, <2>2 DEF Stamped
<1>11. /\ recorded'[d] = recorded[d] \cup {c}
       /\ latest'[d] = [content |-> c, at |-> clock + 1]
       /\ \A e \in Device : e # d => recorded'[e] = recorded[e] /\ latest'[e] = latest[e]
  BY <1>4, <1>6 DEF Recorded
<1>12. \A e \in Device : \A x \in recorded[e] :
           s[x] > 0 /\ t[x] = s[x] /\ x # c /\ s[x] <= latest[e].at
  BY <1>2, <1>6, <1>8 DEF RowOK
<1>13. ASSUME NEW e \in Device PROVE RowOK(e, t)'
  <2>1. disk'[e] \in recorded'[e] \cup {None} /\ deleted'[e] \in Gaps(t)' \cup {0}
    BY <1>4, <1>6, <1>9, <1>11 DEF RowOK
  <2>2. CASE e = d
    <3>1. Known(d)' /\ latest'[d].content \in recorded'[d] /\ latest'[d].at = t[latest'[d].content]
      BY <1>6, <1>7, <1>11 DEF Known
    <3>2. \A x \in recorded'[d] : 0 < t[x] /\ t[x] <= latest'[d].at
      <4>1. \A x \in recorded[d] : s[x] <= clock
        BY <1>6 DEF Stamped
      <4> QED
        BY <1>6, <1>7, <1>11, <1>12, <4>1
    <3> QED
      BY <2>1, <2>2, <3>1, <3>2 DEF RowOK
  <2>3. CASE e # d
    <3>1. Known(e)' <=> Known(e)
      BY <1>11, <2>3 DEF Known
    <3>2. Known(e) => latest[e].content \in recorded[e] /\ latest[e].at = s[latest[e].content]
      BY <1>6 DEF RowOK
    <3>3. Known(e) => latest[e].at = t[latest[e].content]
      BY <1>12, <3>2
    <3>4. ~Known(e) => latest[e] = Unknown
      BY <1>6 DEF RowOK
    <3>5. \A x \in recorded'[e] : 0 < t[x] /\ t[x] <= latest'[e].at
      BY <1>11, <1>12, <2>3
    <3> QED
      BY <1>11, <2>1, <2>3, <3>1, <3>2, <3>3, <3>4, <3>5 DEF RowOK
  <2> QED
    BY <2>2, <2>3
<1>14. ASSUME NEW e \in Device PROVE Fitting(e, s) \subseteq Fitting(e, t)'
  <2> SUFFICES ASSUME NEW o \in Fitting(e, s) PROVE o \in Fitting(e, t)'
    OBVIOUS
  <2>1. o \in Order /\ o.content \in recorded[e] /\ t[o.content] = s[o.content]
    BY <1>12 DEF Fitting
  <2>2. disk[e] # None => t[disk[e]] = s[disk[e]]
    BY <1>6, <1>12 DEF RowOK
  <2>3. disk'[e] = disk[e] /\ o.content \in recorded'[e]
    BY <1>4, <1>11, <2>1
  <2> QED
    BY <2>1, <2>2, <2>3 DEF Fitting
<1>15. ASSUME NEW x \in Content, Needed(x, t)' PROVE Needed(x, s)
  <2>1. CASE x = c
    BY <1>2, <1>5, <2>1 DEF Needed
  <2>2. CASE x # c
    <3>1. t[x] = s[x]
      BY <1>7, <2>2
    <3>2. Past(x, s)' <=> Past(x, t)'
      BY <3>1 DEF Past
    <3>3. \A e \in Device : latest'[e].at >= latest[e].at /\ deleted'[e] >= deleted[e]
      <4>1. latest[d].at <= clock
        BY <1>6 DEF RowOK, Stamped, Unknown
      <4> QED
        BY <1>4, <1>6, <1>11, <4>1
    <3>4. Past(x, s) => Past(x, s)'
      BY <3>3, PastMoves
    <3> QED
      BY <1>4, <1>5, <1>15, <3>1, <3>2, <3>4 DEF Needed
  <2> QED
    BY <2>1, <2>2
<1>16. \A e \in Device : recorded[e] \subseteq recorded'[e]
  BY <1>11
<1>17. Moves(s, t)
  BY <1>4, <1>8, <1>9, <1>14, <1>15, <1>16 DEF Moves
<1> QED
  BY <1>2, <1>3, <1>5, <1>10, <1>13, <1>17

LEMMA WriteVersionMoves ==
    ASSUME NEW s, Inv(s), TypeOK', NEW d \in Device, WriteVersion(d),
           NEW m, m = Head(inbox[d])
    PROVE  /\ Moves(s, s) /\ Stamped(s)'
           /\ \A e \in Device : RowOK(e, s)'
           /\ m \in Versions(s)
           /\ ~(m.at > latest[d].at) => UNCHANGED <<recorded, latest>>
           /\ m.at > latest[d].at =>
                  /\ recorded'[d] = recorded[d] \cup {m.content}
                  /\ latest'[d] = [content |-> m.content, at |-> m.at]
                  /\ m.content \notin recorded[d] /\ m.content # latest[d].content
           /\ \A e \in Device : e # d => recorded'[e] = recorded[e] /\ latest'[e] = latest[e]
<1>1. m \in Versions(s) /\ inbox[d] # <<>>
  BY HeadGood, GoodFields DEF WriteVersion
<1>2. m.content \in Content /\ m.at \in Nat /\ m.at > 0 /\ m.at = s[m.content]
  BY <1>1 DEF Versions
<1>3. /\ Handled(d) /\ UNCHANGED <<deleted, disk, outbox, counts, misjudged>>
  BY DEF WriteVersion, bytes
<1>4. NoUploads
  BY <1>1, <1>3, HandledMoves
<1>5. /\ clock \in Nat /\ \A x \in Content : s[x] \in Nat
      /\ Stamped(s) /\ \A e \in Device : RowOK(e, s)
      /\ recorded \in [Device -> SUBSET Content] /\ latest \in [Device -> Version]
      /\ \A e \in Device : latest[e].at \in Nat /\ deleted[e] \in Nat
  BY Numbers DEF Inv, TypeOK
<1>6. CASE ~(m.at > latest[d].at)
  <2>1. UNCHANGED <<recorded, latest>>
    BY <1>6 DEF WriteVersion
  <2>2. /\ Moves(s, s) /\ Stamped(s)'
        /\ \A e \in Device : RowOK(e, s)'
    BY <1>3, <1>4, <1>5, <2>1, RestMoves DEF counts
  <2> QED
    BY <1>1, <1>6, <2>1, <2>2
<1>7. CASE m.at > latest[d].at
  <2>1. Recorded(d, [content |-> m.content, at |-> m.at])
    BY <1>7 DEF WriteVersion
  <2>2. /\ recorded'[d] = recorded[d] \cup {m.content}
        /\ latest'[d] = [content |-> m.content, at |-> m.at]
        /\ \A e \in Device : e # d => recorded'[e] = recorded[e] /\ latest'[e] = latest[e]
    BY <1>5, <2>1 DEF Recorded
  <2>3. m.content \notin recorded[d]
    BY <1>2, <1>5, <1>7 DEF RowOK
  <2>4. m.content # latest[d].content
    BY <1>2, <1>5, <1>7, <2>3, TransfersAssumption DEF RowOK, Unknown
  <2>5. Gaps(s) = Gaps(s)'
    BY <1>3 DEF Gaps, counts
  <2>6. Stamped(s)'
    BY <1>3, <1>5 DEF Stamped, counts
  <2>7. ASSUME NEW e \in Device PROVE RowOK(e, s)'
    <3>1. disk'[e] \in recorded'[e] \cup {None} /\ deleted'[e] \in Gaps(s)' \cup {0}
      BY <1>3, <1>5, <2>2, <2>5 DEF RowOK
    <3>2. CASE e = d
      <4>1. Known(d)' /\ latest'[d].content \in recorded'[d]
            /\ latest'[d].at = s[latest'[d].content]
        BY <1>2, <2>2 DEF Known
      <4>2. \A x \in recorded'[d] : 0 < s[x] /\ s[x] <= latest'[d].at
        BY <1>2, <1>5, <1>7, <2>2 DEF RowOK
      <4> QED
        BY <3>1, <3>2, <4>1, <4>2 DEF RowOK
    <3>3. CASE e # d
      BY <1>5, <2>2, <3>1, <3>3 DEF RowOK, Known
    <3> QED
      BY <3>2, <3>3
  <2>8. \A e \in Device : recorded[e] \subseteq recorded'[e]
    BY <2>2
  <2>9. \A e \in Device : Fitting(e, s) \subseteq Fitting(e, s)'
    BY <1>3, <2>8 DEF Fitting
  <2>10. ASSUME NEW x \in Content, Needed(x, s)' PROVE Needed(x, s)
    <3>1. \A e \in Device : latest'[e].at >= latest[e].at /\ deleted'[e] >= deleted[e]
      BY <1>2, <1>3, <1>5, <1>7, <2>2
    <3>2. Past(x, s) => Past(x, s)'
      BY <3>1, PastMoves
    <3> QED
      BY <1>3, <1>4, <2>10, <3>2 DEF Needed, NoUploads, counts
  <2>11. Moves(s, s)
    BY <1>3, <2>5, <2>8, <2>9, <2>10 DEF Moves
  <2> QED
    BY <1>1, <1>7, <2>2, <2>3, <2>4, <2>6, <2>7, <2>11
<1> QED
  BY <1>6, <1>7

LEMMA WriteDeletionMoves ==
    ASSUME NEW s, Inv(s), TypeOK', NEW d \in Device, WriteDeletion(d),
           NEW m, m = Head(inbox[d])
    PROVE  /\ Moves(s, s) /\ Stamped(s)'
           /\ \A e \in Device : RowOK(e, s)'
           /\ m.at \in Gaps(s) /\ m.from \in Device
           /\ Live(d)' => Live(d) /\ disk'[d] = disk[d]
           /\ \A e \in Device : e # d => deleted'[e] = deleted[e] /\ disk'[e] = disk[e]
<1>1. m.at \in Gaps(s) /\ m.from \in Device /\ inbox[d] # <<>>
  BY HeadGood, GoodFields DEF WriteDeletion
<1>2. m.at \in Nat /\ m.at > 0
  BY <1>1, Numbers DEF Gaps
<1>3. Handled(d) /\ UNCHANGED <<recorded, latest, outbox, counts, misjudged>>
  BY DEF WriteDeletion
<1>4. NoUploads
  BY <1>1, <1>3, HandledMoves
<1>5. /\ clock \in Nat /\ \A x \in Content : s[x] \in Nat
      /\ Stamped(s) /\ \A e \in Device : RowOK(e, s)
      /\ deleted \in [Device -> Nat] /\ disk \in [Device -> Content \cup {None}]
      /\ \A e \in Device : latest[e].at \in Nat /\ deleted[e] \in Nat
  BY Numbers DEF Inv, TypeOK
<1>6. CASE ~(Live(d) /\ m.at > latest[d].at)
  <2>1. UNCHANGED <<deleted, disk>>
    BY <1>6 DEF WriteDeletion
  <2>2. /\ Moves(s, s) /\ Stamped(s)'
        /\ \A e \in Device : RowOK(e, s)'
    BY <1>3, <1>4, <1>5, <2>1, RestMoves DEF counts
  <2>3. Live(d)' <=> Live(d)
    BY <1>3, <2>1 DEF Live, Known, Deleted
  <2> QED
    BY <1>1, <2>1, <2>2, <2>3
<1>7. CASE Live(d) /\ m.at > latest[d].at
  <2>1. deleted' = [deleted EXCEPT ![d] = m.at] /\ disk' = [disk EXCEPT ![d] = None]
    BY <1>7 DEF WriteDeletion
  <2>2. /\ deleted'[d] = m.at /\ disk'[d] = None
        /\ \A e \in Device : e # d => deleted'[e] = deleted[e] /\ disk'[e] = disk[e]
    BY <1>5, <2>1
  <2>3. ~(deleted[d] > latest[d].at)
    BY <1>7 DEF Live, Deleted
  <2>4. \A e \in Device : latest'[e].at >= latest[e].at /\ deleted'[e] >= deleted[e]
    BY <1>2, <1>3, <1>5, <1>7, <2>2, <2>3
  <2>5. ~Live(d)'
    BY <1>3, <1>7, <2>2 DEF Live, Deleted, Known
  <2>6. Gaps(s) = Gaps(s)' /\ Stamped(s)'
    BY <1>3, <1>5 DEF Gaps, Stamped, counts
  <2>7. \A e \in Device : RowOK(e, s)'
    BY <1>1, <1>3, <1>5, <2>2, <2>6 DEF RowOK, Known
  <2>8. \A e \in Device : Fitting(e, s) \subseteq Fitting(e, s)'
    BY <1>3, <2>2 DEF Fitting
  <2>9. \A x \in Content : Past(x, s) => Past(x, s)'
    BY <2>4, PastMoves
  <2>10. \A x \in Content : Needed(x, s)' => Needed(x, s)
    BY <1>3, <1>4, <2>9 DEF Needed, NoUploads, counts
  <2>11. ASSUME NEW x \in Content, NEW e \in Device, disk[e] = x
         PROVE  disk'[e] = x \/ ~Needed(x, s)'
    <3>1. CASE e # d
      BY <2>2, <2>11, <3>1
    <3>2. CASE e = d
      <4>1. x \in recorded[d]
        BY <1>5, <2>11, <3>2, TransfersAssumption DEF RowOK
      <4>2. s[x] > 0 /\ s[x] <= latest[d].at
        BY <1>5, <4>1 DEF RowOK
      <4>3. deleted'[d] > s[x]
        BY <1>2, <1>5, <1>7, <2>2, <4>2
      <4>4. Past(x, s)'
        BY <4>3 DEF Past
      <4> QED
        BY <4>2, <4>4 DEF Needed
    <3> QED
      BY <3>1, <3>2
  <2>12. Moves(s, s)
    BY <1>3, <2>6, <2>8, <2>10, <2>11 DEF Moves
  <2> QED
    BY <1>1, <2>2, <2>5, <2>6, <2>7, <2>12
<1> QED
  BY <1>6, <1>7

LEMMA WriteBytesMoves ==
    ASSUME NEW s, Inv(s), TypeOK', NEW d \in Device, WriteBytes(d)
    PROVE  /\ Moves(s, s) /\ Stamped(s)'
           /\ \A e \in Device : RowOK(e, s)'
           /\ \A e \in Device : e # d => disk'[e] = disk[e]
           /\ disk'[d] \in {disk[d], latest[d].content}
           /\ \/ disk'[d] = latest[d].content
              \/ d \notin Holder \/ ~Live(d)
              \/ ~IsBytes(Head(inbox[d]), latest[d].content)
<1> DEFINE m == Head(inbox[d])
           c == latest[d].content
           placed == /\ d \in Holder /\ Live(d) /\ m.content = c
                     /\ m.placement = "Change" \/ disk[d] = None
<1>1. inbox[d] # <<>> /\ m \in GoodCommand(d, s) /\ m.kind = "Materialize"
  BY HeadGood DEF WriteBytes
<1>2. PICK o \in Fitting(d, s) : m.content = o.content /\ m.placement = o.placement
  BY <1>1, GoodFields
<1>3. o \in Order /\ o.content \in recorded[d] /\ o.content \in Content
      /\ (m.placement = "Change" \/ m.placement = "Create")
  BY <1>2 DEF Fitting, Order, Placement
<1>4. Handled(d) /\ UNCHANGED <<catalog, outbox, counts, misjudged>>
  BY DEF WriteBytes
<1>5. NoUploads
  BY <1>1, <1>4, HandledMoves
<1>6. /\ clock \in Nat /\ \A x \in Content : s[x] \in Nat
      /\ Stamped(s) /\ \A e \in Device : RowOK(e, s)
      /\ disk \in [Device -> Content \cup {None}]
      /\ \A e \in Device : latest[e].at \in Nat /\ deleted[e] \in Nat
      /\ \A e \in Device : recorded[e] \subseteq Content
  BY Numbers DEF Inv, TypeOK
<1>7. CASE ~placed
  <2>1. disk' = disk
    BY <1>7 DEF WriteBytes
  <2>2. /\ Moves(s, s) /\ Stamped(s)'
        /\ \A e \in Device : RowOK(e, s)'
    BY <1>4, <1>5, <1>6, <2>1, RestMoves DEF counts, catalog
  <2>3. ASSUME d \in Holder, Live(d), m.content = c PROVE disk[d] = c
    <3>1. m.placement = "Create" /\ disk[d] # None
      BY <1>3, <1>7, <2>3
    <3>2. s[disk[d]] >= s[c] /\ disk[d] \in recorded[d] /\ c \in recorded[d]
      BY <1>2, <1>3, <1>6, <2>3, <3>1 DEF Fitting, RowOK
    <3>3. s[c] = latest[d].at
      BY <3>2, Superseded
    <3>4. s[disk[d]] >= latest[d].at /\ s[disk[d]] \in Nat
      BY <1>6, <3>2, <3>3
    <3> QED
      BY <1>6, <3>2, <3>4, Superseded
  <2> QED
    BY <2>1, <2>2, <2>3 DEF IsBytes
<1>8. CASE placed
  <2>1. disk' = [disk EXCEPT ![d] = c] /\ c \in recorded[d] /\ c \in Content
    BY <1>2, <1>3, <1>8 DEF WriteBytes
  <2>2. disk'[d] = c /\ \A e \in Device : e # d => disk'[e] = disk[e]
    BY <1>6, <2>1
  <2>3. Gaps(s) = Gaps(s)' /\ Stamped(s)'
    BY <1>4, <1>6 DEF Gaps, Stamped, counts
  <2>4. \A e \in Device : RowOK(e, s)'
    BY <1>4, <1>6, <2>1, <2>2, <2>3 DEF RowOK, Known, catalog
  <2>5. s[c] = latest[d].at
    BY <2>1, Superseded
  <2>6. ASSUME NEW e \in Device PROVE Fitting(e, s) \subseteq Fitting(e, s)'
    <3>1. CASE e # d
      BY <1>4, <2>2, <3>1 DEF Fitting, catalog
    <3>2. CASE e = d
      <4>1. \A x \in recorded[d] : s[c] >= s[x]
        BY <1>6, <2>5 DEF RowOK
      <4> QED
        BY <1>4, <2>2, <3>2, <4>1 DEF Fitting, catalog
    <3> QED
      BY <3>1, <3>2
  <2>7. \A x \in Content : Past(x, s)' <=> Past(x, s)
    BY <1>4 DEF Past, catalog
  <2>8. \A x \in Content : Needed(x, s)' => Needed(x, s)
    BY <1>4, <1>5, <2>7 DEF Needed, NoUploads, counts
  <2>9. ASSUME NEW x \in Content, NEW e \in Device, disk[e] = x
        PROVE  disk'[e] = x \/ ~Needed(x, s)'
    <3>1. CASE e # d
      BY <2>2, <2>9, <3>1
    <3>2. CASE e = d /\ x # c
      <4>1. x \in recorded[d]
        BY <1>6, <2>9, <3>2, TransfersAssumption DEF RowOK
      <4>2. s[x] > 0 /\ s[x] < latest[d].at
        BY <3>2, <4>1, Superseded
      <4>3. Past(x, s)
        BY <4>2 DEF Past
      <4> QED
        BY <2>7, <4>2, <4>3 DEF Needed
    <3> QED
      BY <2>2, <3>1, <3>2
  <2>10. Moves(s, s)
    BY <1>4, <2>3, <2>6, <2>8, <2>9 DEF Moves, catalog
  <2> QED
    BY <2>2, <2>3, <2>4, <2>10
<1> QED
  BY <1>7, <1>8

(***************************************************************************)
(* What is under way stays good.                                           *)
(***************************************************************************)
LEMMA CommandStays ==
    ASSUME NEW s, NEW t, Inv(s), Moves(s, t), NEW d \in Device, NEW m \in GoodCommand(d, s),
           m.kind = "AnnounceUpload" => m \in Uploads(t)'
    PROVE  m \in GoodCommand(d, t)'
<1>1. \A c \in Content : s[c] \in Nat
  BY Numbers
<1>2. m.kind = "AnnounceUpload" => m \in GoodCommand(d, t)'
  BY DEF GoodCommand
<1>3. \A o \in Fitting(d, s) : Materialize(o) \in GoodCommand(d, t)'
  BY DEF GoodCommand, Moves
<1>4. m \in Versions(s) => m \in GoodCommand(d, t)'
  BY <1>1 DEF GoodCommand, Moves, Versions
<1>5. m \in [kind : {"Deletion"}, at : Gaps(s), from : Device] => m \in GoodCommand(d, t)'
  BY DEF GoodCommand, Moves
<1>6. m \in [kind : {"Sweep"}] => m \in GoodCommand(d, t)'
  BY DEF GoodCommand
<1>7. m \in Uploads(s) => m.kind = "AnnounceUpload"
  BY DEF Uploads
<1> QED
  BY <1>2, <1>3, <1>4, <1>5, <1>6, <1>7 DEF GoodCommand

LEMMA FramesStay ==
    ASSUME NEW s, NEW t, Inv(s), Moves(s, t)
    PROVE  /\ GoodFrame(s) \subseteq GoodFrame(t)'
           /\ \A l \in Ends : wire[l] \in Seq(GoodFrame(s)) /\ wire[l] \in Seq(GoodFrame(t)')
<1>1. \A c \in Content : s[c] \in Nat
  BY Numbers
<1>2. GoodFrame(s) \subseteq GoodFrame(t)'
  BY <1>1 DEF GoodFrame, Moves
<1>3. \A l \in Ends : wire[l] \in Seq(GoodFrame(s))
  BY DEF Inv, QueuesOK
<1> QED
  BY <1>2, <1>3, SeqMonotonic

LEMMA ForwardedGood ==
    ASSUME NEW s, NEW t, Inv(s), Moves(s, t), NEW d \in Device, NEW f \in GoodFrame(t)', NEW o
    PROVE  Forwarded(d, f, o) \in [Ends -> Seq(GoodFrame(t)')]
<1>1. \A l \in Ends : /\ wire[l] \in Seq(GoodFrame(t)')
                      /\ Append(wire[l], f) \in Seq(GoodFrame(t)')
  BY FramesStay, AppendProperties
<1> QED
  BY <1>1 DEF Forwarded

\* What may happen to an inbox in a step, other than that the user announces an upload.
InboxStep(d, s) ==
    \/ inbox'[d] = inbox[d]
    \/ \E m \in GoodCommand(d, s)' : /\ m.kind # "AnnounceUpload"
                                     /\ inbox'[d] = Append(inbox[d], m)
    \/ inbox[d] # <<>> /\ inbox'[d] = Tail(inbox[d])
    \/ inbox'[d] = <<>>

LEMMA NotBytes ==
    ASSUME NEW S, NEW q \in Seq(S), NEW m \in S, NEW c, Carries(q, c)
    PROVE  Carries(Append(q, m), c)
BY AppendMeans

\* The same, as far as it is known without the invariant.
LEMMA InboxAwaits ==
    ASSUME TypeOK, NEW d \in Device,
           \/ inbox'[d] = inbox[d]
           \/ \E m \in Commands : m.kind # "AnnounceUpload" /\ inbox'[d] = Append(inbox[d], m)
           \/ inbox[d] # <<>> /\ inbox'[d] = Tail(inbox[d])
           \/ inbox'[d] = <<>>
    PROVE  /\ \A c \in Content : Awaited(d, c)' => Awaited(d, c)
           /\ Once(inbox[d]) => Once(inbox'[d])
<1>1. inbox[d] \in Seq(Commands)
  BY DEF TypeOK
<1>2. /\ \A c \in Content : Awaited(d, c)' <=> Announces(inbox'[d], c)
      /\ \A c \in Content : Awaited(d, c) <=> Announces(inbox[d], c)
  BY DEF Awaited, Announces, IsUpload
<1>3. CASE inbox'[d] = inbox[d]
  BY <1>2, <1>3
<1>4. ASSUME NEW m \in Commands, m.kind # "AnnounceUpload", inbox'[d] = Append(inbox[d], m)
      PROVE  /\ \A c \in Content : Awaited(d, c)' => Awaited(d, c)
             /\ Once(inbox[d]) => Once(inbox'[d])
  <2>1. \A c : ~IsUpload(m, c)
    BY <1>4 DEF IsUpload
  <2>2. /\ \A c : Announces(inbox'[d], c) <=> Announces(inbox[d], c) \/ IsUpload(m, c)
        /\ Once(inbox[d]) => Once(inbox'[d])
    BY <1>1, <1>4, <2>1, AppendMeans
  <2> QED
    BY <1>2, <2>1, <2>2
<1>5. CASE inbox[d] # <<>> /\ inbox'[d] = Tail(inbox[d])
  <2>1. /\ \A c : Announces(inbox[d], c) <=> Announces(inbox'[d], c) \/ IsUpload(Head(inbox[d]), c)
        /\ Once(inbox[d]) => Once(inbox'[d])
    BY <1>1, <1>5, TailMeans
  <2> QED
    BY <1>2, <2>1
<1>6. CASE inbox'[d] = <<>>
  BY <1>2, <1>6, EmptyMeans
<1> QED
  BY <1>3, <1>4, <1>5, <1>6

LEMMA GoodIsCommand ==
    ASSUME NEW s, Inv(s), NEW d \in Device
    PROVE  GoodCommand(d, s) \subseteq Commands
<1>1. used \subseteq Content /\ clock \in Nat
  BY DEF Inv, TypeOK
<1>2. Gaps(s) \subseteq Nat
  BY <1>1 DEF Gaps
<1>3. \A o \in Fitting(d, s) : Materialize(o) \in Commands
  BY CommandTypes DEF Fitting
<1> QED
  BY <1>1, <1>2, <1>3 DEF GoodCommand, Uploads, Versions, Commands

LEMMA InboxStays ==
    ASSUME NEW s, Inv(s), Moves(s, s), used' = used, NEW d \in Device, InboxStep(d, s)
    PROVE  inbox'[d] \in Seq(GoodCommand(d, s)')
<1>1. GoodCommand(d, s) \subseteq GoodCommand(d, s)'
  <2> SUFFICES ASSUME NEW m \in GoodCommand(d, s) PROVE m \in GoodCommand(d, s)'
    OBVIOUS
  <2>1. m.kind = "AnnounceUpload" => m \in Uploads(s)
    BY GoodFields
  <2>2. Uploads(s) = Uploads(s)'
    BY DEF Uploads
  <2> QED
    BY <2>1, <2>2, CommandStays
<1>2. inbox[d] \in Seq(GoodCommand(d, s))
  BY DEF Inv, QueuesOK
<1>3. inbox[d] \in Seq(GoodCommand(d, s)')
  BY <1>1, <1>2, SeqMonotonic
<1> HIDE DEF GoodCommand
<1>4. \A m \in GoodCommand(d, s)' : Append(inbox[d], m) \in Seq(GoodCommand(d, s)')
  BY <1>3, AppendProperties
<1>5. inbox[d] # <<>> => Tail(inbox[d]) \in Seq(GoodCommand(d, s)')
  BY <1>3, HeadTailProperties
<1>6. <<>> \in Seq(GoodCommand(d, s)')
  BY EmptySeq
<1> QED
  BY <1>3, <1>4, <1>5, <1>6 DEF InboxStep

LEMMA PullStays ==
    ASSUME NEW s, NEW t, Inv(s), Moves(s, t), NEW d \in Device, NEW c \in Content,
           \/ pull'[d][c] = Idle
           \/ /\ pull[d][c] # Idle
              /\ pull'[d][c].from = pull[d][c].from
              /\ pull'[d][c].placement = pull[d][c].placement
           \/ \E e \in Device, p \in Placement :
                  /\ pull'[d][c] = Queued(e, p)
                  /\ e # d => <<d, e>> \in Ends
                  /\ [content |-> c, placement |-> p] \in Fitting(d, t)'
    PROVE  PullOK(d, c, t)'
<1>1. PullOK(d, c, s)
  BY DEF Inv, OrdersOK
<1>2. CASE pull'[d][c] = Idle
  BY <1>2 DEF PullOK
<1>3. CASE /\ pull[d][c] # Idle
           /\ pull'[d][c].from = pull[d][c].from
           /\ pull'[d][c].placement = pull[d][c].placement
  <2>1. OrderOf(d, c)' = OrderOf(d, c)
    BY <1>3 DEF OrderOf
  <2> QED
    BY <1>1, <1>3, <2>1 DEF PullOK, Moves
<1>4. ASSUME NEW e \in Device, NEW p \in Placement,
             pull'[d][c] = Queued(e, p),
             e # d => <<d, e>> \in Ends,
             [content |-> c, placement |-> p] \in Fitting(d, t)'
      PROVE  PullOK(d, c, t)'
  <2>1. OrderOf(d, c)' = [content |-> c, placement |-> p] /\ pull'[d][c].from = e
    BY <1>4 DEF OrderOf, Queued
  <2> QED
    BY <1>4, <2>1 DEF PullOK
<1> QED
  BY <1>2, <1>3, <1>4

\* Pulls that go on or end, and orders that nobody adds to.
LEMMA OrdersStay ==
    ASSUME NEW s, NEW t, Inv(s), Moves(s, t),
           \A d \in Device, c \in Content : PullOK(d, c, t)',
           \A l \in Ends : /\ asked'[l] \subseteq asked[l] \cup Fitting(l[1], t)'
                           /\ done'[l] \subseteq done[l] \cup Fitting(l[1], t)'
    PROVE  OrdersOK(t)'
<1>1. \A l \in Ends : Fitting(l[1], s) \subseteq Fitting(l[1], t)'
  BY TwoEnds DEF Moves
<1>2. \A l \in Ends : asked[l] \cup done[l] \subseteq Fitting(l[1], s)
  BY DEF Inv, OrdersOK
<1> QED
  BY <1>1, <1>2 DEF OrdersOK

LEMMA SamePulls ==
    ASSUME NEW s, NEW t, Inv(s), Moves(s, t), UNCHANGED <<pull, asked, done>>
    PROVE  OrdersOK(t)'
<1>1. \A d \in Device, c \in Content : PullOK(d, c, t)'
  BY PullStays
<1> QED
  BY <1>1, OrdersStay

LEMMA SubmittedMeans ==
    ASSUME TypeOK, NEW d \in Device, NEW c \in Content, NEW e, NEW p,
           pull' = Submitted(d, c, e, p)
    PROVE  /\ \A x \in Device, y \in Content : x # d \/ y # c => pull'[x][y] = pull[x][y]
           /\ pull[d][c] = Idle => pull'[d][c] = Queued(e, p)
           /\ pull[d][c] # Idle => pull'[d][c] = pull[d][c]
BY DEF Submitted, TypeOK

LEMMA OwnedStays ==
    ASSUME NEW s, NEW t, Inv(s), Moves(s, t), outbox' = outbox, used \subseteq used',
           \A d \in Device, c \in Content : Awaited(d, c)' => Awaited(d, c),
           \A d \in Device, c \in Content :
               c \in outbox[d] /\ t[c] > 0 /\ ~(s[c] > 0) => c \in recorded'[d]
    PROVE  OwnedOK(t)'
<1>1. OwnedOK(s)
  BY DEF Inv
<1>2. \A d \in Device, c \in Content : Has(d, c)' => Has(d, c)
  BY DEF Has
<1>3. \A c \in Content, d \in Device :
          /\ Has(d, c)' => c \in used'
          /\ Awaited(d, c)' /\ ~misjudged' => c \in outbox'[d]
          /\ c \in outbox'[d] /\ t[c] > 0 => c \in recorded'[d]
  BY <1>1, <1>2 DEF OwnedOK, Moves
<1>4. \A c \in Content, d, e \in Device : Has(d, c)' /\ Has(e, c)' => d = e
  BY <1>1, <1>2 DEF OwnedOK
<1> QED
  BY <1>3, <1>4 DEF OwnedOK

LEMMA PassStays ==
    ASSUME NEW s, NEW t, Inv(s), Moves(s, t), NEW d \in Device,
           (outbox[d] \subseteq outbox'[d] /\ pass'[d] = pass[d]) \/ pass'[d] = NoPass
    PROVE  PassOK(d, t)'
<1>1. PassOK(d, s) /\ outbox[d] \subseteq Content
  BY DEF Inv, KeptOK, TypeOK
<1>2. CASE pass'[d] = NoPass
  BY <1>2 DEF PassOK, NoPass
<1>3. CASE outbox[d] \subseteq outbox'[d] /\ pass'[d] = pass[d]
  <2>1. pass[d].stage # "idle" => pass[d].entry \in outbox'[d]
    BY <1>1, <1>3 DEF PassOK
  <2>2. ASSUME NEW x \in Content, pass[d].stage = "remove", pass[d].entry = x
        PROVE  misjudged' \/ ~Needed(x, t)' \/ \E e \in Device : disk'[e] = x
    <3>1. misjudged \/ ~Needed(x, s) \/ \E e \in Device : disk[e] = x
      BY <1>1, <2>2 DEF PassOK
    <3>2. /\ misjudged => misjudged'
          /\ ~Needed(x, s) => ~Needed(x, t)'
          /\ \A e \in Device : disk[e] = x => disk'[e] = x \/ ~Needed(x, t)'
      BY DEF Moves
    <3> QED
      BY <3>1, <3>2
  <2>3. pass[d].stage = "remove" => pass[d].entry \in Content
    BY <1>1 DEF PassOK
  <2>4. ASSUME pass'[d].stage = "remove"
        PROVE  \/ misjudged'
               \/ ~Needed(pass[d].entry, t)'
               \/ \E e \in Device : disk'[e] = pass'[d].entry
    <3>1. PICK x \in Content : x = pass[d].entry /\ x = pass'[d].entry
      BY <1>3, <2>3, <2>4
    <3> QED
      BY <1>3, <2>2, <2>4, <3>1 DEF Needed, Past
  <2> QED
    BY <1>3, <2>1, <2>4 DEF PassOK
<1> QED
  BY <1>2, <1>3

LEMMA SurvivorStays ==
    ASSUME NEW s, NEW t, Inv(s), Moves(s, t), NEW c \in Content, s[c] > 0, ~misjudged',
           \A d \in Device : c \in outbox[d] => c \in outbox'[d] \/ ~Needed(c, t)'
                                                \/ \E e \in Device : disk'[e] = c
    PROVE  Past(c, t)' \/ \E e \in Device : Answers(e, c)'
<1>1. KeptOK(s) /\ ~misjudged
  BY DEF Inv, Moves
<1>2. t[c] > 0
  BY DEF Moves
<1>3. CASE Past(c, s)
  <2>1. ~Needed(c, s)
    BY <1>3 DEF Needed
  <2> QED
    BY <1>2, <2>1 DEF Moves, Needed
<1>4. ASSUME NEW e \in Device, Answers(e, c)
      PROVE  Past(c, t)' \/ \E x \in Device : Answers(x, c)'
  <2>1. CASE disk[e] = c
    BY <1>2, <2>1 DEF Moves, Needed, Answers
  <2>2. CASE c \in outbox[e]
    BY <1>2, <2>2 DEF Needed, Answers
  <2> QED
    BY <1>4, <2>1, <2>2 DEF Answers
<1> QED
  BY <1>1, <1>3, <1>4 DEF KeptOK

LEMMA KeptStays ==
    ASSUME NEW s, NEW t, Inv(s), Moves(s, t), outbox' = outbox,
           \A d \in Device : pass'[d] = pass[d] \/ pass'[d] = NoPass,
           \A c \in Content : t[c] > 0 /\ ~(s[c] > 0) /\ ~misjudged' =>
                                  \E e \in Device : c \in outbox[e]
    PROVE  KeptOK(t)'
<1>1. \A d \in Device : PassOK(d, t)'
  BY PassStays
<1>2. ASSUME NEW c \in Content, t[c] > 0, ~misjudged'
      PROVE  Past(c, t)' \/ \E e \in Device : Answers(e, c)'
  <2>1. CASE s[c] > 0
    BY <1>2, <2>1, SurvivorStays
  <2>2. CASE ~(s[c] > 0)
    BY <1>2, <2>2 DEF Answers
  <2> QED
    BY <2>1, <2>2
<1> QED
  BY <1>1, <1>2 DEF KeptOK

LEMMA BroughtStays ==
    ASSUME NEW d \in Device, NEW c,
           \A l \in Ends : l[1] = d => done[l] \subseteq done'[l],
           Carries(inbox[d], c) => Carries(inbox'[d], c)
    PROVE  Brought(d, c) => Brought(d, c)'
BY DEF Brought

LEMMA LiveServedStays ==
    ASSUME NEW d \in Device, Served(d), latest'[d] = latest[d],
           Live(d)' => Live(d) /\ disk'[d] = disk[d],
           lost[d] => lost'[d],
           Brought(d, latest[d].content) => Brought(d, latest[d].content)' \/ lost'[d],
           Live(d) /\ ToPull(d, latest[d].content)
               => \/ ToPull(d, latest[d].content)'
                  \/ Brought(d, latest[d].content)' \/ lost'[d]
    PROVE  Served(d)'
BY DEF Served

LEMMA ServedStays ==
    ASSUME NEW d \in Device, Served(d), UNCHANGED <<latest, deleted, disk>>,
           lost[d] => lost'[d],
           Brought(d, latest[d].content) => Brought(d, latest[d].content)' \/ lost'[d],
           Live(d) /\ ToPull(d, latest[d].content)
               => \/ ToPull(d, latest[d].content)'
                  \/ Brought(d, latest[d].content)' \/ lost'[d]
    PROVE  Served(d)'
<1>1. Live(d)' <=> Live(d)
  BY DEF Live, Known, Deleted
<1> QED
  BY <1>1, LiveServedStays

LEMMA ToPullStays ==
    ASSUME NEW d \in Device, NEW c, UNCHANGED asked,
           pull'[d][c] = pull[d][c]
    PROVE  ToPull(d, c) => ToPull(d, c)'
BY DEF ToPull

\* A step that keeps uploads and passes.
LEMMA CommonStep ==
    ASSUME NEW s, Inv(s), TypeOK', Moves(s, s), Stamped(s)',
           \A d \in Device : RowOK(d, s)',
           used' = used, outbox' = outbox,
           \A d \in Device : pass'[d] = pass[d] \/ pass'[d] = NoPass,
           \A d \in Device : InboxStep(d, s),
           \A d \in Device, c \in Content : Awaited(d, c)' => Awaited(d, c),
           \A d \in Device : Once(inbox[d]) => Once(inbox'[d]),
           wire' \in [Ends -> Seq(GoodFrame(s)')],
           OrdersOK(s)',
           \A d \in Holder : Served(d)'
    PROVE  Inv(s)'
<1>1. \A d \in Device : inbox'[d] \in Seq(GoodCommand(d, s)')
  BY InboxStays
<1>2. \A d \in Device : Once(inbox[d])
  BY DEF Inv, QueuesOK
<1>3. QueuesOK(s)'
  BY <1>1, <1>2 DEF QueuesOK
<1>4. OwnedOK(s)'
  BY OwnedStays
<1>5. KeptOK(s)'
  BY KeptStays
<1> QED
  BY <1>3, <1>4, <1>5 DEF Inv

(***************************************************************************)
(* Every action keeps the invariant.                                       *)
(***************************************************************************)
LEMMA UploadKeeps ==
    ASSUME NEW s, Inv(s), TypeOK', Reuse = FALSE, NEW d \in Device, NEW c \in Content,
           Upload(d, c)
    PROVE  Inv(s)'
<1> DEFINE p == IF Known(d) THEN "Change" ELSE "Create"
           m == [kind |-> "AnnounceUpload", content |-> c, placement |-> p]
<1>1. /\ c \notin used /\ (Known(d) \/ used = {})
      /\ outbox' = [outbox EXCEPT ![d] = @ \cup {c}]
      /\ inbox' = Enqueued(d, m)
      /\ used' = used \cup {c}
      /\ UNCHANGED <<catalog, disk, pull, pass, session, wire, clock, misjudged, lost>>
  BY DEF Upload
<1>2. /\ TypeOK /\ Stamped(s) /\ QueuesOK(s) /\ OwnedOK(s)
      /\ \A e \in Device : RowOK(e, s)
      /\ used \subseteq Content /\ outbox \in [Device -> SUBSET Content]
      /\ clock \in Nat /\ \A x \in Content : s[x] \in Nat
  BY Numbers DEF Inv, TypeOK
<1>3. ~(s[c] > 0) /\ s[c] = 0
  BY <1>1, <1>2 DEF Stamped
<1>4. p \in Placement /\ m \in Commands /\ m.kind = "AnnounceUpload" /\ m.content = c
  BY CommandTypes DEF Placement
<1> HIDE DEF p
<1>5. /\ inbox'[d] = Append(inbox[d], m)
      /\ \A e \in Device : e # d => inbox'[e] = inbox[e]
      /\ inbox[d] \in Seq(Commands)
  BY <1>1, <1>2, <1>4, EnqueuedCommand DEF TypeOK
<1>6. /\ \A x : Announces(inbox'[d], x) <=> Announces(inbox[d], x) \/ IsUpload(m, x)
      /\ \A x : Carries(inbox'[d], x) <=> Carries(inbox[d], x) \/ IsBytes(m, x)
      /\ (\A x \in Content : IsUpload(m, x) => ~Announces(inbox[d], x))
             /\ Once(inbox[d]) => Once(inbox'[d])
  BY <1>4, <1>5, AppendMeans
<1>7. /\ \A e \in Device, x \in Content : Awaited(e, x)' => Awaited(e, x) \/ (e = d /\ x = c)
      /\ \A e \in Device, x \in Content : Awaited(e, x) => Awaited(e, x)'
      /\ \A e \in Device, x \in Content : Awaited(e, x)' <=> Announces(inbox'[e], x)
  <2>1. \A e \in Device, x \in Content : Awaited(e, x)' <=> Announces(inbox'[e], x)
    BY DEF Awaited, Announces, IsUpload
  <2>2. \A x : IsUpload(m, x) <=> x = c
    BY DEF IsUpload
  <2> HIDE DEF m
  <2> QED
    BY <1>5, <1>6, <2>1, <2>2, AwaitedIs
<1> HIDE DEF m
<1>8. NoUploads
  BY <1>1, <1>2, <1>7 DEF NoUploads
<1>9. /\ Moves(s, s) /\ Stamped(s)'
      /\ \A e \in Device : RowOK(e, s)'
  BY <1>1, <1>2, <1>8, RestMoves DEF catalog
<1>10. \A e \in Device : ~Has(e, c)
  BY <1>1, <1>2 DEF OwnedOK
<1>11. QueuesOK(s)'
  <2>1. \A e \in Device : Once(inbox'[e])
    <3>1. ~Announces(inbox[d], c)
      BY <1>10, AwaitedIs DEF Has
    <3>2. Once(inbox'[d])
      BY <1>2, <1>4, <1>6, <3>1 DEF QueuesOK, IsUpload
    <3> QED
      BY <1>2, <1>5, <3>2 DEF QueuesOK
  <2>2. ASSUME NEW e \in Device, NEW a \in Uploads(s) PROVE a \in Uploads(s)'
    <3>1. a.content \in used /\ s[a.content] = 0
      BY DEF Uploads
    <3>2. CASE a.placement = "Create"
      <4>1. used = {a.content} /\ Known(d)
        BY <1>1, <3>2 DEF Uploads
      <4>2. latest[d].content \in recorded[d] /\ latest[d].content \in Content
        BY <1>2, <4>1 DEF RowOK, TypeOK
      <4>3. s[latest[d].content] > 0 /\ latest[d].content \in used
        BY <1>2, <4>2 DEF RowOK, Stamped
      <4> QED
        BY <1>2, <3>1, <4>1, <4>3
    <3>3. CASE a.placement # "Create"
      BY <1>1, <3>1, <3>3 DEF Uploads
    <3> QED
      BY <3>2, <3>3
  <2>3. \A e \in Device : GoodCommand(e, s) \subseteq GoodCommand(e, s)'
    BY <1>9, <2>2, CommandStays, GoodFields
  <2>4. \A e \in Device : inbox[e] \in Seq(GoodCommand(e, s)')
    <3>1. \A e \in Device : inbox[e] \in Seq(GoodCommand(e, s))
      BY <1>2 DEF QueuesOK
    <3> QED
      BY <2>3, <3>1, SeqMonotonic
  <2>5. m \in GoodCommand(d, s)'
    <3>1. p = "Create" => used' = {c}
      BY <1>1 DEF p
    <3>2. m \in Uploads(s)'
      BY <1>1, <1>3, <1>4, <3>1 DEF Uploads, m
    <3> QED
      BY <3>2 DEF GoodCommand
  <2>6. Append(inbox[d], m) \in Seq(GoodCommand(d, s)')
    BY <2>4, <2>5, AppendProperties
  <2>7. \A e \in Device : inbox'[e] \in Seq(GoodCommand(e, s)')
    BY <1>5, <2>4, <2>6
  <2>8. wire' \in [Ends -> Seq(GoodFrame(s)')]
    BY <1>1, <1>2, <1>9, FramesStay DEF QueuesOK
  <2> QED
    BY <2>1, <2>7, <2>8 DEF QueuesOK
<1>12. OwnedOK(s)'
  <2>1. /\ \A e \in Device, x \in Content : Has(e, x)' => Has(e, x) \/ (e = d /\ x = c)
        /\ c \in outbox'[d] /\ \A e \in Device : outbox[e] \subseteq outbox'[e]
        /\ \A e \in Device, x \in Content : x \in outbox'[e] => x \in outbox[e] \/ x = c
    BY <1>1, <1>2, <1>7 DEF Has
  <2>2. ASSUME NEW x \in Content, NEW e \in Device, NEW g \in Device, Has(e, x)', Has(g, x)'
        PROVE  e = g
    BY <1>2, <1>10, <2>1, <2>2 DEF OwnedOK
  <2>3. ASSUME NEW x \in Content, NEW e \in Device
        PROVE  /\ Has(e, x)' => x \in used'
               /\ Awaited(e, x)' /\ ~misjudged' => x \in outbox'[e]
               /\ x \in outbox'[e] /\ s[x] > 0 => x \in recorded'[e]
    <3>1. Has(e, x)' => x \in used'
      BY <1>1, <1>2, <2>1 DEF OwnedOK
    <3>2. Awaited(e, x)' /\ ~misjudged' => x \in outbox'[e]
      BY <1>1, <1>2, <1>7, <2>1 DEF OwnedOK
    <3>3. x \in outbox'[e] /\ s[x] > 0 => x \in recorded'[e]
      BY <1>1, <1>2, <1>3, <2>1 DEF OwnedOK, catalog
    <3> QED
      BY <3>1, <3>2, <3>3
  <2> QED
    BY <2>2, <2>3 DEF OwnedOK
<1>13. KeptOK(s)'
  <2>1. \A e \in Device : outbox[e] \subseteq outbox'[e] /\ pass'[e] = pass[e]
    BY <1>1, <1>2
  <2>2. \A e \in Device : PassOK(e, s)'
    BY <1>9, <2>1, PassStays
  <2>3. ASSUME NEW x \in Content, s[x] > 0, ~misjudged'
        PROVE  Past(x, s)' \/ \E e \in Device : Answers(e, x)'
    BY <1>9, <2>1, <2>3, SurvivorStays
  <2> QED
    BY <2>2, <2>3 DEF KeptOK
<1>14. OrdersOK(s)'
  BY <1>1, <1>9, SamePulls DEF session
<1>15. ASSUME NEW e \in Holder PROVE Served(e)'
  <2>1. e \in Device /\ Served(e)
    BY TransfersAssumption DEF Inv
  <2>2. Carries(inbox[e], latest[e].content) => Carries(inbox'[e], latest[e].content)
    BY <1>5, <1>6, <2>1
  <2>3. Brought(e, latest[e].content) => Brought(e, latest[e].content)'
    BY <1>1, <2>2 DEF session, Brought, catalog
  <2>4. ToPull(e, latest[e].content) => ToPull(e, latest[e].content)'
    BY <1>1 DEF session, ToPull, catalog
  <2> QED
    BY <1>1, <2>1, <2>3, <2>4, ServedStays DEF catalog
<1> QED
  BY <1>9, <1>11, <1>12, <1>13, <1>14, <1>15 DEF Inv

LEMMA DeleteKeeps ==
    ASSUME NEW s, Inv(s), TypeOK', NEW d \in Device, Delete(d)
    PROVE  Inv(s)'
<1> DEFINE m == [kind |-> "Deletion", at |-> clock', from |-> d]
<1>1. /\ clock' = clock + 1 /\ inbox' = Enqueued(d, m)
      /\ UNCHANGED <<catalog, bytes, pull, pass, session, wire, used, misjudged, lost>>
  BY DEF Delete
<1>2. /\ TypeOK /\ Stamped(s) /\ QueuesOK(s)
      /\ clock \in Nat /\ \A x \in Content : s[x] \in Nat
  BY Numbers DEF Inv, TypeOK
<1>3. m \in Commands /\ m.kind # "AnnounceUpload"
  BY <1>1, <1>2, CommandTypes
<1>4. /\ inbox'[d] = Append(inbox[d], m)
      /\ \A e \in Device : e # d => inbox'[e] = inbox[e]
      /\ inbox[d] \in Seq(Commands)
  BY <1>1, <1>2, <1>3, EnqueuedCommand DEF TypeOK
<1>5. /\ \A e \in Device, c \in Content : Awaited(e, c)' => Awaited(e, c)
      /\ \A e \in Device : Once(inbox[e]) => Once(inbox'[e])
  BY <1>2, <1>3, <1>4, InboxAwaits
<1>6. /\ Moves(s, s) /\ Stamped(s)'
      /\ \A e \in Device : RowOK(e, s)'
  <2>1. NoUploads
    BY <1>2, <1>5 DEF NoUploads, TypeOK
  <2> QED
    BY <1>1, <1>2, <2>1, RestMoves DEF catalog, bytes
<1>7. clock' \in Gaps(s)'
  BY <1>1, <1>2 DEF Gaps, Stamped
<1>8. m \in GoodCommand(d, s)'
  BY <1>7 DEF GoodCommand
<1> HIDE DEF m
<1>9. \A e \in Device : InboxStep(e, s)
  BY <1>3, <1>4, <1>8 DEF InboxStep
<1>10. wire' \in [Ends -> Seq(GoodFrame(s)')]
  BY <1>1, <1>2, <1>6, FramesStay DEF QueuesOK
<1>11. OrdersOK(s)'
  BY <1>1, <1>6, SamePulls DEF session
<1>12. ASSUME NEW e \in Holder PROVE Served(e)'
  <2>1. e \in Device /\ Served(e)
    BY TransfersAssumption DEF Inv
  <2>2. Carries(inbox[e], latest[e].content) => Carries(inbox'[e], latest[e].content)
    BY <1>3, <1>4, <2>1, NotBytes
  <2>3. Brought(e, latest[e].content) => Brought(e, latest[e].content)'
    BY <1>1, <2>2 DEF session, Brought, catalog
  <2>4. ToPull(e, latest[e].content) => ToPull(e, latest[e].content)'
    BY <1>1 DEF session, ToPull, catalog
  <2> QED
    BY <1>1, <2>1, <2>3, <2>4, ServedStays DEF catalog, bytes
<1> QED
  BY <1>1, <1>5, <1>6, <1>9, <1>10, <1>11, <1>12, CommonStep DEF bytes

LEMMA StillMoves ==
    ASSUME NEW s, Inv(s), UNCHANGED <<catalog, disk, clock, used>>, misjudged => misjudged',
           \A d \in Device, c \in Content : Awaited(d, c)' => Awaited(d, c)
    PROVE  /\ Moves(s, s) /\ Stamped(s)'
           /\ \A d \in Device : RowOK(d, s)'
<1>1. clock \in Nat /\ used \subseteq Content
  BY DEF Inv, TypeOK
<1>2. NoUploads
  BY <1>1 DEF NoUploads
<1> QED
  BY <1>1, <1>2, RestMoves DEF catalog

LEMMA WireStays ==
    ASSUME NEW s, Inv(s), Moves(s, s), UNCHANGED wire
    PROVE  wire' \in [Ends -> Seq(GoodFrame(s)')]
BY FramesStay DEF Inv, QueuesOK

LEMMA TransferKeeps ==
    ASSUME NEW s, Inv(s), TypeOK', NEW d \in Device, NEW c \in Content,
           Transfer(d, c) \/ TimeOut(d, c)
    PROVE  Inv(s)'
<1> DEFINE p == pull[d][c]
           m == Materialize(OrderOf(d, c))
<1>1. /\ p.state # "idle" => p \in Pull /\ p # Idle
      /\ Idle.state = "idle" /\ pull \in [Device -> [Content -> Pull \cup {Idle}]]
      /\ TypeOK
  BY PullTypes DEF Idle, Inv, TypeOK
<1>2. /\ p.state # "idle"
      /\ UNCHANGED <<catalog, bytes, pass, linked, asked, wire, clock, used, misjudged>>
      /\ (UNCHANGED <<inbox, done>> \/ Deliver(d, c))
  BY <1>1 DEF Transfer, Admit, FetchChunk, Starve, Deliver, Finish, TimeOut, session, counts
<1>3. p \in Pull /\ p # Idle
  BY <1>1, <1>2
<1>4. /\ \A e \in Device, x \in Content : e # d \/ x # c => pull'[e][x] = pull[e][x]
      /\ \/ pull'[d][c] = Idle
         \/ pull'[d][c].from = p.from /\ pull'[d][c].placement = p.placement
  <2>1. CASE Finish(d, c)
    BY <1>1, <2>1 DEF Finish
  <2>2. CASE Admit(d, c)
    BY <1>1, <1>3, <2>2 DEF Admit, Pull
  <2>3. CASE FetchChunk(d, c)
    BY <1>1, <1>3, <2>3 DEF FetchChunk, Pull
  <2>4. CASE pull' = [pull EXCEPT ![d][c].state = "ended"]
    BY <1>1, <1>3, <2>4 DEF Pull
  <2> QED
    BY <2>1, <2>2, <2>3, <2>4 DEF Transfer, Starve, Deliver, TimeOut
<1>5. OrderOf(d, c) \in Fitting(d, s) /\ OrderOf(d, c) \in Order
      /\ (p.from # d => <<d, p.from>> \in Ends)
  BY <1>3 DEF Inv, OrdersOK, PullOK, Fitting
<1>6. m \in GoodCommand(d, s) /\ m \in Commands /\ m.kind # "AnnounceUpload" /\ IsBytes(m, c)
  BY <1>5, CommandTypes DEF GoodCommand, Materialize, IsBytes, OrderOf
<1>7. \/ inbox' = inbox /\ (done' = done \/ Deliver(d, c))
      \/ Deliver(d, c) /\ inbox' = Enqueued(d, m) /\ done' = done /\ p.from = d
  BY <1>2 DEF Deliver
<1> HIDE DEF m
<1>8. /\ \A e \in Device : e # d => inbox'[e] = inbox[e]
      /\ inbox'[d] = inbox[d] \/ inbox'[d] = Append(inbox[d], m)
      /\ inbox' = Enqueued(d, m) => inbox'[d] = Append(inbox[d], m)
      /\ \A e \in Device : inbox[e] \in Seq(Commands)
  BY <1>1, <1>6, <1>7, EnqueuedCommand DEF TypeOK
<1>9. /\ \A e \in Device, x \in Content : Awaited(e, x)' => Awaited(e, x)
      /\ \A e \in Device : Once(inbox[e]) => Once(inbox'[e])
  BY <1>1, <1>6, <1>8, InboxAwaits
<1>10. /\ Moves(s, s) /\ Stamped(s)'
       /\ \A e \in Device : RowOK(e, s)'
  BY <1>2, <1>9, StillMoves DEF bytes
<1>11. \A e \in Device : InboxStep(e, s)
  <2>1. GoodCommand(d, s) = GoodCommand(d, s)'
    BY <1>2 DEF GoodCommand, Uploads, Fitting, Versions, Gaps, catalog, bytes
  <2> QED
    BY <1>6, <1>8, <2>1 DEF InboxStep
<1>12. OrdersOK(s)'
  <2>1. \A e \in Device, x \in Content : PullOK(e, x, s)'
    <3> SUFFICES ASSUME NEW e \in Device, NEW x \in Content PROVE PullOK(e, x, s)'
      OBVIOUS
    <3>1. CASE e = d /\ x = c
      BY <1>3, <1>4, <1>10, <3>1, PullStays
    <3>2. CASE e # d \/ x # c
      <4>1. pull'[e][x] = pull[e][x]
        BY <1>4, <3>2
      <4> QED
        BY <1>10, <4>1, PullStays
    <3> QED
      BY <3>1, <3>2
  <2>2. \A l \in Ends : done'[l] \subseteq done[l] \cup Fitting(l[1], s)'
    <3>1. OrderOf(d, c) \in Fitting(d, s)'
      BY <1>5, <1>10 DEF Moves
    <3>2. \A l \in Ends : done'[l] \subseteq done[l]
                             \cup (IF l[1] = d THEN {OrderOf(d, c)} ELSE {})
      <4>1. CASE done' = done
        BY <4>1
      <4>2. ASSUME done' = [done EXCEPT ![<<d, p.from>>] = @ \cup {OrderOf(d, c)}]
            PROVE  \A l \in Ends : done'[l] \subseteq done[l]
                             \cup (IF l[1] = d THEN {OrderOf(d, c)} ELSE {})
        <5> SUFFICES ASSUME NEW l \in Ends
                     PROVE  done'[l] \subseteq done[l]
                             \cup (IF l[1] = d THEN {OrderOf(d, c)} ELSE {})
          OBVIOUS
        <5>1. <<d, p.from>>[1] = d /\ done \in [Ends -> SUBSET Order]
          BY <1>1 DEF TypeOK
        <5>2. l # <<d, p.from>> => done'[l] = done[l]
          BY <4>2, <5>1
        <5>3. l = <<d, p.from>> => done'[l] = done[l] \cup {OrderOf(d, c)}
          BY <4>2, <5>1
        <5> QED
          BY <5>1, <5>2, <5>3
      <4>3. CASE Deliver(d, c)
        BY <4>1, <4>2, <4>3 DEF Deliver
      <4> QED
        BY <1>7, <4>1, <4>3
    <3> QED
      BY <3>1, <3>2
  <2> QED
    BY <1>2, <1>10, <2>1, <2>2, OrdersStay
<1>13. ASSUME NEW e \in Holder PROVE Served(e)'
  <2> DEFINE x == latest[e].content
  <2>1. e \in Device /\ Served(e) /\ lost \in [Device -> BOOLEAN]
    BY TransfersAssumption DEF Inv, TypeOK
  <2>2. lost[e] => lost'[e]
    BY <2>1 DEF Transfer, Admit, FetchChunk, Starve, Deliver, Finish, TimeOut
  <2>3. /\ Carries(inbox[e], x) => Carries(inbox'[e], x)
        /\ inbox'[d] = Append(inbox[d], m) => Carries(inbox'[d], c)
    <3>1. inbox[d] \in Seq(Commands) /\ (e # d => inbox'[e] = inbox[e])
      BY <1>8, <2>1
    <3>2. Carries(Append(inbox[d], m), c)
      BY <1>6, <3>1, AppendMeans
    <3>3. Carries(inbox[d], x) => Carries(Append(inbox[d], m), x)
      BY <1>6, <3>1, AppendMeans
    <3> QED
      BY <1>8, <3>1, <3>2, <3>3
  <2>4. \A l \in Ends : done[l] \subseteq done'[l]
    <3>1. CASE done' = done
      BY <3>1
    <3>2. CASE Deliver(d, c)
      BY <1>1, <3>2 DEF Deliver, TypeOK
    <3> QED
      BY <1>7, <3>1, <3>2
  <2>5. Brought(e, x) => Brought(e, x)'
    BY <1>2, <2>1, <2>3, <2>4 DEF Brought, catalog
  <2>6. latest' = latest
    BY <1>2 DEF catalog
  <2>7. ASSUME Live(e), ToPull(e, x) PROVE ToPull(e, x)' \/ Brought(e, x)' \/ lost'[e]
    <3>1. CASE e # d \/ x # c
      <4>1. x \in Content
        BY <1>1, <2>1, <2>7 DEF Live, TypeOK
      <4>2. pull'[e][x] = pull[e][x]
        BY <1>4, <2>1, <3>1, <4>1
      <4> QED
        BY <1>2, <2>6, <2>7, <4>2 DEF ToPull
    <3>2. CASE e = d /\ x = c
      <4>1. p.state # "ended"
        BY <2>7, <3>2 DEF ToPull
      <4>2. CASE Admit(d, c)
        <5>1. pull'[d][c].state = "running" /\ pull'[d][c] # Idle
          BY <1>1, <1>3, <4>2 DEF Admit, Pull
        <5> QED
          BY <1>2, <2>6, <3>2, <5>1 DEF ToPull
      <4>3. CASE FetchChunk(d, c)
        <5>1. pull'[d][c].state = "running" /\ pull'[d][c] # Idle
          BY <1>1, <1>3, <4>3 DEF FetchChunk, Pull
        <5> QED
          BY <1>2, <2>6, <3>2, <5>1 DEF ToPull
      <4>4. CASE Starve(d, c) \/ TimeOut(d, c)
        BY <2>1, <3>2, <4>4 DEF Starve, TimeOut
      <4>5. CASE Deliver(d, c)
        <5>1. CASE p.from = d
          <6>1. inbox' = Enqueued(d, m)
            BY <4>5, <5>1 DEF Deliver, m
          <6> QED
            BY <1>8, <2>3, <2>6, <3>2, <6>1 DEF Brought
        <5>2. CASE p.from # d /\ p.live
          <6>1. <<d, p.from>> \in Ends /\ OrderOf(d, c) \in done'[<<d, p.from>>]
            BY <1>1, <1>5, <4>5, <5>2 DEF Deliver, TypeOK
          <6>2. OrderOf(d, c).content = c /\ <<d, p.from>>[1] = d
            BY DEF OrderOf
          <6> QED
            BY <2>6, <3>2, <6>1, <6>2 DEF Brought
        <5>3. CASE p.from # d /\ ~p.live
          BY <2>1, <3>2, <4>5, <5>3 DEF Deliver
        <5> QED
          BY <5>1, <5>2, <5>3
      <4>6. ~Finish(d, c)
        BY <4>1 DEF Finish
      <4> QED
        BY <4>2, <4>3, <4>4, <4>5, <4>6 DEF Transfer
    <3> QED
      BY <3>1, <3>2
  <2> QED
    BY <1>2, <2>1, <2>2, <2>5, <2>7, ServedStays DEF catalog, bytes
<1> QED
  BY <1>2, <1>9, <1>10, <1>11, <1>12, <1>13, CommonStep, WireStays DEF bytes

LEMMA Retyped ==
    ASSUME NEW S, NEW T, NEW q \in Seq(S), \A i \in 1 .. Len(q) : q[i] \in T
    PROVE  q \in Seq(T)
<1>1. Len(q) \in Nat /\ q = [i \in 1 .. Len(q) |-> q[i]]
  BY LenProperties
<1> QED
  BY <1>1, IsASeq

\* What it does to the inboxes that a command is handled.
LEMMA HandledStep ==
    ASSUME NEW s, Inv(s), NEW d \in Device, inbox[d] # <<>>, Handled(d)
    PROVE  /\ inbox'[d] = Tail(inbox[d])
           /\ \A e \in Device : e # d => inbox'[e] = inbox[e]
           /\ \A e \in Device : InboxStep(e, s)
           /\ \A e \in Device, c \in Content : Awaited(e, c)' => Awaited(e, c)
           /\ \A e \in Device : Once(inbox[e]) => Once(inbox'[e])
           /\ \A e \in Device : \A c : Carries(inbox[e], c)
                  => \/ Carries(inbox'[e], c)
                     \/ e = d /\ IsBytes(Head(inbox[d]), c)
<1>1. TypeOK /\ inbox \in [Device -> Seq(Commands)]
  BY DEF Inv, TypeOK
<1>2. inbox'[d] = Tail(inbox[d]) /\ \A e \in Device : e # d => inbox'[e] = inbox[e]
  BY <1>1 DEF Handled
<1>3. \A e \in Device : InboxStep(e, s)
  BY <1>2 DEF InboxStep
<1>4. /\ \A e \in Device, c \in Content : Awaited(e, c)' => Awaited(e, c)
      /\ \A e \in Device : Once(inbox[e]) => Once(inbox'[e])
  BY <1>1, <1>2, InboxAwaits
<1>5. \A c : Carries(inbox[d], c) <=> Carries(inbox'[d], c) \/ IsBytes(Head(inbox[d]), c)
  <2>1. inbox[d] \in Seq(Commands)
    BY <1>1
  <2> QED
    BY <1>2, <2>1, TailMeans
<1> QED
  BY <1>2, <1>3, <1>4, <1>5

\* The catalog and the pulls of the other devices are served as before.
LEMMA ServedElsewhere ==
    ASSUME NEW s, Inv(s), NEW d \in Device, inbox[d] # <<>>, Handled(d),
           NEW e \in Holder, e # d,
           latest'[e] = latest[e], deleted'[e] = deleted[e], disk'[e] = disk[e],
           pull'[e] = pull[e], lost'[e] = lost[e], done' = done,
           \A l \in Ends : l[1] = e => asked'[l] = asked[l]
    PROVE  Served(e)'
<1>1. e \in Device /\ Served(e)
  BY TransfersAssumption DEF Inv
<1>2. Live(e)' <=> Live(e)
  BY DEF Live, Known, Deleted
<1>3. inbox'[e] = inbox[e]
  BY <1>1, HandledStep
<1>4. Brought(e, latest[e].content) => Brought(e, latest[e].content)'
  BY <1>3 DEF Brought
<1>5. ToPull(e, latest[e].content) => ToPull(e, latest[e].content)'
  BY DEF ToPull
<1> QED
  BY <1>1, <1>2, <1>4, <1>5, LiveServedStays

LEMMA StampedKeeps ==
    ASSUME NEW s, Inv(s), TypeOK', NEW d \in Device, WriteUpload(d),
           NEW c, c = Head(inbox[d]).content,
           NEW p, p = Head(inbox[d]).placement,
           NEW v, v = [content |-> c, at |-> clock + 1],
           NEW t, t = WithStamp(s, c)
    PROVE  t \in Stamping /\ Inv(t)'
<1>1. /\ Moves(s, t) /\ Stamped(t)'
      /\ \A e \in Device : RowOK(e, t)'
      /\ c \in Content /\ s[c] = 0 /\ c \in used /\ Awaited(d, c)
      /\ p \in Placement
      /\ p = "Create" => used = {c}
  <2>1. /\ Moves(s, t) /\ Stamped(t)'
        /\ \A e \in Device : RowOK(e, t)'
        /\ c \in Content /\ s[c] = 0 /\ c \in used /\ Awaited(d, c)
        /\ Head(inbox[d]).placement \in Placement
        /\ Head(inbox[d]).placement = "Create" => used = {c}
    BY WriteUploadMoves
  <2> QED
    BY <2>1
<1>2. /\ inbox[d] # <<>> /\ Head(inbox[d]).kind = "AnnounceUpload" /\ Handled(d)
      /\ Recorded(d, v)
      /\ wire' = Forwarded(d, VersionFrame(v), d)
      /\ pull' = IF d \in Holder THEN Submitted(d, c, d, p) ELSE pull
      /\ lost' = MadeUp(d, c)
      /\ clock' = clock + 1
      /\ UNCHANGED <<deleted, bytes, pass, session, acts, drops, used, misjudged>>
  BY DEF WriteUpload, Command
<1>3. /\ TypeOK /\ Stamped(s) /\ QueuesOK(s) /\ OwnedOK(s) /\ OrdersOK(s)
      /\ \A e \in Device : RowOK(e, s)
      /\ used \subseteq Content /\ clock \in Nat
      /\ recorded \in [Device -> SUBSET Content] /\ latest \in [Device -> Version]
      /\ lost \in [Device -> BOOLEAN]
      /\ \A x \in Content : s[x] \in Nat
      /\ s \in [Content -> Nat]
  BY Numbers DEF Inv, TypeOK, Stamped, Stamping
<1>4. t \in Stamping /\ t[c] = clock + 1 /\ t[c] > 0
      /\ \A x \in Content : x # c => t[x] = s[x]
  BY <1>1, <1>3 DEF Stamping, WithStamp
<1>5. /\ recorded'[d] = recorded[d] \cup {c}
      /\ latest'[d] = v /\ v.content = c /\ v.at = clock + 1
      /\ \A e \in Device : e # d => recorded'[e] = recorded[e] /\ latest'[e] = latest[e]
  BY <1>2, <1>3 DEF Recorded
<1>6. IsUpload(Head(inbox[d]), c)
  BY <1>2 DEF IsUpload
<1>7. /\ inbox'[d] = Tail(inbox[d])
      /\ \A e \in Device : e # d => inbox'[e] = inbox[e]
      /\ \A e \in Device, x \in Content : Awaited(e, x)' => Awaited(e, x)
      /\ \A e \in Device : Once(inbox[e]) => Once(inbox'[e])
  BY <1>2, HandledStep
<1>8. \A e \in Device : ~Awaited(e, c)'
  <2>1. ~Awaited(d, c)'
    BY <1>1, <1>2, <1>6, HandledMoves
  <2>2. \A e \in Device : Awaited(e, c) => e = d
    BY <1>1, <1>3 DEF OwnedOK, Has
  <2> QED
    BY <1>1, <1>7, <2>1, <2>2
<1>9. QueuesOK(t)'
  <2>1. wire' \in [Ends -> Seq(GoodFrame(t)')]
    <3>1. VersionFrame(v) \in GoodFrame(t)'
      BY <1>1, <1>3, <1>4, <1>5 DEF VersionFrame, GoodFrame
    <3> QED
      BY <1>1, <1>2, <3>1, ForwardedGood
  <2>2. ASSUME NEW e \in Device PROVE inbox'[e] \in Seq(GoodCommand(e, t)')
    <3>1. inbox'[e] \in Seq(GoodCommand(e, s))
      <4>1. inbox[e] \in Seq(GoodCommand(e, s))
        BY <1>3 DEF QueuesOK
      <4> QED
        BY <1>2, <1>7, <4>1, HeadTailProperties
    <3>2. ASSUME NEW i \in 1 .. Len(inbox'[e]), NEW m, m = inbox'[e][i]
          PROVE  m \in GoodCommand(e, t)'
      <4>1. m \in GoodCommand(e, s)
        BY <3>1, <3>2, ElementOfSeq
      <4>2. ASSUME m.kind = "AnnounceUpload" PROVE m \in Uploads(t)'
        <5>1. m \in Uploads(s)
          BY <4>1, <4>2, GoodFields
        <5>2. m.content \in Content
          BY <1>3, <5>1 DEF Uploads
        <5>3. m.content # c
          BY <1>8, <3>2, <4>2 DEF Awaited
        <5> QED
          BY <1>2, <1>4, <5>1, <5>2, <5>3 DEF Uploads
      <4> QED
        BY <1>1, <4>1, <4>2, CommandStays
    <3>3. \A i \in 1 .. Len(inbox'[e]) : inbox'[e][i] \in GoodCommand(e, t)'
      BY <3>2
    <3> QED
      BY <3>1, <3>3, Retyped
  <2>3. \A e \in Device : Once(inbox'[e])
    BY <1>3, <1>7 DEF QueuesOK
  <2> QED
    BY <2>1, <2>2, <2>3 DEF QueuesOK
<1>10. pull[d][c] = Idle
  <2>1. c \notin recorded[d]
    BY <1>1, <1>3 DEF RowOK
  <2> QED
    BY <1>1, <1>3, <2>1 DEF OrdersOK, PullOK, Fitting, OrderOf
<1>15. /\ \A x \in Device, y \in Content : x # d \/ y # c => pull'[x][y] = pull[x][y]
       /\ d \in Holder => pull'[d][c] = Queued(d, p)
  <2>1. CASE d \in Holder
    <3>1. pull' = Submitted(d, c, d, p)
      BY <1>2, <2>1
    <3>2. TypeOK /\ c \in Content
      BY <1>1, <1>3
    <3>3. /\ \A x \in Device, y \in Content : x # d \/ y # c => pull'[x][y] = pull[x][y]
          /\ pull[d][c] = Idle => pull'[d][c] = Queued(d, p)
      BY ONLY <3>1, <3>2, d \in Device, SubmittedMeans
    <3> QED
      BY <1>10, <3>3
  <2>2. CASE d \notin Holder
    BY <1>2, <2>2
  <2> QED
    BY <2>1, <2>2
<1>16. pull'[d][c] = pull[d][c] \/ pull'[d][c] = Queued(d, p)
  BY <1>2, <1>15
<1>11. OrdersOK(t)'
  <2>1. [content |-> c, placement |-> p] \in Fitting(d, t)'
    <3>1. [content |-> c, placement |-> p] \in Order
      BY <1>1 DEF Order
    <3>2. p = "Create" => disk'[d] = None
      <4>1. ASSUME p = "Create", disk[d] \in recorded[d] PROVE FALSE
        <5>1. disk[d] \in Content /\ s[disk[d]] > 0
          BY <1>3, <4>1 DEF RowOK
        <5>2. disk[d] \in used
          BY <1>3, <5>1 DEF Stamped
        <5> QED
          BY <1>1, <4>1, <5>1, <5>2
      <4> QED
        BY <1>2, <1>3, <4>1 DEF RowOK, bytes
    <3> QED
      BY <1>5, <3>1, <3>2 DEF Fitting
  <2>2. \A e \in Device, x \in Content : PullOK(e, x, t)'
    <3> SUFFICES ASSUME NEW e \in Device, NEW x \in Content PROVE PullOK(e, x, t)'
      OBVIOUS
    <3>1. CASE pull'[e][x] = pull[e][x]
      BY <1>1, <3>1, PullStays
    <3>2. CASE pull'[e][x] # pull[e][x]
      <4>1. e = d /\ x = c /\ pull'[d][c] = Queued(d, p)
        BY <1>15, <1>16, <3>2
      <4>2. \E k \in Device, o \in Placement :
                /\ pull'[e][x] = Queued(k, o)
                /\ k # e => <<e, k>> \in Ends
                /\ [content |-> x, placement |-> o] \in Fitting(e, t)'
        <5>1. p \in Placement /\ [content |-> x, placement |-> p] \in Fitting(e, t)'
          BY <1>1, <2>1, <4>1
        <5> QED
          BY <4>1, <5>1
      <4> QED
        BY <1>1, <4>2, PullStays
    <3> QED
      BY <3>1, <3>2
  <2> QED
    BY <1>1, <1>2, <2>2, OrdersStay DEF session
<1>12. OwnedOK(t)'
  <2>1. ASSUME NEW e \in Device, NEW x \in Content, x \in outbox[e], t[x] > 0, ~(s[x] > 0)
        PROVE  x \in recorded'[e]
    <3>1. x = c
      BY <1>4, <2>1
    <3>2. e = d
      BY <1>1, <1>3, <2>1, <3>1 DEF OwnedOK, Has
    <3> QED
      BY <1>5, <3>1, <3>2
  <2> QED
    BY <1>1, <1>2, <1>7, <2>1, OwnedStays DEF bytes
<1>13. KeptOK(t)'
  <2>1. ASSUME NEW x \in Content, t[x] > 0, ~(s[x] > 0), ~misjudged'
        PROVE  \E e \in Device : x \in outbox[e]
    <3>1. x = c
      BY <1>4, <2>1
    <3> QED
      BY <1>1, <1>2, <1>3, <2>1, <3>1 DEF OwnedOK
  <2> QED
    BY <1>1, <1>2, <2>1, KeptStays DEF bytes
<1>14. ASSUME NEW e \in Holder PROVE Served(e)'
  <2>0. e \in Device
    BY TransfersAssumption
  <2>1. CASE e # d
    <3>1. pull'[e] = pull[e] /\ lost'[e] = lost[e]
      BY <1>2, <1>3, <2>0, <2>1 DEF Submitted, MadeUp, TypeOK
    <3> QED
      BY <1>2, <1>5, <2>0, <2>1, <3>1, ServedElsewhere DEF bytes, session
  <2>2. CASE e = d
    <3>1. pull'[d][c] = Queued(d, p)
      BY <1>15, <2>2
    <3>2. ToPull(d, c)'
      BY <3>1 DEF ToPull, Queued, Idle
    <3> QED
      BY <1>5, <2>2, <3>2 DEF Served, ToPull
  <2> QED
    BY <2>1, <2>2
<1> QED
  BY <1>1, <1>4, <1>9, <1>11, <1>12, <1>13, <1>14 DEF Inv

LEMMA WriteUploadKeeps ==
    ASSUME NEW s, Inv(s), TypeOK', NEW d \in Device, WriteUpload(d)
    PROVE  \E t \in Stamping : Inv(t)'
<1>1. PICK c, p, v, t : /\ c = Head(inbox[d]).content
                        /\ p = Head(inbox[d]).placement
                        /\ v = [content |-> c, at |-> clock + 1]
                        /\ t = WithStamp(s, c)
  OBVIOUS
<1> QED
  BY <1>1, StampedKeeps

LEMMA WriteVersionKeeps ==
    ASSUME NEW s, Inv(s), TypeOK', NEW d \in Device, WriteVersion(d),
           NEW m, m = Head(inbox[d])
    PROVE  Inv(s)'
<1> DEFINE p == IF Known(d) THEN "Change" ELSE "Create"
           order == [content |-> m.content, placement |-> p]
           newer == m.at > latest[d].at
           wanted == /\ newer /\ d \in Holder
                     /\ NeedsTransfer(d, [content |-> m.content, at |-> m.at])
                     /\ (Known(d) => m.at > deleted[d])
<1>1. /\ Moves(s, s) /\ Stamped(s)'
      /\ \A e \in Device : RowOK(e, s)'
      /\ m \in Versions(s)
      /\ ~newer => UNCHANGED <<recorded, latest>>
      /\ newer => /\ recorded'[d] = recorded[d] \cup {m.content}
                  /\ latest'[d] = [content |-> m.content, at |-> m.at]
                  /\ m.content \notin recorded[d] /\ m.content # latest[d].content
      /\ \A e \in Device : e # d => recorded'[e] = recorded[e] /\ latest'[e] = latest[e]
  BY WriteVersionMoves
<1>2. m.content \in Content /\ m.at \in Nat /\ m.at > 0 /\ m.at = s[m.content] /\ m.from \in Device
  BY <1>1 DEF Versions
<1>3. /\ inbox[d] # <<>> /\ m.kind = "Version" /\ Handled(d)
      /\ wire' = Forwarded(d, VersionFrame([content |-> m.content, at |-> m.at]), m.from)
      /\ asked' = IF wanted /\ m.from \in Connected(d)
                  THEN [asked EXCEPT ![<<d, m.from>>] = @ \cup {order}] ELSE asked
      /\ lost' = [lost EXCEPT ![d] = @ \/ (wanted /\ m.from \notin Connected(d))]
      /\ UNCHANGED <<deleted, bytes, pull, pass, linked, done, counts, misjudged>>
  BY DEF WriteVersion, Command
<1>4. /\ TypeOK /\ OrdersOK(s)
      /\ \A e \in Device : RowOK(e, s)
      /\ recorded \in [Device -> SUBSET Content] /\ asked \in [Ends -> SUBSET Order]
      /\ deleted[d] \in Nat /\ latest[d].at \in Nat
      /\ lost \in [Device -> BOOLEAN] /\ linked \subseteq Tree
  BY Numbers DEF Inv, TypeOK
<1>5. order \in Order /\ order.content = m.content
  BY <1>2 DEF Order, Placement
<1>6. newer => order \in Fitting(d, s)'
  <2>1. ASSUME ~Known(d) PROVE disk[d] = None
    <3>1. \A x \in recorded[d] : FALSE
      BY <2>1, Superseded DEF Inv
    <3> QED
      BY <1>4, <3>1 DEF RowOK
  <2>2. ASSUME newer PROVE order \in Fitting(d, s)'
    <3>1. order.content \in recorded'[d]
      BY <1>1, <1>5, <2>2
    <3>2. order.placement = "Create" => disk'[d] = None
      BY <1>3, <2>1 DEF bytes
    <3> HIDE DEF order
    <3> QED
      BY <1>5, <3>1, <3>2 DEF Fitting
  <2> QED
    BY <2>2
<1> HIDE DEF order, wanted
<1>7. /\ \A e \in Device : InboxStep(e, s)
      /\ \A e \in Device, c \in Content : Awaited(e, c)' => Awaited(e, c)
      /\ \A e \in Device : Once(inbox[e]) => Once(inbox'[e])
      /\ \A c : Carries(inbox[d], c) => Carries(inbox'[d], c)
  <2>1. \A c : ~IsBytes(m, c)
    BY <1>3 DEF IsBytes
  <2> QED
    BY <1>3, <2>1, HandledStep
<1>8. wire' \in [Ends -> Seq(GoodFrame(s)')]
  <2>1. VersionFrame([content |-> m.content, at |-> m.at]) \in GoodFrame(s)'
    BY <1>2 DEF VersionFrame, GoodFrame
  <2> QED
    BY <1>1, <1>3, <2>1, ForwardedGood
<1>9. OrdersOK(s)'
  <2>1. \A e \in Device, c \in Content : PullOK(e, c, s)'
    BY <1>1, <1>3, PullStays
  <2>2. \A l \in Ends : asked'[l] \subseteq asked[l] \cup Fitting(l[1], s)'
    <3>1. CASE asked' = asked
      BY <3>1
    <3>2. CASE wanted /\ asked' = [asked EXCEPT ![<<d, m.from>>] = @ \cup {order}]
      <4> SUFFICES ASSUME NEW l \in Ends
                   PROVE  asked'[l] \subseteq asked[l] \cup Fitting(l[1], s)'
        OBVIOUS
      <4>1. l # <<d, m.from>> => asked'[l] = asked[l]
        BY <1>4, <3>2
      <4>2. l = <<d, m.from>> => asked'[l] = asked[l] \cup {order} /\ l[1] = d
        BY <1>4, <3>2
      <4> QED
        BY <1>6, <3>2, <4>1, <4>2 DEF wanted
    <3> QED
      BY <1>3, <3>1, <3>2
  <2> QED
    BY <1>1, <1>3, <2>1, <2>2, OrdersStay
<1>10. ASSUME NEW e \in Holder PROVE Served(e)'
  <2>0. e \in Device /\ Served(e)
    BY TransfersAssumption DEF Inv
  <2>1. CASE e # d
    <3>1. lost'[e] = lost[e]
      BY <1>3, <1>4, <2>0, <2>1
    <3>2. \A l \in Ends : l[1] = e => asked'[l] = asked[l]
      <4> SUFFICES ASSUME NEW l \in Ends, l[1] = e PROVE asked'[l] = asked[l]
        OBVIOUS
      <4>1. l # <<d, m.from>>
        BY <2>1
      <4> QED
        BY <1>3, <1>4, <4>1
    <3> QED
      BY <1>1, <1>3, <2>0, <2>1, <3>1, <3>2, ServedElsewhere DEF bytes
  <2>2. CASE e = d /\ ~newer
    <3>1. asked' = asked /\ lost' = lost /\ latest' = latest
      BY <1>1, <1>3, <1>4, <2>2 DEF wanted
    <3>2. Brought(d, latest[d].content) => Brought(d, latest[d].content)'
      BY <1>3, <1>7, <3>1 DEF Brought
    <3>3. ToPull(d, latest[d].content) => ToPull(d, latest[d].content)'
      BY <1>3, <3>1 DEF ToPull
    <3> QED
      BY <1>3, <2>0, <2>2, <3>1, <3>2, <3>3, ServedStays DEF bytes
  <2>3. CASE e = d /\ newer
    <3> SUFFICES ASSUME Live(d)', ~lost'[d] PROVE Served(d)'
      BY <2>3 DEF Served
    <3>1. latest'[d].content = m.content /\ latest'[d].at = m.at /\ m.content # latest[d].content
      BY <1>1, <2>3
    <3>2. wanted
      <4>1. deleted[d] # m.at
        <5>1. deleted[d] \in Gaps(s) \cup {0}
          BY <1>4 DEF RowOK
        <5> QED
          BY <1>2, <5>1 DEF Gaps
      <4>2. ~(deleted[d] > m.at)
        BY <1>3, <3>1 DEF Live, Deleted, Known
      <4>3. m.at > deleted[d]
        BY <1>2, <1>4, <4>1, <4>2
      <4>4. NeedsTransfer(d, [content |-> m.content, at |-> m.at])
        BY <3>1 DEF NeedsTransfer
      <4> QED
        BY <2>3, <4>3, <4>4 DEF wanted
    <3>3. m.from \in Connected(d)
      BY <1>3, <1>4, <3>2
    <3>4. <<d, m.from>> \in Ends
      BY <1>4, <3>3 DEF Connected, Ends
    <3>5. order \in asked'[<<d, m.from>>]
      BY <1>3, <1>4, <3>2, <3>3, <3>4
    <3>6. pull[d][m.content] = Idle
      BY <1>1, <1>2, <1>4, <2>3 DEF OrdersOK, PullOK, Fitting, OrderOf
    <3>7. ToPull(d, m.content)'
      <4>1. Idle.state # "ended" /\ <<d, m.from>>[1] = d
        BY DEF Idle
      <4>2. \E l \in Ends : l[1] = d /\ \E o \in asked'[l] : o.content = m.content
        BY <1>5, <3>4, <3>5, <4>1
      <4> QED
        BY <1>3, <3>6, <4>1, <4>2 DEF ToPull
    <3> QED
      BY <3>1, <3>7 DEF Served, ToPull
  <2> QED
    BY <2>1, <2>2, <2>3
<1> QED
  BY <1>1, <1>3, <1>7, <1>8, <1>9, <1>10, CommonStep DEF bytes, counts

LEMMA WriteDeletionKeeps ==
    ASSUME NEW s, Inv(s), TypeOK', NEW d \in Device, WriteDeletion(d),
           NEW m, m = Head(inbox[d])
    PROVE  Inv(s)'
<1>1. /\ Moves(s, s) /\ Stamped(s)'
      /\ \A e \in Device : RowOK(e, s)'
      /\ m.at \in Gaps(s) /\ m.from \in Device
      /\ Live(d)' => Live(d) /\ disk'[d] = disk[d]
      /\ \A e \in Device : e # d => deleted'[e] = deleted[e] /\ disk'[e] = disk[e]
  BY WriteDeletionMoves
<1>2. /\ inbox[d] # <<>> /\ m.kind = "Deletion" /\ Handled(d)
      /\ wire' = Forwarded(d, DeletionFrame(m.at), m.from) \/ wire' = wire
      /\ UNCHANGED <<recorded, latest, outbox, pull, pass, session, counts, misjudged, lost>>
  BY DEF WriteDeletion, Command
<1>3. /\ \A e \in Device : InboxStep(e, s)
      /\ \A e \in Device, c \in Content : Awaited(e, c)' => Awaited(e, c)
      /\ \A e \in Device : Once(inbox[e]) => Once(inbox'[e])
      /\ \A c : Carries(inbox[d], c) => Carries(inbox'[d], c)
  <2>1. \A c : ~IsBytes(m, c)
    BY <1>2 DEF IsBytes
  <2> QED
    BY <1>2, <2>1, HandledStep
<1>4. wire' \in [Ends -> Seq(GoodFrame(s)')]
  <2>1. DeletionFrame(m.at) \in GoodFrame(s)'
    BY <1>1 DEF DeletionFrame, GoodFrame, Moves
  <2>2. Forwarded(d, DeletionFrame(m.at), m.from) \in [Ends -> Seq(GoodFrame(s)')]
    BY <1>1, <2>1, ForwardedGood
  <2>3. wire' = wire => wire' \in [Ends -> Seq(GoodFrame(s)')]
    BY <1>1, WireStays
  <2> QED
    BY <1>2, <2>2, <2>3
<1>5. OrdersOK(s)'
  BY <1>1, <1>2, SamePulls DEF session
<1>6. ASSUME NEW e \in Holder PROVE Served(e)'
  <2>0. e \in Device /\ Served(e)
    BY TransfersAssumption DEF Inv
  <2>1. CASE e # d
    BY <1>1, <1>2, <2>0, <2>1, ServedElsewhere DEF session
  <2>2. CASE e = d
    <3>1. Brought(d, latest[d].content) => Brought(d, latest[d].content)'
      BY <1>2, <1>3 DEF Brought, session
    <3>2. ToPull(d, latest[d].content) => ToPull(d, latest[d].content)'
      BY <1>2 DEF ToPull, session
    <3> QED
      BY <1>1, <1>2, <2>0, <2>2, <3>1, <3>2, LiveServedStays
  <2> QED
    BY <2>1, <2>2
<1> QED
  BY <1>1, <1>2, <1>3, <1>4, <1>5, <1>6, CommonStep DEF counts

LEMMA WriteBytesKeeps ==
    ASSUME NEW s, Inv(s), TypeOK', NEW d \in Device, WriteBytes(d)
    PROVE  Inv(s)'
<1> DEFINE m == Head(inbox[d])
           c == latest[d].content
<1>1. /\ Moves(s, s) /\ Stamped(s)'
      /\ \A e \in Device : RowOK(e, s)'
      /\ \A e \in Device : e # d => disk'[e] = disk[e]
      /\ disk'[d] \in {disk[d], c}
      /\ \/ disk'[d] = c
         \/ d \notin Holder \/ ~Live(d)
         \/ ~IsBytes(m, c)
  BY WriteBytesMoves
<1>2. /\ inbox[d] # <<>> /\ Handled(d)
      /\ UNCHANGED <<catalog, outbox, pull, pass, session, wire, counts, misjudged, lost>>
  BY DEF WriteBytes, Command
<1>3. /\ \A e \in Device : InboxStep(e, s)
      /\ \A e \in Device, x \in Content : Awaited(e, x)' => Awaited(e, x)
      /\ \A e \in Device : Once(inbox[e]) => Once(inbox'[e])
      /\ \A x : Carries(inbox[d], x) => Carries(inbox'[d], x) \/ IsBytes(m, x)
  BY <1>2, HandledStep
<1>4. wire' \in [Ends -> Seq(GoodFrame(s)')]
  BY <1>1, <1>2, WireStays
<1>5. OrdersOK(s)'
  BY <1>1, <1>2, SamePulls DEF session
<1>6. ASSUME NEW e \in Holder PROVE Served(e)'
  <2>0. e \in Device /\ Served(e)
    BY TransfersAssumption DEF Inv
  <2>1. CASE e # d
    BY <1>1, <1>2, <2>0, <2>1, ServedElsewhere DEF session, catalog
  <2>2. CASE e = d
    <3> SUFFICES ASSUME Live(d)', ~lost'[d], disk'[d] # c PROVE Served(d)'
      BY <1>2, <2>2 DEF Served, catalog
    <3>1. disk'[d] = disk[d] /\ Live(d) /\ ~IsBytes(m, c) /\ latest'[d] = latest[d] /\ d \in Holder
      BY <1>1, <1>2, <2>2 DEF Live, Known, Deleted, catalog
    <3>2. Carries(inbox[d], c) => Carries(inbox'[d], c)
      BY <1>3, <3>1
    <3>3. Brought(d, c) => Brought(d, c)'
      BY <1>2, <3>1, <3>2 DEF Brought, session
    <3>4. ToPull(d, c) => ToPull(d, c)'
      BY <1>2, <3>1 DEF ToPull, session
    <3> QED
      BY <1>2, <2>0, <2>2, <3>1, <3>3, <3>4, LiveServedStays
  <2> QED
    BY <2>1, <2>2
<1> QED
  BY <1>1, <1>2, <1>3, <1>4, <1>5, <1>6, CommonStep DEF counts

LEMMA SweepKeeps ==
    ASSUME NEW s, Inv(s), TypeOK', NEW d \in Device, Sweep(d)
    PROVE  Inv(s)'
<1> DEFINE m == Head(inbox[d])
           c == latest[d].content
           asks == d \in Holder /\ Live(d) /\ disk[d] = None
<1>1. /\ inbox[d] # <<>> /\ m.kind = "Sweep" /\ Handled(d)
      /\ UNCHANGED <<catalog, bytes, pass, session, wire, counts, misjudged>>
      /\ asks => pull' = Submitted(d, c, d, "Create") /\ lost' = MadeUp(d, c)
      /\ ~asks => UNCHANGED <<pull, lost>>
  BY DEF Sweep, Command
<1>2. /\ TypeOK /\ lost \in [Device -> BOOLEAN]
      /\ Live(d) => c \in recorded[d] /\ c \in Content
  BY DEF Inv, TypeOK, Live
<1>3. /\ \A e \in Device : InboxStep(e, s)
      /\ \A e \in Device, x \in Content : Awaited(e, x)' => Awaited(e, x)
      /\ \A e \in Device : Once(inbox[e]) => Once(inbox'[e])
      /\ \A x : Carries(inbox[d], x) => Carries(inbox'[d], x)
  <2>1. \A x : ~IsBytes(m, x)
    BY <1>1 DEF IsBytes
  <2> QED
    BY <1>1, <2>1, HandledStep
<1>4. /\ Moves(s, s) /\ Stamped(s)'
      /\ \A e \in Device : RowOK(e, s)'
  BY <1>1, <1>3, StillMoves DEF bytes, counts
<1>5. wire' \in [Ends -> Seq(GoodFrame(s)')]
  BY <1>1, <1>4, WireStays
<1>6. ASSUME asks
      PROVE  /\ \A e \in Device, x \in Content : e # d \/ x # c => pull'[e][x] = pull[e][x]
             /\ pull[d][c] = Idle => pull'[d][c] = Queued(d, "Create") /\ ~lost'[d]
             /\ pull[d][c] # Idle => pull'[d][c] = pull[d][c] /\ lost'[d] = lost[d]
             /\ \A e \in Device : e # d => lost'[e] = lost[e]
  <2>1. /\ \A e \in Device, x \in Content : e # d \/ x # c => pull'[e][x] = pull[e][x]
        /\ pull[d][c] = Idle => pull'[d][c] = Queued(d, "Create")
        /\ pull[d][c] # Idle => pull'[d][c] = pull[d][c]
    <3>1. c \in Content /\ pull' = Submitted(d, c, d, "Create")
      BY <1>1, <1>2, <1>6
    <3> HIDE DEF c
    <3> QED
      BY <1>2, <3>1, SubmittedMeans
  <2> QED
    BY <1>1, <1>2, <1>6, <2>1 DEF MadeUp
<1>7. OrdersOK(s)'
  <2>1. ASSUME NEW e \in Device, NEW x \in Content PROVE PullOK(e, x, s)'
    <3>1. CASE pull'[e][x] = pull[e][x]
      BY <1>4, <3>1, PullStays
    <3>2. CASE pull'[e][x] # pull[e][x]
      <4>1. asks /\ e = d /\ x = c /\ pull'[e][x] = Queued(d, "Create")
        BY <1>1, <1>6, <3>2
      <4>2. [content |-> x, placement |-> "Create"] \in Fitting(d, s)'
        BY <1>1, <1>2, <4>1 DEF Fitting, Order, Placement, catalog, bytes
      <4> QED
        BY <1>4, <4>1, <4>2, PullStays DEF Placement
    <3> QED
      BY <3>1, <3>2
  <2> QED
    BY <1>1, <1>4, <2>1, OrdersStay DEF session
<1>8. ASSUME NEW e \in Holder PROVE Served(e)'
  <2>0. e \in Device /\ Served(e)
    BY TransfersAssumption DEF Inv
  <2>1. CASE e # d
    <3>1. pull'[e] = pull[e]
      BY <1>1, <2>0, <2>1, <1>2 DEF Submitted, TypeOK
    <3>2. lost'[e] = lost[e]
      BY <1>1, <1>6, <2>0, <2>1
    <3> QED
      BY <1>1, <2>0, <2>1, <3>1, <3>2, ServedElsewhere DEF session, bytes, catalog
  <2>2. CASE e = d /\ asks /\ pull[d][c] = Idle
    <3>1. pull'[d][c] = Queued(d, "Create") /\ latest'[d] = latest[d]
      BY <1>1, <1>6, <2>2 DEF catalog
    <3>2. ToPull(d, c)'
      BY <3>1 DEF ToPull, Queued, Idle
    <3> QED
      BY <2>2, <3>2 DEF Served
  <2>3. CASE e = d /\ ~(asks /\ pull[d][c] = Idle)
    <3>1. latest' = latest /\ lost'[d] = lost[d] /\ (Live(d) => pull'[d][c] = pull[d][c])
      BY <1>1, <1>6, <2>3 DEF catalog
    <3>2. Brought(d, c) => Brought(d, c)'
      BY <1>1, <1>3, <3>1 DEF Brought, session
    <3>3. Live(d) /\ ToPull(d, c) => ToPull(d, c)'
      BY <1>1, <3>1 DEF ToPull, session
    <3> QED
      BY <1>1, <2>0, <2>3, <3>1, <3>2, <3>3, ServedStays DEF catalog, bytes
  <2> QED
    BY <2>1, <2>2, <2>3
<1> QED
  BY <1>1, <1>3, <1>4, <1>5, <1>7, <1>8, CommonStep DEF counts, bytes

LEMMA ReceiveKeeps ==
    ASSUME NEW s, Inv(s), TypeOK', NEW d \in Device, NEW e \in Device, <<d, e>> \in Ends,
           Receive(d, e)
    PROVE  Inv(s)'
<1> DEFINE f == Head(wire[<<d, e>>])
           m == IF f.kind = "Version"
                THEN [kind |-> "Version", content |-> f.content, at |-> f.at, from |-> d]
                ELSE [kind |-> "Deletion", at |-> f.at, from |-> d]
<1>1. /\ wire[<<d, e>>] # <<>> /\ inbox' = Enqueued(e, m)
      /\ wire' = [wire EXCEPT ![<<d, e>>] = Tail(@)]
      /\ UNCHANGED <<catalog, bytes, pull, pass, session, counts, misjudged, lost>>
  BY DEF Receive
<1>2. /\ TypeOK /\ QueuesOK(s)
      /\ wire[<<d, e>>] \in Seq(GoodFrame(s))
  BY DEF Inv, QueuesOK
<1>3. f \in GoodFrame(s) /\ Tail(wire[<<d, e>>]) \in Seq(GoodFrame(s))
  BY <1>1, <1>2, HeadTailProperties
<1>4. m \in GoodCommand(e, s) /\ m.kind # "AnnounceUpload"
  BY <1>3 DEF GoodFrame, GoodCommand, Versions
<1> HIDE DEF m
<1>5. m \in Commands
  BY <1>4, GoodIsCommand
<1>6. /\ inbox'[e] = Append(inbox[e], m)
      /\ \A x \in Device : x # e => inbox'[x] = inbox[x]
      /\ \A x \in Device : inbox[x] \in Seq(Commands)
  BY <1>1, <1>2, <1>5, EnqueuedCommand DEF TypeOK
<1>7. /\ \A x \in Device, c \in Content : Awaited(x, c)' => Awaited(x, c)
      /\ \A x \in Device : Once(inbox[x]) => Once(inbox'[x])
  BY <1>2, <1>4, <1>5, <1>6, InboxAwaits
<1>8. /\ Moves(s, s) /\ Stamped(s)'
      /\ \A x \in Device : RowOK(x, s)'
  BY <1>1, <1>7, StillMoves DEF bytes, counts
<1>9. GoodCommand(e, s) = GoodCommand(e, s)'
  BY <1>1 DEF GoodCommand, Uploads, Fitting, Versions, Gaps, catalog, bytes, counts
<1>10. \A x \in Device : InboxStep(x, s)
  BY <1>4, <1>6, <1>9 DEF InboxStep
<1>11. wire' \in [Ends -> Seq(GoodFrame(s)')]
  <2>1. \A l \in Ends : wire'[l] \in Seq(GoodFrame(s))
    BY <1>1, <1>2, <1>3 DEF QueuesOK
  <2>2. \A l \in Ends : wire'[l] \in Seq(GoodFrame(s)')
    BY <1>8, <2>1, FramesStay, SeqMonotonic
  <2> QED
    BY <1>1, <1>2, <2>2 DEF QueuesOK
<1>12. OrdersOK(s)'
  BY <1>1, <1>8, SamePulls DEF session
<1>13. ASSUME NEW x \in Holder PROVE Served(x)'
  <2>1. x \in Device /\ Served(x)
    BY TransfersAssumption DEF Inv
  <2>2. Carries(inbox[x], latest[x].content) => Carries(inbox'[x], latest[x].content)
    BY <1>5, <1>6, <2>1, NotBytes
  <2>3. Brought(x, latest[x].content) => Brought(x, latest[x].content)'
    BY <1>1, <2>2 DEF session, Brought, catalog
  <2>4. ToPull(x, latest[x].content) => ToPull(x, latest[x].content)'
    BY <1>1 DEF session, ToPull, catalog
  <2> QED
    BY <1>1, <2>1, <2>3, <2>4, ServedStays DEF catalog, bytes
<1> QED
  BY <1>1, <1>7, <1>8, <1>10, <1>11, <1>12, <1>13, CommonStep DEF bytes, counts

LEMMA StartReceiveKeeps ==
    ASSUME NEW s, Inv(s), TypeOK', NEW d \in Device, NEW e \in Device, <<d, e>> \in Ends,
           StartReceive(d, e)
    PROVE  Inv(s)'
<1>1. PICK order \in asked[<<d, e>>] :
        /\ asked' = [asked EXCEPT ![<<d, e>>] = @ \ {order}]
        /\ pull' = Submitted(d, order.content, e, order.placement)
        /\ lost' = IF order.content = latest[d].content
                   THEN MadeUp(d, order.content) ELSE lost
        /\ UNCHANGED <<catalog, bytes, inbox, pass, linked, done, wire, counts, misjudged>>
  BY DEF StartReceive
<1>2. PICK c \in Content, p \in Placement : c = order.content /\ p = order.placement
  BY DEF Inv, TypeOK, Order
<1>3. /\ TypeOK /\ lost \in [Device -> BOOLEAN] /\ asked \in [Ends -> SUBSET Order]
      /\ order \in Fitting(d, s) /\ order \in Order /\ order = [content |-> c, placement |-> p]
  <2>1. order \in Order
    BY DEF Inv, TypeOK
  <2>2. order \in Fitting(d, s)
    BY DEF Inv, OrdersOK
  <2>3. order = [content |-> c, placement |-> p]
    BY <1>2, <2>1 DEF Order
  <2> QED
    BY <2>1, <2>2, <2>3 DEF Inv, TypeOK
<1>4. /\ Moves(s, s) /\ Stamped(s)'
      /\ \A x \in Device : RowOK(x, s)'
      /\ \A x \in Device, y \in Content : Awaited(x, y)' => Awaited(x, y)
  <2>1. \A x \in Device, y \in Content : Awaited(x, y)' => Awaited(x, y)
    BY <1>1 DEF Awaited
  <2> QED
    BY <1>1, <2>1, StillMoves DEF bytes, counts
<1>5. /\ \A x \in Device, y \in Content : x # d \/ y # c => pull'[x][y] = pull[x][y]
      /\ pull[d][c] = Idle => pull'[d][c] = Queued(e, p)
      /\ pull[d][c] # Idle => pull'[d][c] = pull[d][c]
  BY <1>1, <1>2, <1>3, SubmittedMeans
<1>6. OrdersOK(s)'
  <2>1. ASSUME NEW x \in Device, NEW y \in Content PROVE PullOK(x, y, s)'
    <3>1. CASE pull'[x][y] = pull[x][y]
      BY <1>4, <3>1, PullStays
    <3>2. CASE pull'[x][y] # pull[x][y]
      <4>1. x = d /\ y = c /\ pull'[x][y] = Queued(e, p)
        BY <1>5, <3>2
      <4>2. [content |-> y, placement |-> p] \in Fitting(d, s)'
        BY <1>3, <1>4, <4>1 DEF Moves
      <4> QED
        BY <1>4, <4>1, <4>2, PullStays
    <3> QED
      BY <3>1, <3>2
  <2>2. \A l \in Ends : asked'[l] \subseteq asked[l]
    BY <1>1, <1>3
  <2> QED
    BY <1>1, <1>4, <2>1, <2>2, OrdersStay
<1>7. ASSUME NEW x \in Holder PROVE Served(x)'
  <2> DEFINE w == latest[x].content
  <2>1. x \in Device /\ Served(x)
    BY TransfersAssumption DEF Inv
  <2>2. Brought(x, w) => Brought(x, w)'
    BY <1>1 DEF Brought, catalog
  <2>3. CASE x # d
    <3>1. lost'[x] = lost[x]
      BY <1>1, <1>3, <2>1, <2>3 DEF MadeUp
    <3>2. pull'[x] = pull[x]
      BY <1>1, <1>2, <1>3, <2>1, <2>3 DEF Submitted, TypeOK
    <3>3. \A l \in Ends : l[1] = x => asked'[l] = asked[l]
      <4> SUFFICES ASSUME NEW l \in Ends, l[1] = x PROVE asked'[l] = asked[l]
        OBVIOUS
      <4>1. l # <<d, e>>
        BY <2>3
      <4> QED
        BY <1>1, <1>3, <4>1
    <3>4. ToPull(x, w) => ToPull(x, w)'
      BY <1>1, <3>2, <3>3 DEF ToPull, catalog
    <3> QED
      BY <1>1, <2>1, <2>2, <3>1, <3>4, ServedStays DEF catalog, bytes
  <2>4. CASE x = d /\ w # c
    <3>1. lost'[x] = lost[x]
      BY <1>1, <1>2, <2>4
    <3>2. \A l \in Ends, o \in Order : o.content = w /\ o \in asked[l] => o \in asked'[l]
      BY <1>1, <1>2, <1>3, <2>4
    <3>3. \A l \in Ends : asked[l] \subseteq Order
      BY <1>3
    <3>4. ASSUME Live(x), ToPull(x, w) PROVE ToPull(x, w)'
      <4>1. w \in Content
        BY <1>3, <2>1, <3>4 DEF Live, TypeOK
      <4>2. pull'[x][w] = pull[x][w]
        BY <1>5, <2>1, <2>4, <4>1
      <4>3. pull[x][w].state # "ended"
        BY <3>4 DEF ToPull
      <4>4. \/ pull[x][w] # Idle
            \/ \E l \in Ends : l[1] = x /\ \E o \in asked[l] : o.content = w
        BY <3>4 DEF ToPull
      <4>5. \/ pull[x][w] # Idle
            \/ \E l \in Ends : l[1] = x /\ \E o \in asked'[l] : o.content = w
        BY <3>2, <3>3, <4>4
      <4> QED
        BY <1>1, <4>2, <4>3, <4>5 DEF ToPull, catalog
    <3> QED
      BY <1>1, <2>1, <2>2, <3>1, <3>4, ServedStays DEF catalog, bytes
  <2>5. CASE x = d /\ w = c /\ pull[d][c] = Idle
    <3>1. pull'[d][c] = Queued(e, p)
      BY <1>5, <2>5
    <3>2. ToPull(d, c)'
      BY <3>1 DEF ToPull, Queued, Idle
    <3> QED
      BY <1>1, <2>5, <3>2 DEF Served, catalog
  <2>6. CASE x = d /\ w = c /\ pull[d][c] # Idle
    <3>1. lost'[d] = lost[d]
      BY <1>1, <1>2, <1>3, <2>6 DEF MadeUp
    <3>2. ToPull(d, c) => ToPull(d, c)'
      BY <1>5, <2>6 DEF ToPull
    <3> QED
      BY <1>1, <2>1, <2>2, <2>6, <3>1, <3>2, ServedStays DEF catalog, bytes
  <2> QED
    BY <2>3, <2>4, <2>5, <2>6
<1>8. /\ \A x \in Device : InboxStep(x, s)
      /\ \A x \in Device : Once(inbox[x]) => Once(inbox'[x])
  BY <1>1 DEF InboxStep
<1>9. wire' \in [Ends -> Seq(GoodFrame(s)')]
  BY <1>1, <1>4, WireStays
<1> QED
  BY <1>1, <1>4, <1>6, <1>7, <1>8, <1>9, CommonStep DEF bytes, counts

LEMMA TakeDoneKeeps ==
    ASSUME NEW s, Inv(s), TypeOK', NEW d \in Device, NEW e \in Device, <<d, e>> \in Ends,
           TakeDone(d, e)
    PROVE  Inv(s)'
<1>1. PICK order \in done[<<d, e>>] :
        /\ done' = [done EXCEPT ![<<d, e>>] = @ \ {order}]
        /\ inbox' = Enqueued(d, Materialize(order))
        /\ UNCHANGED <<catalog, bytes, pull, pass, linked, asked, wire, counts, misjudged,
                       lost>>
  BY DEF TakeDone
<1> DEFINE m == Materialize(order)
<1>2. TypeOK /\ done \in [Ends -> SUBSET Order] /\ order \in Fitting(d, s)
  BY DEF Inv, TypeOK, OrdersOK
<1>3. m \in GoodCommand(d, s) /\ m.kind # "AnnounceUpload" /\ IsBytes(m, order.content)
  BY <1>2 DEF GoodCommand, Materialize, IsBytes
<1> HIDE DEF m
<1>4. m \in Commands
  BY <1>3, GoodIsCommand
<1>5. /\ inbox'[d] = Append(inbox[d], m)
      /\ \A x \in Device : x # d => inbox'[x] = inbox[x]
      /\ \A x \in Device : inbox[x] \in Seq(Commands)
  BY <1>1, <1>2, <1>4, EnqueuedCommand DEF TypeOK, m
<1>6. /\ \A x \in Device, c \in Content : Awaited(x, c)' => Awaited(x, c)
      /\ \A x \in Device : Once(inbox[x]) => Once(inbox'[x])
  BY <1>2, <1>3, <1>4, <1>5, InboxAwaits
<1>7. /\ Moves(s, s) /\ Stamped(s)'
      /\ \A x \in Device : RowOK(x, s)'
  BY <1>1, <1>6, StillMoves DEF bytes, counts
<1>8. GoodCommand(d, s) = GoodCommand(d, s)'
  BY <1>1 DEF GoodCommand, Uploads, Fitting, Versions, Gaps, catalog, bytes, counts
<1>9. \A x \in Device : InboxStep(x, s)
  BY <1>3, <1>5, <1>8 DEF InboxStep
<1>10. wire' \in [Ends -> Seq(GoodFrame(s)')]
  BY <1>1, <1>7, WireStays
<1>11. OrdersOK(s)'
  <2>1. \A x \in Device, c \in Content : PullOK(x, c, s)'
    BY <1>1, <1>7, PullStays
  <2>2. \A l \in Ends : done'[l] \subseteq done[l]
    BY <1>1, <1>2
  <2> QED
    BY <1>1, <1>7, <2>1, <2>2, OrdersStay
<1>12. ASSUME NEW x \in Holder PROVE Served(x)'
  <2> DEFINE w == latest[x].content
  <2>1. x \in Device /\ Served(x)
    BY TransfersAssumption DEF Inv
  <2>2. /\ Carries(inbox[x], w) => Carries(inbox'[x], w)
        /\ Carries(inbox'[d], order.content)
    <3>1. Carries(inbox[x], w) => Carries(inbox'[x], w)
      BY <1>4, <1>5, <2>1, NotBytes
    <3>2. Carries(Append(inbox[d], m), order.content)
      BY <1>3, <1>4, <1>5, AppendMeans
    <3> QED
      BY <1>5, <3>1, <3>2
  <2>3. ASSUME Brought(x, w) PROVE Brought(x, w)'
    <3>1. CASE Carries(inbox[x], w)
      BY <1>1, <2>2, <3>1 DEF Brought, catalog
    <3>2. ASSUME NEW l \in Ends, l[1] = x, NEW o \in done[l], o.content = w
          PROVE  Brought(x, w)'
      <4>1. CASE o \in done'[l]
        BY <1>1, <3>2, <4>1 DEF Brought, catalog
      <4>2. CASE o \notin done'[l]
        <5>1. l = <<d, e>> /\ o = order
          BY <1>1, <1>2, <3>2, <4>2
        <5>2. x = d /\ w = order.content
          BY <3>2, <5>1
        <5> QED
          BY <1>1, <2>2, <5>2 DEF Brought, catalog
      <4> QED
        BY <4>1, <4>2
    <3> QED
      BY <2>3, <3>1, <3>2 DEF Brought
  <2>4. ToPull(x, w) => ToPull(x, w)'
    BY <1>1 DEF ToPull, catalog
  <2> QED
    BY <1>1, <2>1, <2>3, <2>4, ServedStays DEF catalog, bytes
<1> QED
  BY <1>1, <1>6, <1>7, <1>9, <1>10, <1>11, <1>12, CommonStep DEF bytes, counts

LEMMA ConnectKeeps ==
    ASSUME NEW s, Inv(s), TypeOK', NEW link \in Tree, Connect(link)
    PROVE  Inv(s)'
<1> DEFINE m == [kind |-> "Sweep"]
<1>1. /\ wire' = [l \in Ends |-> IF {l[1], l[2]} = link THEN Row(l[1]) ELSE wire[l]]
      /\ inbox' = [d \in Device |-> IF d \in link THEN Append(inbox[d], m) ELSE inbox[d]]
      /\ UNCHANGED <<catalog, bytes, pull, pass, asked, done, counts, misjudged, lost>>
  BY DEF Connect
<1>2. /\ TypeOK /\ \A d \in Device : RowOK(d, s)
      /\ \A d \in Device : inbox[d] \in Seq(Commands)
      /\ \A d \in Device : latest[d].at \in Nat /\ deleted[d] \in Nat
      /\ \A d \in Device : recorded[d] \subseteq Content
  BY Numbers DEF Inv, TypeOK
<1>3. m \in Commands /\ m.kind # "AnnounceUpload"
  BY CommandTypes
<1>4. \A d \in Device : m \in GoodCommand(d, s)'
  BY DEF GoodCommand
<1> HIDE DEF m
<1>5. \A d \in Device : inbox'[d] = inbox[d] \/ inbox'[d] = Append(inbox[d], m)
  BY <1>1
<1>6. /\ \A d \in Device, c \in Content : Awaited(d, c)' => Awaited(d, c)
      /\ \A d \in Device : Once(inbox[d]) => Once(inbox'[d])
  BY <1>2, <1>3, <1>5, InboxAwaits
<1>7. /\ Moves(s, s) /\ Stamped(s)'
      /\ \A d \in Device : RowOK(d, s)'
  BY <1>1, <1>6, StillMoves DEF bytes, counts
<1>8. \A d \in Device : InboxStep(d, s)
  BY <1>3, <1>4, <1>5 DEF InboxStep
<1>9. wire' \in [Ends -> Seq(GoodFrame(s)')]
  <2>1. ASSUME NEW d \in Device PROVE Row(d) \in Seq(GoodFrame(s)')
    <3>1. CASE ~Known(d)
      BY <3>1, EmptySeq DEF Row
    <3>2. CASE Deleted(d)
      <4>1. Known(d) /\ deleted[d] > 0
        BY <1>2, <3>2 DEF Deleted, Known
      <4>2. deleted[d] \in Gaps(s)'
        BY <1>2, <1>7, <4>1 DEF RowOK, Moves
      <4>3. DeletionFrame(deleted[d]) \in GoodFrame(s)'
        BY <4>2 DEF DeletionFrame, GoodFrame
      <4> QED
        BY <3>2, <4>1, <4>3 DEF Row
    <3>3. CASE Known(d) /\ ~Deleted(d)
      <4>1. latest[d].content \in Content /\ latest[d].at = s[latest[d].content]
            /\ latest[d].at > 0 /\ latest[d].at \in Nat
        BY <1>2, <3>3 DEF RowOK, Known
      <4>2. VersionFrame(latest[d]) \in GoodFrame(s)'
        BY <4>1 DEF VersionFrame, GoodFrame
      <4> QED
        BY <3>3, <4>2 DEF Row
    <3> QED
      BY <3>1, <3>2, <3>3
  <2> QED
    BY <1>1, <1>7, <2>1, FramesStay, TwoEnds
<1>10. OrdersOK(s)'
  BY <1>1, <1>7, SamePulls
<1>11. ASSUME NEW e \in Holder PROVE Served(e)'
  <2>1. e \in Device /\ Served(e)
    BY TransfersAssumption DEF Inv
  <2>2. Carries(inbox[e], latest[e].content) => Carries(inbox'[e], latest[e].content)
    BY <1>2, <1>3, <1>5, <2>1, NotBytes
  <2>3. Brought(e, latest[e].content) => Brought(e, latest[e].content)'
    BY <1>1, <2>2 DEF Brought, catalog
  <2>4. ToPull(e, latest[e].content) => ToPull(e, latest[e].content)'
    BY <1>1 DEF ToPull, catalog
  <2> QED
    BY <1>1, <2>1, <2>3, <2>4, ServedStays DEF catalog, bytes
<1> QED
  BY <1>1, <1>6, <1>7, <1>8, <1>9, <1>10, <1>11, CommonStep DEF bytes, counts

\* What is lost when links break and devices are killed is noted.
LEMMA DownServes ==
    ASSUME NEW s, Inv(s), NEW broken, NEW killed, Down(broken, killed),
           NEW d \in Device, inbox'[d] = IF d \in killed THEN <<>> ELSE inbox[d],
           Served(d)
    PROVE  Served(d)'
<1> DEFINE c == latest[d].content
<1>1. /\ UNCHANGED <<catalog, bytes>>
      /\ asked' = [l \in Ends |-> IF {l[1], l[2]} \in broken THEN {} ELSE asked[l]]
      /\ done' = [l \in Ends |-> IF {l[1], l[2]} \in broken THEN {} ELSE done[l]]
      /\ pull' = [e \in Device |-> [x \in Content |->
                     IF e \in killed THEN Idle ELSE Orphaned(e, pull[e][x], broken)]]
      /\ lost'[d] = (\/ lost[d]
                     \/ \E e \in Device : /\ <<d, e>> \in Ends /\ {d, e} \in broken
                                          /\ asked[<<d, e>>] \cup done[<<d, e>>] # {}
                     \/ /\ d \in killed
                        /\ \/ \E x \in Content : pull[d][x] # Idle
                           \/ \E i \in 1 .. Len(inbox[d]) : inbox[d][i].kind = "Materialize")
  BY DEF Down
<1>2. TypeOK
  BY DEF Inv
<1>3. CASE lost'[d]
  BY <1>3 DEF Served
<1>4. CASE ~lost'[d]
  <2>1. /\ ~lost[d]
        /\ \A e \in Device : <<d, e>> \in Ends /\ {d, e} \in broken
                                 => asked[<<d, e>>] = {} /\ done[<<d, e>>] = {}
        /\ d \in killed => /\ \A x \in Content : pull[d][x] = Idle
                           /\ \A i \in 1 .. Len(inbox[d]) : inbox[d][i].kind # "Materialize"
    BY <1>1, <1>4
  <2>2. ASSUME NEW l \in Ends, l[1] = d PROVE asked'[l] = asked[l] /\ done'[l] = done[l]
    <3>1. l = <<d, l[2]>> /\ l[2] \in Device
      BY <2>2 DEF Ends
    <3>2. CASE {l[1], l[2]} \in broken
      BY <1>1, <2>1, <2>2, <3>1, <3>2
    <3>3. CASE {l[1], l[2]} \notin broken
      BY <1>1, <3>3
    <3> QED
      BY <3>2, <3>3
  <2>3. Carries(inbox[d], c) => Carries(inbox'[d], c)
    BY <2>1 DEF Carries, IsBytes
  <2>4. Brought(d, c) => Brought(d, c)'
    BY <1>1, <2>2, <2>3 DEF Brought, catalog
  <2>5. ASSUME Live(d), ToPull(d, c) PROVE ToPull(d, c)'
    <3>1. c \in Content
      BY <1>2, <2>5 DEF Live, TypeOK
    <3>2. /\ pull'[d][c].state = pull[d][c].state
          /\ pull[d][c] # Idle => pull'[d][c] # Idle
      <4>1. CASE d \in killed
        BY <1>1, <2>1, <3>1, <4>1
      <4>2. CASE d \notin killed
        <5>1. pull'[d][c] = Orphaned(d, pull[d][c], broken)
          BY <1>1, <3>1, <4>2
        <5>2. CASE pull[d][c] = Idle
          BY <5>1, <5>2 DEF Orphaned
        <5>3. CASE pull[d][c] # Idle
          <6>1. pull[d][c] \in Pull /\ pull[d][c].state # "idle"
            BY <1>2, <3>1, <5>3, PullTypes
          <6>2. Orphaned(d, pull[d][c], broken).state = pull[d][c].state
            BY <6>1 DEF Orphaned, Pull
          <6> QED
            BY <5>1, <6>1, <6>2 DEF Idle
        <5> QED
          BY <5>2, <5>3
      <4> QED
        BY <4>1, <4>2
    <3> QED
      BY <1>1, <2>2, <2>5, <3>2 DEF ToPull, catalog
  <2> QED
    BY <1>1, <2>1, <2>4, <2>5, ServedStays DEF catalog, bytes
<1> QED
  BY <1>3, <1>4

LEMMA DownKeeps ==
    ASSUME NEW s, Inv(s), TypeOK', NEW broken, NEW killed, Down(broken, killed),
           \A d \in Device : inbox'[d] = IF d \in killed THEN <<>> ELSE inbox[d],
           \A d \in Device : pass'[d] = pass[d] \/ pass'[d] = NoPass
    PROVE  Inv(s)'
<1>1. /\ UNCHANGED <<catalog, bytes, clock, used, misjudged>>
      /\ asked' = [l \in Ends |-> IF {l[1], l[2]} \in broken THEN {} ELSE asked[l]]
      /\ done' = [l \in Ends |-> IF {l[1], l[2]} \in broken THEN {} ELSE done[l]]
      /\ wire' = [l \in Ends |-> IF {l[1], l[2]} \in broken THEN <<>> ELSE wire[l]]
      /\ pull' = [d \in Device |-> [c \in Content |->
                     IF d \in killed THEN Idle ELSE Orphaned(d, pull[d][c], broken)]]
  BY DEF Down
<1>2. TypeOK
  BY DEF Inv
<1>3. \A d \in Device : InboxStep(d, s)
  BY DEF InboxStep
<1>4. /\ \A d \in Device, c \in Content : Awaited(d, c)' => Awaited(d, c)
      /\ \A d \in Device : Once(inbox[d]) => Once(inbox'[d])
  <2>1. \A d \in Device : inbox'[d] = inbox[d] \/ inbox'[d] = <<>>
    OBVIOUS
  <2> QED
    BY <1>2, <2>1, InboxAwaits
<1>5. /\ Moves(s, s) /\ Stamped(s)'
      /\ \A d \in Device : RowOK(d, s)'
  BY <1>1, <1>4, StillMoves DEF bytes
<1>6. wire' \in [Ends -> Seq(GoodFrame(s)')]
  BY <1>1, <1>5, FramesStay, EmptySeq
<1>7. OrdersOK(s)'
  <2>1. ASSUME NEW d \in Device, NEW c \in Content PROVE PullOK(d, c, s)'
    <3>1. pull'[d][c] \in {Idle, Orphaned(d, pull[d][c], broken)}
      BY <1>1
    <3>2. pull[d][c] = Idle => Orphaned(d, pull[d][c], broken) = Idle
      BY DEF Orphaned
    <3>3. ASSUME pull[d][c] # Idle
          PROVE  /\ Orphaned(d, pull[d][c], broken).from = pull[d][c].from
                 /\ Orphaned(d, pull[d][c], broken).placement = pull[d][c].placement
      <4>1. pull[d][c] \in Pull
        BY <1>2, <3>3, PullTypes
      <4> QED
        BY <4>1 DEF Orphaned, Pull
    <3> QED
      BY <1>5, <3>1, <3>2, <3>3, PullStays
  <2>2. \A l \in Ends : asked'[l] \subseteq asked[l] /\ done'[l] \subseteq done[l]
    BY <1>1
  <2> QED
    BY <1>5, <2>1, <2>2, OrdersStay
<1>8. \A e \in Holder : Served(e)'
  BY DownServes, TransfersAssumption DEF Inv
<1> QED
  BY <1>1, <1>3, <1>4, <1>5, <1>6, <1>7, <1>8, CommonStep DEF bytes

LEMMA BreakKeeps ==
    ASSUME NEW s, Inv(s), TypeOK',
           (\E link \in Tree : Disconnect(link)) \/ (\E d \in Device : Crash(d))
    PROVE  Inv(s)'
<1>1. ASSUME NEW link \in Tree, Disconnect(link) PROVE Inv(s)'
  <2>1. Down({link}, {}) /\ UNCHANGED <<inbox, pass>>
    BY <1>1 DEF Disconnect
  <2>2. \A d \in Device : inbox'[d] = IF d \in {} THEN <<>> ELSE inbox[d]
    BY <2>1
  <2> QED
    BY <2>1, <2>2, DownKeeps
<1>2. ASSUME NEW d \in Device, Crash(d) PROVE Inv(s)'
  <2>1. /\ Down({l \in Tree : d \in l}, {d})
        /\ inbox' = [inbox EXCEPT ![d] = <<>>]
        /\ pass' = [pass EXCEPT ![d] = NoPass]
    BY <1>2 DEF Crash
  <2>2. \A e \in Device : inbox'[e] = IF e \in {d} THEN <<>> ELSE inbox[e]
    BY <2>1 DEF Inv, TypeOK
  <2>3. \A e \in Device : pass'[e] = pass[e] \/ pass'[e] = NoPass
    BY <2>1 DEF Inv, TypeOK
  <2> QED
    BY <2>1, <2>2, <2>3, DownKeeps
<1> QED
  BY <1>1, <1>2

\* A step of a release pass leaves all but the outbox, the pass and the note of
\* what was misjudged.
LEMMA PassLeaves ==
    ASSUME NEW s, Inv(s), TypeOK', OwnedOK(s)', KeptOK(s)', misjudged => misjudged',
           UNCHANGED <<catalog, disk, inbox, pull, session, wire, counts, lost>>
    PROVE  Inv(s)'
<1>1. \A d \in Device, c \in Content : Awaited(d, c)' => Awaited(d, c)
  BY DEF Awaited
<1>2. /\ Moves(s, s) /\ Stamped(s)'
      /\ \A d \in Device : RowOK(d, s)'
  BY <1>1, StillMoves DEF counts
<1>3. QueuesOK(s)'
  <2>1. QueuesOK(s)
    BY DEF Inv
  <2>2. \A d \in Device : GoodCommand(d, s) = GoodCommand(d, s)'
    BY DEF GoodCommand, Uploads, Fitting, Versions, Gaps, catalog, counts
  <2>3. GoodFrame(s) = GoodFrame(s)'
    BY DEF GoodFrame, Gaps, counts
  <2> QED
    BY <2>1, <2>2, <2>3 DEF QueuesOK
<1>4. OrdersOK(s)'
  BY <1>2, SamePulls DEF session
<1>5. ASSUME NEW e \in Holder PROVE Served(e)'
  <2>1. e \in Device /\ Served(e)
    BY TransfersAssumption DEF Inv
  <2>2. Brought(e, latest[e].content) => Brought(e, latest[e].content)'
    BY DEF Brought, session, catalog
  <2>3. ToPull(e, latest[e].content) => ToPull(e, latest[e].content)'
    BY DEF session, ToPull, catalog
  <2> QED
    BY <2>1, <2>2, <2>3, ServedStays DEF catalog
<1> QED
  BY <1>2, <1>3, <1>4, <1>5 DEF Inv

\* What a pass may remove.
LEMMA ObsoleteIsPast ==
    ASSUME NEW s, Inv(s), NEW d \in Device, NEW c \in outbox[d], Obsolete(d, c),
           ~Awaited(d, c) \/ ~Deleted(d)
    PROVE  ~Needed(c, s)
<1>1. /\ OwnedOK(s) /\ Stamped(s) /\ RowOK(d, s) /\ c \in Content
      /\ latest[d].at \in Nat /\ deleted[d] \in Nat /\ s[c] \in Nat
  BY Numbers DEF Inv, TypeOK
<1>2. CASE s[c] > 0
  <2>1. c \in recorded[d] /\ s[c] <= latest[d].at
    BY <1>1, <1>2 DEF OwnedOK, RowOK
  <2>2. latest[d].at > s[c] \/ deleted[d] > s[c]
    <3>1. CASE Deleted(d)
      BY <1>1, <2>1, <3>1 DEF Deleted
    <3>2. CASE latest[d].content # c
      BY <2>1, <3>2, Superseded
    <3> QED
      BY <3>1, <3>2 DEF Obsolete
  <2> QED
    BY <1>2, <2>2 DEF Needed, Past
<1>3. CASE ~(s[c] > 0)
  <2>1. c \notin recorded[d]
    BY <1>3 DEF Inv, RowOK
  <2>2. Deleted(d) /\ ~Awaited(d, c)
    BY <2>1 DEF Obsolete
  <2>3. c \in used /\ \A e \in Device : ~Awaited(e, c)
    BY <1>1, <2>2 DEF OwnedOK, Has
  <2> QED
    BY <1>3, <2>3 DEF Needed
<1> QED
  BY <1>2, <1>3

LEMMA SameOwned ==
    ASSUME NEW s, Inv(s), UNCHANGED <<outbox, inbox, used, recorded>>, misjudged => misjudged'
    PROVE  OwnedOK(s)'
<1>1. \A d \in Device, c \in Content : Awaited(d, c)' <=> Awaited(d, c)
  BY DEF Awaited
<1>2. \A d \in Device, c \in Content : Has(d, c)' <=> Has(d, c)
  BY <1>1 DEF Has
<1> QED
  BY <1>1, <1>2 DEF Inv, OwnedOK

LEMMA SameNeeded ==
    ASSUME NEW s, NEW c \in Content, UNCHANGED <<latest, deleted, inbox, used>>
    PROVE  Needed(c, s)' <=> Needed(c, s)
<1>1. Past(c, s)' <=> Past(c, s)
  BY DEF Past
<1>2. \A d \in Device : Awaited(d, c)' <=> Awaited(d, c)
  BY DEF Awaited
<1> QED
  BY <1>1, <1>2 DEF Needed

\* A pass that decides removes nothing yet.
LEMMA DecisionKeeps ==
    ASSUME NEW s, Inv(s), TypeOK', NEW d \in Device,
           \A e \in Device : e # d => pass'[e] = pass[e],
           PassOK(d, s)',
           misjudged => misjudged',
           UNCHANGED <<catalog, bytes, inbox, pull, session, wire, counts, lost>>
    PROVE  Inv(s)'
<1>1. \A e \in Device, c \in Content : Awaited(e, c)' => Awaited(e, c)
  BY DEF Awaited
<1>2. Moves(s, s)
  BY <1>1, StillMoves DEF counts, bytes
<1>3. OwnedOK(s)'
  BY SameOwned DEF bytes, counts, catalog
<1>4. \A e \in Device : PassOK(e, s)'
  BY <1>2, PassStays DEF bytes
<1>5. ASSUME NEW x \in Content, s[x] > 0, ~misjudged'
      PROVE  Past(x, s)' \/ \E e \in Device : Answers(e, x)'
  BY <1>2, <1>5, SurvivorStays DEF bytes
<1>6. KeptOK(s)'
  BY <1>4, <1>5 DEF KeptOK
<1> QED
  BY <1>3, <1>6, PassLeaves DEF bytes

LEMMA JudgeKeeps ==
    ASSUME NEW s, Inv(s), TypeOK', NEW d \in Device, NEW c \in Content, Judge(d, c)
    PROVE  Inv(s)'
<1>1. /\ c \in outbox[d]
      /\ pass' = [pass EXCEPT ![d] =
                     [entry |-> c, stage |-> IF Obsolete(d, c) \/ disk[d] = c THEN "remove"
                                             ELSE "probe"]]
      /\ misjudged' = (misjudged \/ (Deleted(d) /\ Awaited(d, c)))
      /\ UNCHANGED <<catalog, bytes, inbox, pull, session, wire, counts, lost>>
  BY DEF Judge
<1>2. pass \in [Device -> [stage : {"idle", "probe", "remove"}, entry : Content \cup {None}]]
  BY DEF Inv, TypeOK
<1>3. PassOK(d, s)'
  <2>1. pass'[d].entry = c /\ c \in outbox'[d]
    BY <1>1, <1>2 DEF bytes
  <2>2. ASSUME pass'[d].stage = "remove"
        PROVE  misjudged' \/ ~Needed(c, s)' \/ \E e \in Device : disk'[e] = c
    <3>1. Obsolete(d, c) \/ disk[d] = c
      BY <1>1, <1>2, <2>2
    <3>2. CASE disk[d] = c
      BY <1>1, <3>2 DEF bytes
    <3>3. CASE Obsolete(d, c) /\ ~misjudged'
      <4>1. ~Needed(c, s)
        BY <1>1, <3>3, ObsoleteIsPast
      <4> QED
        BY <1>1, <4>1, SameNeeded DEF catalog, counts
    <3> QED
      BY <3>1, <3>2, <3>3
  <2> QED
    BY <2>1, <2>2 DEF PassOK, Needed, Past
<1>4. \A e \in Device : e # d => pass'[e] = pass[e]
  BY <1>1, <1>2
<1> QED
  BY <1>1, <1>3, <1>4, DecisionKeeps

LEMMA ProbeKeeps ==
    ASSUME NEW s, Inv(s), TypeOK', NEW d \in Device, Probe(d)
    PROVE  Inv(s)'
<1>1. /\ pass[d].stage = "probe"
      /\ pass' = [pass EXCEPT ![d] = IF \E e \in Connected(d) : Answers(e, pass[d].entry)
                                     THEN [@ EXCEPT !.stage = "remove"] ELSE NoPass]
      /\ UNCHANGED <<catalog, bytes, inbox, pull, session, wire, counts, misjudged, lost>>
  BY DEF Probe
<1>2. /\ pass \in [Device -> [stage : {"idle", "probe", "remove"}, entry : Content \cup {None}]]
      /\ PassOK(d, s) /\ OwnedOK(s) /\ linked \subseteq Tree
      /\ outbox \in [Device -> SUBSET Content]
  BY DEF Inv, TypeOK, KeptOK
<1>3. PICK c \in Content : c = pass[d].entry /\ c \in outbox[d]
  BY <1>1, <1>2 DEF PassOK
<1>4. PassOK(d, s)'
  <2>1. CASE ~\E e \in Connected(d) : Answers(e, c)
    <3>1. pass'[d] = NoPass
      BY <1>1, <1>2, <1>3, <2>1
    <3> QED
      BY <3>1 DEF PassOK, NoPass
  <2>2. ASSUME NEW e \in Connected(d), Answers(e, c) PROVE PassOK(d, s)'
    <3>1. pass'[d].entry = c
      BY <1>1, <1>2, <1>3, <2>2
    <3>2. e \in Device /\ e # d
      BY <1>2, TwoEnds DEF Connected
    <3>3. c \notin outbox[e]
      BY <1>2, <1>3, <3>2 DEF OwnedOK, Has
    <3>4. disk'[e] = c /\ c \in outbox'[d]
      BY <1>1, <1>3, <2>2, <3>3 DEF Answers, bytes
    <3> QED
      BY <3>1, <3>2, <3>4 DEF PassOK
  <2> QED
    BY <2>1, <2>2
<1>5. \A e \in Device : e # d => pass'[e] = pass[e]
  BY <1>1, <1>2
<1> QED
  BY <1>1, <1>4, <1>5, DecisionKeeps

LEMMA ReleaseKeeps ==
    ASSUME NEW s, Inv(s), TypeOK', NEW d \in Device, Release(d)
    PROVE  Inv(s)'
<1>1. /\ pass[d].stage = "remove"
      /\ outbox' = [outbox EXCEPT ![d] = @ \ {pass[d].entry}]
      /\ pass' = [pass EXCEPT ![d] = NoPass]
      /\ UNCHANGED <<catalog, disk, inbox, pull, session, wire, counts, misjudged, lost>>
  BY DEF Release
<1>2. /\ pass \in [Device -> [stage : {"idle", "probe", "remove"}, entry : Content \cup {None}]]
      /\ PassOK(d, s) /\ OwnedOK(s) /\ Stamped(s)
      /\ outbox \in [Device -> SUBSET Content]
      /\ \A e \in Device : RowOK(e, s)
  BY DEF Inv, TypeOK, KeptOK
<1>3. PICK c \in Content : c = pass[d].entry /\ c \in outbox[d]
  BY <1>1, <1>2 DEF PassOK
<1>4. misjudged \/ ~Needed(c, s) \/ \E e \in Device : disk[e] = c
  BY <1>1, <1>2, <1>3 DEF PassOK
<1>5. /\ outbox'[d] = outbox[d] \ {c}
      /\ \A e \in Device : e # d => outbox'[e] = outbox[e]
      /\ pass'[d] = NoPass
      /\ \A e \in Device : e # d => pass'[e] = pass[e]
  BY <1>1, <1>2, <1>3
<1>6. \A e \in Device, x \in Content : Awaited(e, x)' <=> Awaited(e, x)
  BY <1>1 DEF Awaited
<1>7. Moves(s, s)
  BY <1>1, <1>6, StillMoves DEF counts
<1>8. ASSUME ~misjudged, Awaited(d, c) PROVE FALSE
  <2>1. s[c] = 0
    <3>1. inbox[d] \in Seq(GoodCommand(d, s))
      BY DEF Inv, QueuesOK
    <3>2. PICK i \in 1 .. Len(inbox[d]) : IsUpload(inbox[d][i], c)
      BY <1>8 DEF Awaited, IsUpload
    <3>3. inbox[d][i] \in GoodCommand(d, s)
      BY <3>1, <3>2, ElementOfSeq
    <3> QED
      BY <3>2, <3>3, GoodFields DEF IsUpload, Uploads
  <2>2. Needed(c, s)
    BY <1>8, <2>1 DEF Needed
  <2>3. PICK e \in Device : disk[e] = c
    BY <1>4, <1>8, <2>2
  <2>4. c \in recorded[e]
    BY <1>2, <2>3, TransfersAssumption DEF RowOK
  <2> QED
    BY <1>2, <2>1, <2>4 DEF RowOK
<1>9. OwnedOK(s)'
  <2>1. \A e \in Device, x \in Content : Has(e, x)' => Has(e, x)
    BY <1>5, <1>6 DEF Has
  <2>2. ASSUME NEW e \in Device, NEW x \in Content, Awaited(e, x)', ~misjudged'
        PROVE  x \in outbox'[e]
    <3>1. x \in outbox[e] /\ Awaited(e, x) /\ ~misjudged
      BY <1>1, <1>2, <1>6, <2>2 DEF OwnedOK
    <3> QED
      BY <1>5, <1>8, <3>1
  <2> QED
    BY <1>1, <1>2, <1>5, <2>1, <2>2 DEF OwnedOK, counts, catalog
<1>10. \A e \in Device : PassOK(e, s)'
  BY <1>5, <1>7, PassStays
<1>11. ASSUME NEW x \in Content, s[x] > 0, ~misjudged'
       PROVE  Past(x, s)' \/ \E e \in Device : Answers(e, x)'
  <2>1. ASSUME NEW e \in Device, x \in outbox[e]
        PROVE  x \in outbox'[e] \/ ~Needed(x, s)' \/ \E b \in Device : disk'[b] = x
    <3>1. CASE e = d /\ x = c
      <4>1. ~Needed(c, s) \/ \E b \in Device : disk'[b] = c
        BY <1>1, <1>4, <1>11
      <4> QED
        BY <1>1, <3>1, <4>1, SameNeeded DEF catalog, counts
    <3>2. CASE ~(e = d /\ x = c)
      BY <1>5, <2>1, <3>2
    <3> QED
      BY <3>1, <3>2
  <2> QED
    BY <1>7, <1>11, <2>1, SurvivorStays
<1>12. KeptOK(s)'
  BY <1>10, <1>11 DEF KeptOK
<1> QED
  BY <1>1, <1>9, <1>12, PassLeaves

LEMMA StutterKeeps == ASSUME NEW s, Inv(s), TypeOK', UNCHANGED vars PROVE Inv(s)'
<1>1. UNCHANGED <<catalog, bytes, inbox, pull, pass, session, wire, counts, misjudged, lost>>
  BY DEF vars
<1>2. OwnedOK(s)'
  BY <1>1, SameOwned DEF bytes, counts, catalog
<1>3. \A d \in Device, c \in Content : Awaited(d, c)' => Awaited(d, c)
  BY <1>1 DEF Awaited
<1>4. Moves(s, s)
  BY <1>1, <1>3, StillMoves DEF counts, bytes
<1>5. \A d \in Device : PassOK(d, s)'
  BY <1>1, <1>4, PassStays DEF bytes
<1>6. ASSUME NEW x \in Content, s[x] > 0, ~misjudged'
      PROVE  Past(x, s)' \/ \E e \in Device : Answers(e, x)'
  BY <1>1, <1>4, <1>6, SurvivorStays DEF bytes
<1>7. KeptOK(s)'
  BY <1>5, <1>6 DEF KeptOK
<1> QED
  BY <1>1, <1>2, <1>7, PassLeaves DEF bytes

\* The writer.
LEMMA WriteKeeps ==
    ASSUME NEW s, Inv(s), TypeOK', NEW d \in Device, Write(d)
    PROVE  \E t \in Stamping : Inv(t)'
<1>1. PICK m : m = Head(inbox[d])
  OBVIOUS
<1>2. s \in Stamping
  BY DEF Inv, Stamped
<1>3. CASE WriteUpload(d)
  BY <1>3, WriteUploadKeeps
<1>4. CASE WriteVersion(d)
  BY <1>1, <1>2, <1>4, WriteVersionKeeps
<1>5. CASE WriteDeletion(d)
  BY <1>1, <1>2, <1>5, WriteDeletionKeeps
<1>6. CASE WriteBytes(d)
  BY <1>2, <1>6, WriteBytesKeeps
<1>7. CASE Sweep(d)
  BY <1>2, <1>7, SweepKeeps
<1> QED
  BY <1>3, <1>4, <1>5, <1>6, <1>7 DEF Write

LEMMA InvKept ==
    ASSUME NEW s, Inv(s), Reuse = FALSE, [Next]_vars
    PROVE  \E t \in Stamping : Inv(t)'
<1>1. TypeOK' /\ s \in Stamping
  BY TypesKept DEF Inv, Stamped
<1>2. ASSUME NEW d \in Acting, Delete(d) \/ \E c \in Content : Upload(d, c) PROVE Inv(s)'
  <2>1. d \in Device
    BY TransfersAssumption
  <2> QED
    BY <1>1, <1>2, <2>1, DeleteKeeps, UploadKeeps
<1>3. ASSUME NEW d \in Device, ReleasePass(d) PROVE Inv(s)'
  BY <1>1, <1>3, JudgeKeeps, ProbeKeeps, ReleaseKeeps DEF ReleasePass
<1>4. ASSUME NEW l \in Ends, Session(l[1], l[2]) PROVE Inv(s)'
  <2>1. l[1] \in Device /\ l[2] \in Device /\ <<l[1], l[2]>> \in Ends
    BY TwoEnds DEF Ends
  <2> QED
    BY <1>1, <1>4, <2>1, ReceiveKeeps, StartReceiveKeeps, TakeDoneKeeps DEF Session
<1>5. ASSUME NEW d \in Device, NEW c \in Content, Transfer(d, c) \/ TimeOut(d, c)
      PROVE  Inv(s)'
  BY <1>1, <1>5, TransferKeeps
<1>6. ASSUME NEW link \in Tree, Connect(link) PROVE Inv(s)'
  BY <1>1, <1>6, ConnectKeeps
<1>7. ASSUME (\E link \in Tree : Disconnect(link)) \/ (\E d \in Device : Crash(d))
      PROVE  Inv(s)'
  BY <1>1, <1>7, BreakKeeps
<1>8. ASSUME NEW d \in Device, Write(d) PROVE \E t \in Stamping : Inv(t)'
  BY <1>1, <1>8, WriteKeeps
<1>9. ASSUME UNCHANGED vars PROVE Inv(s)'
  BY <1>1, <1>9, StutterKeeps
<1>10. \/ \E d \in Acting : Delete(d) \/ \E c \in Content : Upload(d, c)
       \/ \E d \in Device : Write(d) \/ ReleasePass(d) \/ Crash(d)
       \/ \E d \in Device, c \in Content : Transfer(d, c) \/ TimeOut(d, c)
       \/ \E l \in Ends : Session(l[1], l[2])
       \/ \E link \in Tree : Connect(link) \/ Disconnect(link)
       \/ UNCHANGED vars
  BY DEF Next
<1> QED
  BY <1>1, <1>2, <1>3, <1>4, <1>5, <1>6, <1>7, <1>8, <1>9, <1>10

LEMMA InitInv == ASSUME Init, Holder # {} PROVE \E s \in Stamping : Inv(s)
<1>1. Original \in Content /\ None \notin Content
  BY TransfersAssumption DEF Original
<1>2. TypeOK
  BY InitTypes
<1>3. PICK shared \in BOOLEAN :
        /\ recorded = [d \in Device |-> IF shared THEN {Original} ELSE {}]
        /\ latest = [d \in Device |->
                        IF shared THEN [content |-> Original, at |-> 1] ELSE Unknown]
        /\ disk = [d \in Device |-> IF shared /\ d \in Holder THEN Original ELSE None]
        /\ used = IF shared THEN {Original} ELSE {}
  BY DEF Init
<1>4. PICK s : s = [c \in Content |-> IF shared /\ c = Original THEN 1 ELSE 0]
  OBVIOUS
<1>5. /\ deleted = [d \in Device |-> 0] /\ outbox = [d \in Device |-> {}]
      /\ inbox = [d \in Device |-> <<>>] /\ wire = [l \in Ends |-> <<>>]
      /\ pull = [d \in Device |-> [c \in Content |-> Idle]]
      /\ pass = [d \in Device |-> NoPass] /\ clock = 1
      /\ asked = [l \in Ends |-> {}] /\ done = [l \in Ends |-> {}]
  BY DEF Init
<1>6. Stamped(s)
  BY <1>3, <1>4, <1>5 DEF Stamped, Stamping
<1>7. ASSUME NEW d \in Device PROVE RowOK(d, s)
  <2>1. CASE shared
    BY <1>1, <1>3, <1>4, <1>5, <2>1 DEF RowOK, Known
  <2>2. CASE ~shared
    BY <1>3, <1>5, <2>2 DEF RowOK, Known, Unknown
  <2> QED
    BY <2>1, <2>2
<1>8. QueuesOK(s)
  BY <1>5, EmptyMeans, EmptySeq DEF QueuesOK
<1>9. OrdersOK(s)
  BY <1>5 DEF OrdersOK, PullOK
<1>10. \A d \in Device, c \in Content : ~Has(d, c)
  BY <1>5, EmptyMeans, AwaitedIs DEF Has
<1>11. OwnedOK(s)
  BY <1>5, <1>10 DEF OwnedOK, Has
<1>12. KeptOK(s)
  <2>1. \A d \in Device : PassOK(d, s)
    BY <1>5 DEF PassOK, NoPass
  <2>2. ASSUME NEW c \in Content, s[c] > 0 PROVE \E e \in Device : Answers(e, c)
    <3>1. shared /\ c = Original
      BY <1>4, <2>2
    <3>2. PICK h \in Holder : h \in Device
      BY TransfersAssumption
    <3> QED
      BY <1>3, <3>1, <3>2 DEF Answers
  <2> QED
    BY <2>1, <2>2 DEF KeptOK
<1>13. ASSUME NEW d \in Holder PROVE Served(d)
  <2>1. d \in Device
    BY TransfersAssumption
  <2>2. CASE shared
    BY <1>3, <2>1, <2>2 DEF Served
  <2>3. CASE ~shared
    BY <1>3, <2>1, <2>3 DEF Served, Live, Known, Unknown
  <2> QED
    BY <2>2, <2>3
<1>14. s \in Stamping
  BY <1>6 DEF Stamped
<1> QED
  BY <1>2, <1>6, <1>7, <1>8, <1>9, <1>11, <1>12, <1>13, <1>14 DEF Inv

IInv == \E s \in Stamping : Inv(s)

LEMMA Inductive == ASSUME Reuse = FALSE, Holder # {} PROVE Spec => []IInv
<1>1. Init => IInv
  BY InitInv DEF IInv
<1>2. IInv /\ [Next]_vars => IInv'
  BY InvKept DEF IInv
<1> QED
  BY <1>1, <1>2, PTL DEF Spec

\* The bytes of the newest version are on some disk or in some outbox, whatever
\* the release passes drop.
THEOREM LatestNeverLost ==
    ASSUME Reuse = FALSE, Holder # {} PROVE Spec => []LatestSurvives
<1>1. ASSUME NEW s, Inv(s), ~misjudged, NEW d \in Device, Newest(latest[d])
      PROVE  \E e \in Device : Answers(e, latest[d].content)
  <2> DEFINE c == latest[d].content
  <2>1. c \in Content /\ s[c] = latest[d].at /\ s[c] > 0
    BY <1>1 DEF Inv, TypeOK, RowOK, Newest, Known
  <2>2. ~Past(c, s)
    BY <1>1, <2>1, Numbers DEF Past, Newest
  <2> QED
    BY <1>1, <2>1, <2>2 DEF Inv, KeptOK
<1>2. IInv => LatestSurvives
  BY <1>1 DEF IInv, LatestSurvives
<1> QED
  BY <1>2, Inductive, PTL

\* When all is connected and done, a device whose directory takes the file has its
\* latest bytes, unless a pull of them was lost and none has been made since.
THEOREM QuietIsDelivered == ASSUME Reuse = FALSE PROVE Spec => []QuietDelivered
<1>1. ASSUME NEW s, Inv(s), Quiet, NEW d \in Holder, Live(d), ~lost[d]
      PROVE  disk[d] = latest[d].content
  <2> DEFINE c == latest[d].content
  <2>1. d \in Device /\ c \in Content
    BY <1>1, TransfersAssumption DEF Inv, TypeOK, Live
  <2>2. /\ inbox[d] = <<>> /\ pull[d][c] = Idle
        /\ \A l \in Ends : asked[l] = {} /\ done[l] = {}
    BY <1>1, <2>1 DEF Quiet
  <2>3. ~Brought(d, c) /\ ~ToPull(d, c)
    BY <2>2, EmptyMeans DEF Brought, ToPull
  <2> QED
    BY <1>1, <2>3 DEF Inv, Served
<1>2. IInv => QuietDelivered
  BY <1>1 DEF IInv, QuietDelivered
<1>3. CASE Holder # {}
  BY <1>2, <1>3, Inductive, PTL
<1>4. CASE Holder = {}
  <2>1. QuietDelivered
    BY <1>4 DEF QuietDelivered
  <2> QED
    BY <2>1, PTL
<1> QED
  BY <1>3, <1>4
====

----------------------------- MODULE ChunkRelay -----------------------------
(***************************************************************************)
(* One chunk of one version, asked for along the tree of devices           *)
(* (tagsyd/src/peer/relay, peer/session.rs, peer/fetch.rs).                *)
(*                                                                         *)
(* A device that needs the chunk asks its neighbours; one that does not    *)
(* have it asks its other neighbours in turn, and remembers in a table who *)
(* waits for the chunk and whom it has asked.  Whoever asks while an entry *)
(* is there joins it.  Data ends an entry at once, a miss only when every  *)
(* neighbour asked has missed; a link that drops is pruned from the table, *)
(* and an entry expires after HOP_TIMEOUT.                                 *)
(*                                                                         *)
(* The neighbours to ask are chosen before the table is locked.  The chunk *)
(* relay and the preview relay are two instances of the same table.        *)
(***************************************************************************)
EXTENDS Naturals, Sequences, FiniteSets

CONSTANTS
    Node,
    Tree,        \* the configured links, as pairs {m, n} of devices
    Holders,     \* the sets of devices that may hold the version
    Request,     \* local requests: receives, fetches and probes
    Home,        \* [Request -> Node], where each is made
    Toward,      \* [Request -> SUBSET Node], {} to ask every neighbour
    MaxBreaks,   \* how often links break
    Timeouts,    \* replies may take longer than HOP_TIMEOUT
    Eager        \* a new session may begin before the old one is pruned

ASSUME RelayAssumption ==
    /\ Tree \subseteq SUBSET Node
    /\ \A l \in Tree : Cardinality(l) = 2
    /\ Holders \subseteq SUBSET Node
    /\ Node \cap Request = {}
    /\ Home \in [Request -> Node]
    /\ Toward \in [Request -> SUBSET Node]
    /\ MaxBreaks \in Nat
    /\ Timeouts \in BOOLEAN /\ Eager \in BOOLEAN

VARIABLES
    holds,     \* the devices that answer for the version
    linked,    \* the links whose socket is alive
    slot,      \* {<<n, m>>}: n has an outbound sender to m
    pruning,   \* {<<n, m>>}: n's session with m has ended, its prune is due
    wire,      \* [Ends -> Seq(Frame)], frames on their way
    table,     \* [Node -> Entry]
    routing,   \* requests whose targets are chosen, not yet in the table
    outcome,   \* [Request -> Outcome]
    breaks,
    upset      \* a link has broken, or someone has lost patience

vars == <<holds, linked, slot, pruning, wire, table, routing, outcome, breaks, upset>>

Ends == {e \in Node \X Node : {e[1], e[2]} \in Tree}

Frame == {"request", "data", "miss"}

Outcome == {"idle", "waiting", "data", "miss", "gone"}

\* A waiter is a neighbour or a local request.
Waiter == Node \cup Request

\* Who waits, and how often each has joined.  The code keeps a list; the
\* answer goes to all of it at once, so the order of the list shows nowhere.
Entry == [downstream : [Waiter -> Nat], upstream : SUBSET Node]

Nobody == [w \in Waiter |-> 0]

NoEntry == [downstream |-> Nobody, upstream |-> {}]

Pending(n) == table[n] # NoEntry

Routing == [at : Node, waiter : Waiter, targets : SUBSET Node, live : SUBSET Node]

Init == /\ holds \in Holders
        /\ linked = Tree
        /\ slot = Ends
        /\ pruning = {}
        /\ wire = [e \in Ends |-> <<>>]
        /\ table = [n \in Node |-> NoEntry]
        /\ routing = {}
        /\ outcome = [r \in Request |-> "idle"]
        /\ breaks = 0
        /\ upset = FALSE

-----------------------------------------------------------------------------
(***************************************************************************)
(* Sending.  A frame for a neighbour that is not in the directory, or      *)
(* whose socket is dead, is lost.                                          *)
(***************************************************************************)
Peers(n) == {m \in Node : <<n, m>> \in slot}

Put(w, n, ms, frame) ==
    [e \in Ends |-> IF e[1] = n /\ e[2] \in ms /\ {e[1], e[2]} \in linked
                    THEN Append(w[e], frame) ELSE w[e]]

\* n's entry ends: every waiter gets the answer, each as often as it joined.
Resolve(w, n, waiters, frame) ==
    /\ table' = [table EXCEPT ![n] = NoEntry]
    /\ wire' = [e \in Ends |->
                  IF e[1] = n /\ e \in slot /\ {e[1], e[2]} \in linked
                  THEN w[e] \o [i \in 1..waiters[e[2]] |-> frame]
                  ELSE w[e]]
    /\ outcome' = [r \in Request |->
                     IF outcome[r] = "waiting" /\ waiters[r] > 0
                     THEN frame ELSE outcome[r]]

-----------------------------------------------------------------------------
(***************************************************************************)
(* Requests.                                                               *)
(***************************************************************************)
\* A directed request goes to its direction if that neighbour is connected,
\* otherwise, and if it has none, to every neighbour.
LocalTargets(r) ==
    LET preferred == Toward[r] \cap Peers(Home[r])
    IN  IF preferred # {} THEN preferred ELSE Peers(Home[r])

RequestChunkFromPeers(r) ==
    /\ outcome[r] = "idle"
    /\ LET targets == LocalTargets(r) IN
       IF targets = {}
       THEN outcome' = [outcome EXCEPT ![r] = "miss"] /\ UNCHANGED routing
       ELSE /\ outcome' = [outcome EXCEPT ![r] = "waiting"]
            /\ routing' = routing \cup
                 {[at |-> Home[r], waiter |-> r, targets |-> targets, live |-> targets]}
    /\ UNCHANGED <<holds, linked, slot, pruning, wire, table, breaks, upset>>

\* The head of what m has sent to n, if n's session with m is free to read.
Reads(n, m, frame) ==
    /\ <<n, m>> \in slot
    /\ wire[<<m, n>>] # <<>> /\ Head(wire[<<m, n>>]) = frame
    /\ \A q \in routing : ~(q.at = n /\ q.waiter = m)

Taken(n, m) == [wire EXCEPT ![<<m, n>>] = Tail(@)]

ReadRequest(n, m) ==
    /\ Reads(n, m, "request")
    /\ LET targets == Peers(n) \ {m} IN
       \/ /\ n \in holds
          /\ wire' = Put(Taken(n, m), n, {m}, "data")
          /\ UNCHANGED routing
       \/ /\ n \notin holds /\ targets = {}
          /\ wire' = Put(Taken(n, m), n, {m}, "miss")
          /\ UNCHANGED routing
       \/ /\ n \notin holds /\ targets # {}
          /\ wire' = Taken(n, m)
          /\ routing' = routing \cup
               {[at |-> n, waiter |-> m, targets |-> targets, live |-> targets]}
    /\ UNCHANGED <<holds, linked, slot, pruning, table, outcome, breaks, upset>>

\* Seeded mistake: a second request takes the place of the first.
EnqueueOver(q) ==
    /\ routing' = routing \ {q}
    /\ table' = [table EXCEPT ![q.at] = [downstream |-> [Nobody EXCEPT ![q.waiter] = 1], upstream |-> q.targets]]
    /\ wire' = Put(wire, q.at, q.live, "request")
    /\ UNCHANGED <<holds, linked, slot, pruning, outcome, breaks, upset>>

\* Under the table's lock: join the entry, or make one and ask the targets
\* through the senders that were there when they were chosen.
Enqueue(q) ==
    /\ routing' = routing \ {q}
    /\ \/ /\ Pending(q.at)
          /\ table' = [table EXCEPT ![q.at].downstream[q.waiter] = @ + 1]
          /\ UNCHANGED wire
       \/ /\ ~Pending(q.at)
          /\ table' = [table EXCEPT ![q.at] =
                          [downstream |-> [Nobody EXCEPT ![q.waiter] = 1], upstream |-> q.targets]]
          /\ wire' = Put(wire, q.at, q.live, "request")
    /\ UNCHANGED <<holds, linked, slot, pruning, outcome, breaks, upset>>

-----------------------------------------------------------------------------
(***************************************************************************)
(* Answers.                                                                *)
(***************************************************************************)
\* The first data ends the entry; data that comes later finds none.
HandleData(n, m) ==
    /\ Reads(n, m, "data")
    /\ Resolve(Taken(n, m), n, table[n].downstream, "data")
    /\ UNCHANGED <<holds, linked, slot, pruning, routing, breaks, upset>>

\* Seeded mistake: the first miss ends the entry.
HandleMissAtOnce(n, m) ==
    /\ Reads(n, m, "miss")
    /\ Resolve(Taken(n, m), n, table[n].downstream, "miss")
    /\ UNCHANGED <<holds, linked, slot, pruning, routing, breaks, upset>>

HandleMiss(n, m) ==
    /\ Reads(n, m, "miss")
    /\ LET left == table[n].upstream \ {m} IN
       IF left = {}
       THEN Resolve(Taken(n, m), n, table[n].downstream, "miss")
       ELSE /\ table' = [table EXCEPT ![n].upstream = left]
            /\ wire' = Taken(n, m)
            /\ UNCHANGED outcome
    /\ UNCHANGED <<holds, linked, slot, pruning, routing, breaks, upset>>

\* Seeded mistake: the entry goes and nobody is told.
ExpireSilently(n) ==
    /\ Timeouts /\ Pending(n)
    /\ table' = [table EXCEPT ![n] = NoEntry]
    /\ upset' = TRUE
    /\ UNCHANGED <<holds, linked, slot, pruning, wire, routing, outcome, breaks>>

\* The timer armed when the entry was made.
Expire(n) ==
    /\ Timeouts /\ Pending(n)
    /\ Resolve(wire, n, table[n].downstream, "miss")
    /\ upset' = TRUE
    /\ UNCHANGED <<holds, linked, slot, pruning, routing, breaks>>

\* A receive gives up, for want of another chunk say, and its reply channel
\* closes; its waiter stays in the table.
Abandon(r) ==
    /\ Timeouts /\ outcome[r] = "waiting"
    /\ outcome' = [outcome EXCEPT ![r] = "gone"]
    /\ upset' = TRUE
    /\ UNCHANGED <<holds, linked, slot, pruning, wire, table, routing, breaks>>

-----------------------------------------------------------------------------
(***************************************************************************)
(* Links.                                                                  *)
(***************************************************************************)
Break(l) ==
    /\ l \in linked /\ breaks < MaxBreaks
    /\ linked' = linked \ {l}
    /\ wire' = [e \in Ends |-> IF {e[1], e[2]} = l THEN <<>> ELSE wire[e]]
    /\ breaks' = breaks + 1
    /\ upset' = TRUE
    /\ UNCHANGED <<holds, slot, pruning, table, routing, outcome>>

\* n's session notices; it has dealt with the frame in hand.
TearDown(n, m) ==
    /\ <<n, m>> \in slot /\ {n, m} \notin linked
    /\ \A q \in routing : ~(q.at = n /\ q.waiter = m)
    /\ slot' = slot \ {<<n, m>>}
    /\ pruning' = pruning \cup {<<n, m>>}
    /\ routing' = {IF q.at = n THEN [q EXCEPT !.live = @ \ {m}] ELSE q : q \in routing}
    /\ UNCHANGED <<holds, linked, wire, table, outcome, breaks, upset>>

\* n's entry without m.  Local waiters whose channel is closed go with it.
Pruned(n, m) ==
    [downstream |-> [w \in Waiter |->
                       IF w # m /\ (w \in Request => outcome[w] = "waiting")
                       THEN table[n].downstream[w] ELSE 0],
     upstream |-> table[n].upstream \ {m}]

\* Seeded mistake: an entry whose last upstream was the link stays.
PruneDownstreamOnly(n, m) ==
    /\ <<n, m>> \in pruning
    /\ pruning' = pruning \ {<<n, m>>}
    /\ LET entry == Pruned(n, m)
       IN  IF entry.downstream = Nobody
           THEN Resolve(wire, n, entry.downstream, "miss")
           ELSE /\ table' = [table EXCEPT ![n] = entry]
                /\ UNCHANGED <<wire, outcome>>
    /\ UNCHANGED <<holds, linked, slot, routing, breaks, upset>>

PruneLink(n, m) ==
    /\ <<n, m>> \in pruning
    /\ pruning' = pruning \ {<<n, m>>}
    /\ LET entry == Pruned(n, m)
       IN  IF entry.downstream = Nobody \/ entry.upstream = {}
           THEN Resolve(wire, n, entry.downstream, "miss")
           ELSE /\ table' = [table EXCEPT ![n] = entry]
                /\ UNCHANGED <<wire, outcome>>
    /\ UNCHANGED <<holds, linked, slot, routing, breaks, upset>>

Connect(l) ==
    /\ l \in Tree \ linked
    /\ \A e \in Ends : {e[1], e[2]} = l => e \notin slot /\ (Eager \/ e \notin pruning)
    /\ linked' = linked \cup {l}
    /\ slot' = slot \cup {e \in Ends : {e[1], e[2]} = l}
    /\ UNCHANGED <<holds, pruning, wire, table, routing, outcome, breaks, upset>>

-----------------------------------------------------------------------------
Next == \/ \E r \in Request : RequestChunkFromPeers(r) \/ Abandon(r)
        \/ \E q \in routing : Enqueue(q)
        \/ \E n \in Node : Expire(n)
        \/ \E e \in Ends : \/ ReadRequest(e[1], e[2]) \/ HandleData(e[1], e[2])
                           \/ HandleMiss(e[1], e[2])
                           \/ TearDown(e[1], e[2]) \/ PruneLink(e[1], e[2])
        \/ \E l \in Tree : Break(l) \/ Connect(l)

Spec == Init /\ [][Next]_vars

\* The timers fire, and a request that is being made is made.
FairSpec == /\ Spec
            /\ \A n \in Node : WF_vars(Expire(n))
            /\ WF_vars(\E q \in routing : Enqueue(q))

-----------------------------------------------------------------------------
TypeOK == /\ holds \subseteq Node
          /\ linked \subseteq Tree
          /\ slot \subseteq Ends /\ pruning \subseteq Ends
          /\ wire \in [Ends -> Seq(Frame)]
          /\ table \in [Node -> Entry]
          /\ \A n \in Node : (table[n].downstream = Nobody) = (table[n].upstream = {})
          /\ routing \subseteq Routing
          /\ outcome \in [Request -> Outcome]
          /\ breaks \in 0..MaxBreaks
          /\ upset \in BOOLEAN

Joins(w, n) == \E q \in routing : q.at = n /\ q.waiter = w

WaitsAt(w, n) == Joins(w, n) \/ table[n].downstream[w] > 0

On(w, frames) == \E i \in DOMAIN w : w[i] \in frames

\* No local receive is forgotten: until it is answered or gives up it is in
\* its device's table or about to be.
NoWaiterLost == \A r \in Request : outcome[r] = "waiting" => WaitsAt(r, Home[r])

\* A device that waits for a neighbour over a live link is itself waited for:
\* its question or the answer is on the way, or it is in the neighbour's table.
\* Otherwise only the timer ends the wait, which prune_link is there to avoid.
NoOrphan ==
    ~upset => \A e \in Ends :
        LET m == e[1]  n == e[2] IN
        /\ {m, n} \in linked /\ e \in slot /\ <<n, m>> \in slot
        /\ e \notin pruning /\ n \in table[m].upstream
        => \/ On(wire[<<m, n>>], {"request"})
           \/ On(wire[<<n, m>>], {"data", "miss"})
           \/ WaitsAt(m, n)

\* fetch_via_relay: a fetch that asks everyone fails only if no reachable
\* device holds the version.  Refuted: whoever joins an entry another device's
\* question made is told the miss of an entry that left that device out.
MissMeansNowhere ==
    ~upset => \A r \in Request : outcome[r] = "miss" /\ Toward[r] = {} => holds \subseteq {Home[r]}

\* What is left of it when requests coalesce: an entry ends with a miss only
\* when every neighbour it asked has missed, so requests that ask everyone
\* may cut one another off from a holder, but not all of them.  Where no one
\* who asked holds the version and all are told a miss, nobody has it.
HolderIsFound ==
    LET made == {r \in Request : outcome[r] # "idle"} IN
    ~upset /\ made # {}
    /\ (\A r \in made : outcome[r] = "miss" /\ Toward[r] = {} /\ Home[r] \notin holds)
    => holds = {}

\* probe_availability: data means that a device other than this one holds it.
ProbeFindsAnother == \A r \in Request : outcome[r] = "data" => ~(holds \subseteq {Home[r]})

\* Every receive is answered in the end, were it by a timer.
EveryRequestEnds == \A r \in Request : outcome[r] = "waiting" ~> outcome[r] # "waiting"
=============================================================================

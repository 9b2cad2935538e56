-------------------------- MODULE ChunkRelayProofs --------------------------
(***************************************************************************)
(* No waiter is lost and nobody waits for a neighbour that forgot it, for  *)
(* any tree, any holders and any requests.                                 *)
(***************************************************************************)
EXTENDS ChunkRelay, SequenceTheorems, TLAPS

\* The part of TypeOK that the arguments rest on.
Typed == /\ wire \in [Ends -> Seq(Frame)]
         /\ table \in [Node -> Entry]
         /\ routing \subseteq Routing
         /\ outcome \in [Request -> Outcome]

\* Until something breaks every link is up, and whoever is about to ask asks
\* all the neighbours it has chosen.
Calm == ~upset => /\ linked = Tree /\ slot = Ends /\ pruning = {}
                  /\ \A q \in routing : q.live = q.targets

\* m's question to n is on its way, answered, or kept in mind.
Cared(m, n) == n \in table[m].upstream =>
                  \/ On(wire[<<m, n>>], {"request"})
                  \/ On(wire[<<n, m>>], {"data", "miss"})
                  \/ WaitsAt(m, n)

AllCared == ~upset => \A m, n \in Node : <<m, n>> \in Ends => Cared(m, n)

IInv == Typed /\ NoWaiterLost /\ Calm /\ AllCared

-----------------------------------------------------------------------------
\* Ends come in pairs.
LEMMA BothEnds ==
    ASSUME NEW m \in Node, NEW n \in Node, <<m, n>> \in Ends
    PROVE  <<n, m>> \in Ends /\ {m, n} \in Tree /\ {n, m} \in Tree
  <1>1. {n, m} = {m, n}
    OBVIOUS
  <1> QED  BY <1>1 DEF Ends

\* A frame stays where others are put behind it,
LEMMA OnAppend ==
    ASSUME NEW w \in Seq(Frame), NEW f \in Frame, NEW F
    PROVE  /\ Append(w, f) \in Seq(Frame)
           /\ On(w, F) => On(Append(w, f), F)
           /\ f \in F => On(Append(w, f), F)
  BY DEF On

\* and where another is taken from before it.
LEMMA OnTail ==
    ASSUME NEW w \in Seq(Frame), w # <<>>, NEW F
    PROVE  /\ Tail(w) \in Seq(Frame)
           /\ On(w, F) /\ Head(w) \notin F => On(Tail(w), F)
  <1>1. Tail(w) \in Seq(Frame) /\ Len(Tail(w)) = Len(w) - 1
        /\ \A i \in 1..Len(Tail(w)) : Tail(w)[i] = w[i + 1]
    BY HeadTailProperties
  <1>2. ASSUME NEW i \in DOMAIN w, w[i] \in F, Head(w) \notin F
        PROVE  On(Tail(w), F)
    <2>1. i \in 1..Len(w) /\ i # 1 /\ Len(w) \in Nat
      BY <1>2
    <2>2. i - 1 \in 1..Len(Tail(w)) /\ Tail(w)[i - 1] = w[i]
      BY <1>1, <2>1
    <2> QED  BY <1>1, <1>2, <2>2 DEF On
  <1> QED  BY <1>1, <1>2 DEF On

LEMMA OnConcat ==
    ASSUME NEW w \in Seq(Frame), NEW f \in Frame, NEW k \in Nat, NEW F
    PROVE  /\ w \o [i \in 1..k |-> f] \in Seq(Frame)
           /\ On(w, F) => On(w \o [i \in 1..k |-> f], F)
           /\ k > 0 /\ f \in F => On(w \o [i \in 1..k |-> f], F)
  <1> DEFINE s == [i \in 1..k |-> f]
  <1>1. s \in Seq(Frame) /\ Len(s) = k
    OBVIOUS
  <1> HIDE DEF s
  <1>2. /\ w \o s \in Seq(Frame) /\ Len(w \o s) = Len(w) + Len(s)
        /\ \A i \in 1..Len(w) + Len(s) :
              (w \o s)[i] = IF i <= Len(w) THEN w[i] ELSE s[i - Len(w)]
    BY <1>1, ConcatProperties
  <1>3. ASSUME On(w, F) PROVE On(w \o s, F)
    <2>1. PICK i \in DOMAIN w : w[i] \in F
      BY <1>3 DEF On
    <2>2. i \in 1..Len(w) + Len(s) /\ i <= Len(w)
      BY <1>1, <2>1
    <2> QED  BY <1>2, <2>1, <2>2 DEF On
  <1>4. ASSUME k > 0, f \in F PROVE On(w \o s, F)
    <2>1. Len(w) + 1 \in 1..Len(w) + Len(s) /\ s[1] = f /\ ~(Len(w) + 1 <= Len(w))
          /\ Len(w) + 1 - Len(w) = 1
      BY <1>1, <1>4 DEF s
    <2>2. (w \o s)[Len(w) + 1] = f
      BY <1>2, <2>1
    <2> QED  BY <1>2, <1>4, <2>1, <2>2 DEF On
  <1> QED  BY <1>2, <1>3, <1>4 DEF s

-----------------------------------------------------------------------------
(***************************************************************************)
(* What the helpers do to the wires.                                       *)
(***************************************************************************)
LEMMA PutKeeps ==
    ASSUME NEW w \in [Ends -> Seq(Frame)], NEW n, NEW ms, NEW f \in Frame
    PROVE  /\ Put(w, n, ms, f) \in [Ends -> Seq(Frame)]
           /\ \A e \in Ends : \A F : On(w[e], F) => On(Put(w, n, ms, f)[e], F)
  BY OnAppend DEF Put

LEMMA PutArrives ==
    ASSUME NEW w \in [Ends -> Seq(Frame)], NEW n \in Node, NEW ms, NEW f \in Frame,
           NEW m \in ms, <<n, m>> \in Ends, {n, m} \in linked, NEW F, f \in F
    PROVE  On(Put(w, n, ms, f)[<<n, m>>], F)
  BY OnAppend DEF Put

LEMMA TakenKeeps ==
    ASSUME Typed, NEW n \in Node, NEW m \in Node, <<m, n>> \in Ends,
           NEW f, Reads(n, m, f)
    PROVE  /\ Taken(n, m) \in [Ends -> Seq(Frame)]
           /\ \A e \in Ends : \A F : On(wire[e], F) /\ (e # <<m, n>> \/ f \notin F)
                                    => On(Taken(n, m)[e], F)
  <1>1. wire \in [Ends -> Seq(Frame)] /\ wire[<<m, n>>] \in Seq(Frame)
        /\ wire[<<m, n>>] # <<>> /\ Head(wire[<<m, n>>]) = f
    BY DEF Typed, Reads
  <1> QED  BY <1>1, OnTail DEF Taken

\* What Resolve does, for a bag of waiters.
LEMMA ResolveKeeps ==
    ASSUME Typed, NEW w \in [Ends -> Seq(Frame)], NEW n \in Node,
           NEW waiters \in [Waiter -> Nat], NEW f \in {"data", "miss"},
           Resolve(w, n, waiters, f)
    PROVE  /\ wire' \in [Ends -> Seq(Frame)]
           /\ table' \in [Node -> Entry]
           /\ outcome' \in [Request -> Outcome]
           /\ \A e \in Ends : \A F : On(w[e], F) => On(wire'[e], F)
           /\ \A m \in Node : <<n, m>> \in Ends /\ <<n, m>> \in slot /\ {n, m} \in linked
                 /\ waiters[m] > 0 => On(wire'[<<n, m>>], {"data", "miss"})
           /\ \A r \in Request : outcome'[r] = "waiting" =>
                 outcome[r] = "waiting" /\ ~(waiters[r] > 0)
  <1>1. f \in Frame /\ f \in Outcome /\ f # "waiting"
    BY DEF Frame, Outcome
  <1>2. ASSUME NEW e \in Ends PROVE waiters[e[2]] \in Nat
    BY DEF Ends, Waiter
  <1>3. wire' \in [Ends -> Seq(Frame)]
        /\ \A e \in Ends : \A F : On(w[e], F) => On(wire'[e], F)
    BY <1>1, <1>2, OnConcat DEF Resolve
  <1>4. table' \in [Node -> Entry]
    BY DEF Resolve, Typed, NoEntry, Nobody, Entry
  <1>5. outcome' \in [Request -> Outcome]
        /\ \A r \in Request : outcome'[r] = "waiting" =>
                 outcome[r] = "waiting" /\ ~(waiters[r] > 0)
    BY <1>1 DEF Resolve, Typed
  <1>6. ASSUME NEW m \in Node, <<n, m>> \in Ends, <<n, m>> \in slot, {n, m} \in linked,
               waiters[m] > 0
        PROVE  On(wire'[<<n, m>>], {"data", "miss"})
    <2>1. wire'[<<n, m>>] = w[<<n, m>>] \o [i \in 1..waiters[m] |-> f]
      BY <1>6 DEF Resolve
    <2>2. w[<<n, m>>] \in Seq(Frame) /\ waiters[m] \in Nat
      BY <1>6, <1>2
    <2>3. f \in {"data", "miss"} /\ waiters[m] > 0
      BY <1>6
    <2>4. On(w[<<n, m>>] \o [i \in 1..waiters[m] |-> f], {"data", "miss"})
      BY ONLY <1>1, <2>2, <2>3, OnConcat
    <2> QED  BY <2>1, <2>4
  <1> QED  BY <1>3, <1>4, <1>5, <1>6

-----------------------------------------------------------------------------
\* Nothing is asked for at first.
LEMMA InitHolds == Init => IInv
  <1> SUFFICES ASSUME Init PROVE IInv
    OBVIOUS
  <1>1. Typed
    BY DEF Init, Typed, NoEntry, Nobody, Entry, Outcome
  <1>2. NoWaiterLost /\ Calm
    BY DEF Init, NoWaiterLost, Calm
  <1>3. AllCared
    BY DEF Init, AllCared, Cared, NoEntry
  <1> QED  BY <1>1, <1>2, <1>3 DEF IInv

\* A request that is being made: it is in routing before anybody counts on it.
LEMMA RequestKeeps ==
    ASSUME IInv, NEW r \in Request, RequestChunkFromPeers(r)
    PROVE  IInv'
  <1> DEFINE q == [at |-> Home[r], waiter |-> r, targets |-> LocalTargets(r),
                   live |-> LocalTargets(r)]
  <1>1. q \in Routing
    BY RelayAssumption DEF Routing, Waiter, LocalTargets, Peers
  <1>2. /\ UNCHANGED <<linked, slot, pruning, wire, table, upset>>
        /\ \/ outcome' = [outcome EXCEPT ![r] = "miss"] /\ routing' = routing
           \/ outcome' = [outcome EXCEPT ![r] = "waiting"] /\ routing' = routing \cup {q}
    BY DEF RequestChunkFromPeers
  <1>3. q.live = q.targets /\ q.at = Home[r] /\ q.waiter = r
    OBVIOUS
  <1> HIDE DEF q
  <1>4. Typed'
    BY <1>1, <1>2 DEF IInv, Typed, Outcome, Entry, Waiter, Routing, Ends
  <1>5. \A w, n : WaitsAt(w, n) => WaitsAt(w, n)'
    BY <1>2 DEF WaitsAt, Joins
  <1>6. NoWaiterLost'
    <2> SUFFICES ASSUME NEW p \in Request, outcome'[p] = "waiting"
                 PROVE  WaitsAt(p, Home[p])'
      BY DEF NoWaiterLost
    <2>1. CASE p = r
      BY <1>2, <1>3, <2>1 DEF WaitsAt, Joins, IInv, Typed
    <2>2. CASE p # r
      BY <1>2, <1>5, <2>2 DEF IInv, Typed, NoWaiterLost
    <2> QED  BY <2>1, <2>2
  <1>7. Calm'
    BY <1>2, <1>3 DEF IInv, Calm
  <1>8. AllCared'
    BY <1>2, <1>5 DEF IInv, AllCared, Cared
  <1> QED  BY <1>4, <1>6, <1>7, <1>8 DEF IInv

\* A question that is read is answered at once or kept in mind.
LEMMA ReadRequestKeeps ==
    ASSUME IInv, NEW n \in Node, NEW m \in Node, <<n, m>> \in Ends, ReadRequest(n, m)
    PROVE  IInv'
  <1> DEFINE q == [at |-> n, waiter |-> m, targets |-> Peers(n) \ {m},
                   live |-> Peers(n) \ {m}]
  <1>1. q \in Routing
    BY DEF Routing, Waiter, Peers
  <1>2. /\ UNCHANGED <<linked, slot, pruning, table, outcome, upset>>
        /\ Reads(n, m, "request")
        /\ \/ \E f \in {"data", "miss"} :
                 wire' = Put(Taken(n, m), n, {m}, f) /\ routing' = routing
           \/ wire' = Taken(n, m) /\ routing' = routing \cup {q}
    BY DEF ReadRequest
  <1>3. q.live = q.targets /\ q.at = n /\ q.waiter = m
    OBVIOUS
  <1> HIDE DEF q
  <1>4. <<m, n>> \in Ends /\ {n, m} \in Tree
    BY BothEnds
  <1>5. /\ Taken(n, m) \in [Ends -> Seq(Frame)]
        /\ \A e \in Ends : \A F : On(wire[e], F) /\ (e # <<m, n>> \/ "request" \notin F)
                                 => On(Taken(n, m)[e], F)
    BY <1>2, <1>4, TakenKeeps DEF IInv
  <1>6. /\ wire' \in [Ends -> Seq(Frame)]
        /\ \A e \in Ends : \A F : On(wire[e], F) /\ (e # <<m, n>> \/ "request" \notin F)
                                 => On(wire'[e], F)
    <2>1. CASE wire' = Taken(n, m)
      BY <1>5, <2>1
    <2>2. ASSUME NEW f \in {"data", "miss"}, wire' = Put(Taken(n, m), n, {m}, f)
          PROVE  /\ wire' \in [Ends -> Seq(Frame)]
                 /\ \A e \in Ends : \A F : On(Taken(n, m)[e], F) => On(wire'[e], F)
      <3>1. f \in Frame
        BY DEF Frame
      <3>2. /\ Put(Taken(n, m), n, {m}, f) \in [Ends -> Seq(Frame)]
            /\ \A e \in Ends : \A F : On(Taken(n, m)[e], F)
                                     => On(Put(Taken(n, m), n, {m}, f)[e], F)
        BY ONLY <1>5, <3>1, PutKeeps
      <3> QED  BY <2>2, <3>2
    <2> QED  BY <1>2, <1>5, <2>1, <2>2
  <1>7. Typed'
    BY <1>1, <1>2, <1>6 DEF IInv, Typed, Outcome, Entry, Waiter, Routing, Ends
  <1>8. \A w, k : WaitsAt(w, k) => WaitsAt(w, k)'
    BY <1>2 DEF WaitsAt, Joins
  <1>9. NoWaiterLost'
    BY <1>2, <1>8 DEF IInv, NoWaiterLost
  <1>10. Calm'
    BY <1>2, <1>3 DEF IInv, Calm
  <1>11. AllCared'
    <2> SUFFICES ASSUME ~upset, NEW j \in Node, NEW k \in Node, <<j, k>> \in Ends
                 PROVE  Cared(j, k)'
      BY <1>2 DEF AllCared
    <2>1. Cared(j, k) /\ <<k, j>> \in Ends
      BY BothEnds DEF IInv, AllCared
    <2>2. CASE <<j, k>> = <<m, n>>
      <3>1. \/ On(wire'[<<n, m>>], {"data", "miss"}) \/ WaitsAt(m, n)'
        <4>1. CASE wire' = Taken(n, m) /\ routing' = routing \cup {q}
          BY <1>3, <4>1 DEF WaitsAt, Joins
        <4>2. ASSUME NEW f \in {"data", "miss"}, wire' = Put(Taken(n, m), n, {m}, f)
              PROVE  On(wire'[<<n, m>>], {"data", "miss"})
          <5>1. f \in Frame /\ {n, m} \in linked /\ m \in {m}
            BY <1>4 DEF IInv, Calm, Frame
          <5> QED  BY <1>5, <4>2, <5>1, PutArrives
        <4> QED  BY <1>2, <4>1, <4>2
      <3> QED  BY <2>2, <3>1 DEF Cared
    <2>3. CASE <<j, k>> # <<m, n>>
      <3>1. On(wire[<<j, k>>], {"request"}) => On(wire'[<<j, k>>], {"request"})
        BY <1>6, <2>3
      <3>2. On(wire[<<k, j>>], {"data", "miss"}) => On(wire'[<<k, j>>], {"data", "miss"})
        BY <1>6, <2>1
      <3> QED  BY <1>2, <1>8, <2>1, <3>1, <3>2 DEF Cared
    <2> QED  BY <2>2, <2>3
  <1> QED  BY <1>7, <1>9, <1>10, <1>11 DEF IInv

\* Under the lock one finds an entry to join or makes one.
LEMMA EnqueueKeeps ==
    ASSUME IInv, NEW q \in routing, Enqueue(q)
    PROVE  IInv'
  <1>1. /\ q \in Routing /\ q.at \in Node /\ q.waiter \in Waiter
        /\ q.targets \subseteq Node /\ q.live \subseteq Node
    BY DEF IInv, Typed, Routing
  <1>2. /\ routing' = routing \ {q}
        /\ UNCHANGED <<linked, slot, pruning, outcome, upset>>
        /\ \/ /\ Pending(q.at) /\ wire' = wire
              /\ table' = [table EXCEPT ![q.at].downstream[q.waiter] = @ + 1]
           \/ /\ ~Pending(q.at) /\ wire' = Put(wire, q.at, q.live, "request")
              /\ table' = [table EXCEPT ![q.at] =
                              [downstream |-> [Nobody EXCEPT ![q.waiter] = 1],
                               upstream |-> q.targets]]
    BY DEF Enqueue
  <1>3. /\ wire' \in [Ends -> Seq(Frame)]
        /\ \A e \in Ends : \A F : On(wire[e], F) => On(wire'[e], F)
    <2>1. "request" \in Frame /\ wire \in [Ends -> Seq(Frame)]
      BY DEF Frame, IInv, Typed
    <2>2. /\ Put(wire, q.at, q.live, "request") \in [Ends -> Seq(Frame)]
          /\ \A e \in Ends : \A F : On(wire[e], F)
                                   => On(Put(wire, q.at, q.live, "request")[e], F)
      BY ONLY <2>1, PutKeeps
    <2> QED  BY <1>2, <2>1, <2>2
  <1>4. \A n \in Node : table[n].downstream \in [Waiter -> Nat]
                        /\ table[n].upstream \subseteq Node /\ table[n] \in Entry
    BY DEF IInv, Typed, Entry
  <1>5. /\ table' \in [Node -> Entry]
        /\ table'[q.at].downstream[q.waiter] > 0
        /\ \A n \in Node, w \in Waiter :
              table[n].downstream[w] > 0 => table'[n].downstream[w] > 0
        /\ \A n \in Node : \/ table'[n].upstream = table[n].upstream
                           \/ /\ n = q.at /\ table'[n].upstream = q.targets
                              /\ wire' = Put(wire, q.at, q.live, "request")
    <2>1. CASE Pending(q.at)
      <3>1. table' = [table EXCEPT ![q.at].downstream[q.waiter] = @ + 1] 
        BY <1>2, <2>1
      <3>2. /\ table'[q.at] = [downstream |->
                  [table[q.at].downstream EXCEPT ![q.waiter] = @ + 1],
                  upstream |-> table[q.at].upstream]
            /\ \A n \in Node : n # q.at => table'[n] = table[n]
            /\ DOMAIN table' = Node
        <4>1. table \in [Node -> Entry] /\ table[q.at] \in Entry /\ q.at \in Node
          BY <1>1, <1>4 DEF IInv, Typed
        <4>2. PICK old \in Entry : old = table[q.at]
          BY <4>1
        <4>3. PICK new : new = [old EXCEPT !.downstream[q.waiter] = @ + 1]
          OBVIOUS
        <4>4. new = [downstream |-> [old.downstream EXCEPT ![q.waiter] = @ + 1],
                     upstream |-> old.upstream]
          BY <4>3 DEF Entry
        <4>5. table' = [table EXCEPT ![q.at] = new]
          BY <3>1, <4>2, <4>3
        <4> QED  BY <4>1, <4>2, <4>4, <4>5
      <3>3. table' \in [Node -> Entry]
        <4>1. [table[q.at].downstream EXCEPT ![q.waiter] = @ + 1] \in [Waiter -> Nat]
          BY <1>1, <1>4
        <4>2. table'[q.at] \in Entry
          BY <1>1, <1>4, <3>2, <4>1 DEF Entry
        <4>3. ASSUME NEW n \in Node PROVE table'[n] \in Entry
          BY <1>4, <3>2, <4>2
        <4> QED  BY <3>1, <4>3 DEF IInv, Typed
      <3>4. table'[q.at].downstream[q.waiter] > 0
        BY <1>1, <1>4, <3>2
      <3>5. \A n \in Node, w \in Waiter :
              table[n].downstream[w] > 0 => table'[n].downstream[w] > 0
        BY <1>1, <1>4, <3>2
      <3> QED  BY <3>2, <3>3, <3>4, <3>5
    <2>2. CASE ~Pending(q.at)
      <3>1. table' = [table EXCEPT ![q.at] =
                              [downstream |-> [Nobody EXCEPT ![q.waiter] = 1],
                               upstream |-> q.targets]]
            /\ wire' = Put(wire, q.at, q.live, "request")
        BY <1>2, <2>2
      <3>2. \A w \in Waiter : table[q.at].downstream[w] = 0
        BY <2>2 DEF Pending, NoEntry, Nobody
      <3> QED  BY <1>1, <1>4, <3>1, <3>2 DEF IInv, Typed, Entry, Nobody
    <2> QED  BY <2>1, <2>2
  <1>6. Typed'
    BY <1>2, <1>3, <1>5 DEF IInv, Typed, Outcome, Entry, Waiter, Routing, Ends
  <1>7. \A n \in Node, w \in Waiter : WaitsAt(w, n) => WaitsAt(w, n)'
    BY <1>2, <1>5 DEF WaitsAt, Joins
  <1>8. NoWaiterLost'
    BY <1>2, <1>7, RelayAssumption DEF IInv, NoWaiterLost, Waiter
  <1>9. Calm'
    BY <1>2 DEF IInv, Calm
  <1>10. AllCared'
    <2> SUFFICES ASSUME ~upset, NEW m \in Node, NEW n \in Node, <<m, n>> \in Ends
                 PROVE  Cared(m, n)'
      BY <1>2 DEF AllCared
    <2>1. Cared(m, n) /\ <<n, m>> \in Ends /\ {m, n} \in Tree /\ m \in Waiter
      BY BothEnds DEF IInv, AllCared, Waiter
    <2>2. CASE table'[m].upstream = table[m].upstream
      BY <1>3, <1>7, <2>1, <2>2 DEF Cared
    <2>3. CASE m = q.at /\ table'[m].upstream = q.targets
               /\ wire' = Put(wire, q.at, q.live, "request")
      <3>1. ASSUME n \in q.targets PROVE On(wire'[<<m, n>>], {"request"})
        <4>1. n \in q.live /\ {m, n} \in linked
          BY <2>1, <3>1 DEF IInv, Calm
        <4>2. wire \in [Ends -> Seq(Frame)] /\ "request" \in Frame
              /\ "request" \in {"request"}
          BY DEF IInv, Typed, Frame
        <4>3. On(Put(wire, m, q.live, "request")[<<m, n>>], {"request"})
          BY <4>1, <4>2, PutArrives
        <4> QED  BY <2>3, <4>3
      <3> QED  BY <2>3, <3>1 DEF Cared
    <2> QED  BY <1>5, <2>2, <2>3
  <1> QED  BY <1>6, <1>8, <1>9, <1>10 DEF IInv

\* An answer: whoever waits gets it, and the answered question is closed.
LEMMA ResolveCares ==
    ASSUME IInv, NEW n \in Node, NEW m \in Node, <<n, m>> \in Ends,
           NEW f \in {"data", "miss"}, Reads(n, m, f),
           Resolve(Taken(n, m), n, table[n].downstream, f),
           UNCHANGED <<linked, slot, pruning, routing, upset>>
    PROVE  IInv'
  <1>1. <<m, n>> \in Ends
    BY BothEnds
  <1>2. /\ Taken(n, m) \in [Ends -> Seq(Frame)]
        /\ \A e \in Ends : \A F : On(wire[e], F) /\ (e # <<m, n>> \/ f \notin F)
                                 => On(Taken(n, m)[e], F)
    BY <1>1, TakenKeeps DEF IInv
  <1>3. table[n].downstream \in [Waiter -> Nat] /\ Typed
    BY DEF IInv, Typed, Entry
  <1>4. /\ wire' \in [Ends -> Seq(Frame)]
        /\ table' \in [Node -> Entry]
        /\ outcome' \in [Request -> Outcome]
        /\ \A e \in Ends : \A F : On(Taken(n, m)[e], F) => On(wire'[e], F)
        /\ \A k \in Node : <<n, k>> \in Ends /\ <<n, k>> \in slot /\ {n, k} \in linked
              /\ table[n].downstream[k] > 0 => On(wire'[<<n, k>>], {"data", "miss"})
        /\ \A r \in Request : outcome'[r] = "waiting" =>
              outcome[r] = "waiting" /\ ~(table[n].downstream[r] > 0)
    BY <1>2, <1>3, ResolveKeeps
  <1>5. /\ table'[n] = NoEntry
        /\ \A k \in Node : k # n => table'[k] = table[k]
    BY DEF Resolve, IInv, Typed
  <1>6. Typed'
    BY <1>4 DEF IInv, Typed, Outcome, Entry, Waiter, Routing, Ends
  <1>7. NoWaiterLost'
    BY <1>4, <1>5, RelayAssumption DEF IInv, NoWaiterLost, WaitsAt, Joins
  <1>8. Calm'
    BY DEF IInv, Calm
  <1>9. AllCared'
    <2> SUFFICES ASSUME ~upset, NEW j \in Node, NEW k \in Node, <<j, k>> \in Ends,
                        k \in table'[j].upstream
                 PROVE  Cared(j, k)'
      BY DEF AllCared, Cared
    <2>1. Cared(j, k) /\ <<k, j>> \in Ends /\ {k, j} \in Tree
      BY BothEnds DEF IInv, AllCared
    <2>2. j # n /\ k \in table[j].upstream
      BY <1>5 DEF NoEntry
    <2>3. CASE On(wire[<<j, k>>], {"request"})
      <3>1. f \notin {"request"}
        OBVIOUS
      <3>2. On(Taken(n, m)[<<j, k>>], {"request"})
        BY <1>2, <2>3, <3>1
      <3>3. On(wire'[<<j, k>>], {"request"})
        BY <1>4, <3>2
      <3> QED  BY <3>3 DEF Cared
    <2>4. CASE On(wire[<<k, j>>], {"data", "miss"})
      <3>1. <<k, j>> # <<m, n>>
        BY <2>2
      <3>2. On(Taken(n, m)[<<k, j>>], {"data", "miss"})
        BY <1>2, <2>1, <2>4, <3>1
      <3>3. On(wire'[<<k, j>>], {"data", "miss"})
        BY <1>4, <2>1, <3>2
      <3> QED  BY <3>3 DEF Cared
    <2>5. CASE WaitsAt(j, k)
      <3>1. CASE Joins(j, k)
        BY <3>1 DEF Cared, WaitsAt, Joins
      <3>2. CASE table[k].downstream[j] > 0 /\ k # n
        BY <1>5, <3>2 DEF Cared, WaitsAt
      <3>3. CASE table[k].downstream[j] > 0 /\ k = n
        <4>1. <<n, j>> \in slot /\ {n, j} \in linked
          BY <2>1, <3>3 DEF IInv, Calm
        <4>2. On(wire'[<<n, j>>], {"data", "miss"})
          BY <1>4, <2>1, <3>3, <4>1
        <4> QED  BY <3>3, <4>2 DEF Cared
      <3> QED  BY <2>5, <3>1, <3>2, <3>3 DEF WaitsAt
    <2> QED  BY <2>1, <2>2, <2>3, <2>4, <2>5 DEF Cared
  <1> QED  BY <1>6, <1>7, <1>8, <1>9 DEF IInv

LEMMA HandleDataKeeps ==
    ASSUME IInv, NEW n \in Node, NEW m \in Node, <<n, m>> \in Ends, HandleData(n, m)
    PROVE  IInv'
  BY ResolveCares DEF HandleData

\* A miss that is not the last only closes the question it answers.
LEMMA HandleMissKeeps ==
    ASSUME IInv, NEW n \in Node, NEW m \in Node, <<n, m>> \in Ends, HandleMiss(n, m)
    PROVE  IInv'
  <1> DEFINE left == table[n].upstream \ {m}
  <1>1. CASE left = {}
    BY <1>1, ResolveCares DEF HandleMiss
  <1>2. CASE left # {}
    <2>1. /\ table' = [table EXCEPT ![n].upstream = left] /\ wire' = Taken(n, m)
          /\ UNCHANGED <<outcome, linked, slot, pruning, routing, upset>>
          /\ Reads(n, m, "miss")
      BY <1>2 DEF HandleMiss
    <2>2. <<m, n>> \in Ends
      BY BothEnds
    <2>3. /\ Taken(n, m) \in [Ends -> Seq(Frame)]
          /\ \A e \in Ends : \A F : On(wire[e], F) /\ (e # <<m, n>> \/ "miss" \notin F)
                                   => On(Taken(n, m)[e], F)
      BY <2>1, <2>2, TakenKeeps DEF IInv
    <2>4. /\ table' \in [Node -> Entry]
          /\ \A k \in Node : table'[k].downstream = table[k].downstream
          /\ \A k \in Node : k # n => table'[k].upstream = table[k].upstream
          /\ table'[n].upstream = left
      BY <2>1 DEF IInv, Typed, Entry
    <2>5. Typed'
      BY <2>1, <2>3, <2>4 DEF IInv, Typed, Outcome, Entry, Waiter, Routing, Ends
    <2>6. \A w, k \in Node : WaitsAt(w, k) => WaitsAt(w, k)'
      BY <2>1, <2>4 DEF WaitsAt, Joins
    <2>7. NoWaiterLost'
      BY <2>1, <2>4, RelayAssumption DEF IInv, NoWaiterLost, WaitsAt, Joins
    <2>8. Calm'
      BY <2>1 DEF IInv, Calm
    <2>9. AllCared'
      <3> SUFFICES ASSUME ~upset, NEW j \in Node, NEW k \in Node, <<j, k>> \in Ends,
                          k \in table'[j].upstream
                   PROVE  Cared(j, k)'
        BY <2>1 DEF AllCared, Cared
      <3>1. Cared(j, k) /\ <<k, j>> \in Ends
        BY BothEnds DEF IInv, AllCared
      <3>2. k \in table[j].upstream /\ <<k, j>> # <<m, n>>
        BY <2>4
      <3>3. On(wire[<<j, k>>], {"request"}) => On(wire'[<<j, k>>], {"request"})
        BY <2>1, <2>3
      <3>4. On(wire[<<k, j>>], {"data", "miss"}) => On(wire'[<<k, j>>], {"data", "miss"})
        BY <2>1, <2>3, <3>1, <3>2
      <3> QED  BY <2>6, <3>1, <3>2, <3>3, <3>4 DEF Cared
    <2> QED  BY <2>5, <2>7, <2>8, <2>9 DEF IInv
  <1> QED  BY <1>1, <1>2

\* Once something broke only the waiters count.
LEMMA UpsetSuffices ==
    ASSUME Typed', NoWaiterLost', upset'
    PROVE  IInv'
  BY DEF IInv, Calm, AllCared

LEMMA ExpireKeeps ==
    ASSUME IInv, NEW n \in Node, Expire(n)
    PROVE  IInv'
  <1>1. table[n].downstream \in [Waiter -> Nat] /\ wire \in [Ends -> Seq(Frame)] /\ Typed
    BY DEF IInv, Typed, Entry
  <1>2. Resolve(wire, n, table[n].downstream, "miss") /\ routing' = routing /\ upset'
    BY DEF Expire
  <1>3. /\ wire' \in [Ends -> Seq(Frame)]
        /\ table' \in [Node -> Entry]
        /\ outcome' \in [Request -> Outcome]
        /\ \A r \in Request : outcome'[r] = "waiting" =>
              outcome[r] = "waiting" /\ ~(table[n].downstream[r] > 0)
    BY <1>1, <1>2, ResolveKeeps
  <1>4. \A k \in Node : k # n => table'[k] = table[k]
    BY <1>2 DEF Resolve, IInv, Typed
  <1>5. Typed'
    BY <1>2, <1>3 DEF IInv, Typed, Outcome, Entry, Waiter, Routing, Ends
  <1>6. NoWaiterLost'
    BY <1>2, <1>3, <1>4, RelayAssumption DEF IInv, NoWaiterLost, WaitsAt, Joins
  <1> QED  BY <1>2, <1>5, <1>6, UpsetSuffices

LEMMA AbandonKeeps ==
    ASSUME IInv, NEW r \in Request, Abandon(r)
    PROVE  IInv'
  <1>1. Typed'
    BY DEF Abandon, IInv, Typed, Outcome, Entry, Waiter, Routing, Ends
  <1>2. NoWaiterLost'
    BY DEF Abandon, IInv, Typed, NoWaiterLost, WaitsAt, Joins
  <1> QED  BY <1>1, <1>2, UpsetSuffices DEF Abandon

LEMMA BreakKeeps ==
    ASSUME IInv, NEW l \in Tree, Break(l)
    PROVE  IInv'
  <1>0. wire' \in [Ends -> Seq(Frame)]
    <2>1. <<>> \in Seq(Frame)
      OBVIOUS
    <2> QED  BY <2>1 DEF Break, IInv, Typed
  <1>1. Typed'
    BY <1>0 DEF Break, IInv, Typed, Outcome, Entry, Waiter, Routing, Ends
  <1>2. NoWaiterLost'
    BY DEF Break, IInv, Typed, NoWaiterLost, WaitsAt, Joins
  <1> QED  BY <1>1, <1>2, UpsetSuffices DEF Break

\* No session ends before something broke.
LEMMA TearDownKeeps ==
    ASSUME IInv, NEW n \in Node, NEW m \in Node, <<n, m>> \in Ends, TearDown(n, m)
    PROVE  IInv'
  <1>1. upset'
    BY DEF TearDown, IInv, Calm, Ends
  <1>2. /\ routing' = {IF q.at = n THEN [q EXCEPT !.live = @ \ {m}] ELSE q : q \in routing}
        /\ UNCHANGED <<wire, table, outcome>>
    BY DEF TearDown
  <1>3. ASSUME NEW q \in routing
        PROVE  \E p \in routing' : p.at = q.at /\ p.waiter = q.waiter
    <2>1. q \in Routing
      BY DEF IInv, Typed
    <2> DEFINE p == IF q.at = n THEN [q EXCEPT !.live = @ \ {m}] ELSE q
    <2>2. p \in routing' /\ p.at = q.at /\ p.waiter = q.waiter
      BY <1>2, <2>1 DEF Routing
    <2> QED  BY <2>2
  <1>4. ASSUME NEW p \in routing' PROVE p \in Routing
    <2>1. PICK q \in routing : p = IF q.at = n THEN [q EXCEPT !.live = @ \ {m}] ELSE q
      BY <1>2
    <2>2. q \in Routing
      BY DEF IInv, Typed
    <2> QED  BY <2>1, <2>2 DEF Routing
  <1>5. Typed'
    BY <1>2, <1>4 DEF IInv, Typed, Outcome, Entry, Waiter, Routing, Ends
  <1>6. table' = table /\ outcome' = outcome
    BY <1>2
  <1>7. \A w, k : WaitsAt(w, k) => WaitsAt(w, k)'
    BY ONLY <1>3, <1>6 DEF WaitsAt, Joins
  <1>8. NoWaiterLost'
    BY ONLY IInv, <1>6, <1>7 DEF IInv, NoWaiterLost
  <1> QED  BY <1>1, <1>5, <1>8, UpsetSuffices

\* What is pruned has ended or is not on this device.
LEMMA PruneLinkKeeps ==
    ASSUME IInv, NEW n \in Node, NEW m \in Node, <<n, m>> \in Ends, PruneLink(n, m)
    PROVE  IInv'
  <1> DEFINE entry == Pruned(n, m)
  <1>1. upset' /\ routing' = routing
    BY DEF PruneLink, IInv, Calm
  <1>2. table[n] \in Entry /\ wire \in [Ends -> Seq(Frame)] /\ Typed
    BY DEF IInv, Typed
  <1>3. /\ entry \in Entry
        /\ entry.downstream \in [Waiter -> Nat]
        /\ \A r \in Request : outcome[r] = "waiting" =>
              entry.downstream[r] = table[n].downstream[r]
    BY <1>2, RelayAssumption DEF Pruned, Entry, Waiter
  <1>4. CASE Resolve(wire, n, entry.downstream, "miss")
    <2>1. /\ wire' \in [Ends -> Seq(Frame)]
          /\ table' \in [Node -> Entry]
          /\ outcome' \in [Request -> Outcome]
          /\ \A r \in Request : outcome'[r] = "waiting" =>
                outcome[r] = "waiting" /\ ~(entry.downstream[r] > 0)
      BY <1>2, <1>3, <1>4, ResolveKeeps
    <2>2. \A k \in Node : k # n => table'[k] = table[k]
      BY <1>4 DEF Resolve, IInv, Typed
    <2>3. Typed'
      BY <1>1, <2>1 DEF IInv, Typed, Outcome, Entry, Waiter, Routing, Ends
    <2>4. NoWaiterLost'
      BY <1>1, <1>3, <2>1, <2>2, RelayAssumption DEF IInv, NoWaiterLost, WaitsAt, Joins
    <2> QED  BY <1>1, <2>3, <2>4, UpsetSuffices
  <1>5. CASE table' = [table EXCEPT ![n] = entry] /\ UNCHANGED <<wire, outcome>>
    <2>1. Typed'
      BY <1>1, <1>3, <1>5 DEF IInv, Typed, Outcome, Entry, Waiter, Routing, Ends
    <2>2. table'[n] = entry /\ \A k \in Node : k # n => table'[k] = table[k]
      BY <1>5 DEF IInv, Typed
    <2>3. NoWaiterLost'
      BY <1>1, <1>3, <1>5, <2>2, RelayAssumption DEF IInv, NoWaiterLost, WaitsAt, Joins
    <2> QED  BY <1>1, <2>1, <2>3, UpsetSuffices
  <1> QED  BY <1>4, <1>5 DEF PruneLink

LEMMA ConnectKeeps ==
    ASSUME IInv, NEW l \in Tree, Connect(l)
    PROVE  IInv'
  <1>1. upset'
    BY DEF Connect, IInv, Calm
  <1>2. Typed'
    BY DEF Connect, IInv, Typed, Outcome, Entry, Waiter, Routing, Ends
  <1>3. NoWaiterLost'
    BY DEF Connect, IInv, NoWaiterLost, WaitsAt, Joins
  <1> QED  BY <1>1, <1>2, <1>3, UpsetSuffices

-----------------------------------------------------------------------------
LEMMA NextHolds == IInv /\ [Next]_vars => IInv'
  <1> SUFFICES ASSUME IInv, [Next]_vars PROVE IInv'
    OBVIOUS
  <1>1. CASE UNCHANGED vars
    BY <1>1 DEF vars, IInv, Typed, NoWaiterLost, Calm, AllCared, Cared, WaitsAt, Joins,
                Outcome, Entry, Waiter, Routing, Ends
  <1>2. ASSUME NEW r \in Request, RequestChunkFromPeers(r) \/ Abandon(r) PROVE IInv'
    BY <1>2, RequestKeeps, AbandonKeeps
  <1>3. ASSUME NEW q \in routing, Enqueue(q) PROVE IInv'
    BY <1>3, EnqueueKeeps
  <1>4. ASSUME NEW n \in Node, Expire(n) PROVE IInv'
    BY <1>4, ExpireKeeps
  <1>5. ASSUME NEW e \in Ends,
               \/ ReadRequest(e[1], e[2]) \/ HandleData(e[1], e[2])
               \/ HandleMiss(e[1], e[2])
               \/ TearDown(e[1], e[2]) \/ PruneLink(e[1], e[2])
        PROVE  IInv'
    <2>1. e[1] \in Node /\ e[2] \in Node /\ <<e[1], e[2]>> \in Ends
      BY DEF Ends
    <2> QED  BY <1>5, <2>1, ReadRequestKeeps, HandleDataKeeps, HandleMissKeeps,
                TearDownKeeps, PruneLinkKeeps
  <1>6. ASSUME NEW l \in Tree, Break(l) \/ Connect(l) PROVE IInv'
    BY <1>6, BreakKeeps, ConnectKeeps
  <1> QED  BY <1>1, <1>2, <1>3, <1>4, <1>5, <1>6 DEF Next

LEMMA IInvHolds == Spec => []IInv
  BY InitHolds, NextHolds, PTL DEF Spec

\* No local receive is forgotten: until it is answered or gives up it is in
\* its device's table or about to be, whatever breaks.
THEOREM NobodyIsLost == Spec => []NoWaiterLost
  <1>1. IInv => NoWaiterLost
    BY DEF IInv
  <1> QED  BY <1>1, IInvHolds, PTL

\* Until something breaks, a device that waits for a neighbour is waited for.
THEOREM NobodyIsOrphaned == Spec => []NoOrphan
  <1>1. IInv => NoOrphan
    <2> SUFFICES ASSUME IInv, ~upset, NEW e \in Ends, e[2] \in table[e[1]].upstream
                 PROVE  \/ On(wire[<<e[1], e[2]>>], {"request"})
                        \/ On(wire[<<e[2], e[1]>>], {"data", "miss"})
                        \/ WaitsAt(e[1], e[2])
      BY DEF NoOrphan
    <2>1. e[1] \in Node /\ e[2] \in Node /\ <<e[1], e[2]>> \in Ends
      BY DEF Ends
    <2> QED  BY <2>1 DEF IInv, AllCared, Cared
  <1> QED  BY <1>1, IInvHolds, PTL

=============================================================================

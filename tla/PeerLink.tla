------------------------------ MODULE PeerLink ------------------------------
(***************************************************************************)
(* The sessions a daemon has with one peer, the outbound slot they share,  *)
(* and the registry that tells the user interface whether the peer is      *)
(* connected (tagsyd/src/peer/session.rs, connections.rs).                 *)
(*                                                                         *)
(* Several sessions may exist at once: both sides dial each other, or a    *)
(* peer dials again while the old socket has not been noticed to be dead.  *)
(* Whatever the daemon sends to the peer of its own accord goes to the     *)
(* sender in the slot.  A session consists of a reader task and a writer   *)
(* task; the slot's sender is closed exactly when the writer has gone.     *)
(* The writer does everything in one loop, the watch for a silent peer     *)
(* included, so none of it happens while a send waits for the socket.      *)
(***************************************************************************)
EXTENDS Naturals, FiniteSets

CONSTANTS
    Session,     \* enough sessions; one that has ended may begin again
    NoSession    \* an empty slot

ASSUME SessionAssumption == IsFiniteSet(Session) /\ NoSession \notin Session

VARIABLES
    phase,       \* [Session -> Phase], how far the reader task is
    writer,      \* [Session -> {"off", "ready", "sending", "down"}], the
                 \* writer task; "ready" is waiting in its select
    dead,        \* sessions whose link_dead token is cancelled
    silent,      \* sessions whose peer sends nothing and takes nothing more
    owner,       \* sessions that installed their sender
    slot,        \* RuntimePeer.outbound and .commands, set in lockstep
    sessions,    \* Connections: the peer's reference count (0: no entry)
    pending,     \* [Session -> {"none", "connected", "disconnected"}]: an
                 \* event decided under the registry's lock, not yet sent
    view         \* the last event a subscriber has seen

vars == <<phase, writer, dead, silent, owner, slot, sessions, pending, view>>

Phase == {"idle", "opening", "running", "closing", "leaving", "ending"}

Init == /\ phase = [s \in Session |-> "idle"]
        /\ writer = [s \in Session |-> "off"]
        /\ dead = {}
        /\ silent = {}
        /\ owner = {}
        /\ slot = NoSession
        /\ sessions = 0
        /\ pending = [s \in Session |-> "none"]
        /\ view = "disconnected"

-----------------------------------------------------------------------------
(***************************************************************************)
(* The registry.  The count changes under the lock; the event follows      *)
(* after the lock is released.                                             *)
(***************************************************************************)
GoTo(s, p) == phase' = [phase EXCEPT ![s] = p]

Register(s) ==
    /\ phase[s] = "idle"
    /\ GoTo(s, "opening")
    /\ sessions' = sessions + 1
    /\ pending' = [pending EXCEPT ![s] = IF sessions = 0 THEN "connected" ELSE "none"]
    /\ UNCHANGED <<writer, dead, silent, owner, slot, view>>

\* The guard is dropped last of all, with the session's other state.
Release(s) ==
    /\ phase[s] = "leaving"
    /\ GoTo(s, "ending")
    /\ sessions' = sessions - 1
    /\ pending' = [pending EXCEPT ![s] = IF sessions = 1 THEN "disconnected" ELSE "none"]
    /\ writer' = [writer EXCEPT ![s] = "off"]
    /\ dead' = dead \ {s}
    /\ silent' = silent \ {s}
    /\ owner' = owner \ {s}
    /\ UNCHANGED <<slot, view>>

Announce(s) ==
    /\ pending[s] # "none"
    /\ view' = pending[s]
    /\ pending' = [pending EXCEPT ![s] = "none"]
    /\ UNCHANGED <<phase, writer, dead, silent, owner, slot, sessions>>

Return(s) ==
    /\ phase[s] = "ending" /\ pending[s] = "none"
    /\ GoTo(s, "idle")
    /\ UNCHANGED <<writer, dead, silent, owner, slot, sessions, pending, view>>

-----------------------------------------------------------------------------
(***************************************************************************)
(* The slot.                                                               *)
(***************************************************************************)
IsClosed(s) == writer[s] \in {"off", "down"}

SlotIsDead == slot = NoSession \/ IsClosed(slot)

\* The session installs its sender unless a live one is there; then it
\* receives only.  The writer task starts with its channel either way.
Install(s) ==
    /\ phase[s] = "opening" /\ pending[s] = "none"
    /\ GoTo(s, "running")
    /\ writer' = [writer EXCEPT ![s] = "ready"]
    /\ IF SlotIsDead THEN slot' = s /\ owner' = owner \cup {s}
                     ELSE UNCHANGED <<slot, owner>>
    /\ UNCHANGED <<dead, silent, sessions, pending, view>>

\* The database cannot be opened: the session never begins.
OpenFails(s) ==
    /\ phase[s] = "opening" /\ pending[s] = "none"
    /\ GoTo(s, "leaving")
    /\ UNCHANGED <<writer, dead, silent, owner, slot, sessions, pending, view>>

\* Seeded mistake: the reader leaves without telling its writer.
LinkClosesQuietly(s) ==
    /\ phase[s] = "running"
    /\ GoTo(s, "closing")
    /\ UNCHANGED <<writer, dead, silent, owner, slot, sessions, pending, view>>

\* The reader sees the socket close or fail, or the daemon shuts down; it
\* cancels the token its writer listens to.
LinkCloses(s) ==
    /\ phase[s] = "running"
    /\ GoTo(s, "closing")
    /\ dead' = dead \cup {s}
    /\ UNCHANGED <<writer, silent, owner, slot, sessions, pending, view>>

ReaderNotices(s) ==
    /\ phase[s] = "running" /\ s \in dead
    /\ GoTo(s, "closing")
    /\ UNCHANGED <<writer, dead, silent, owner, slot, sessions, pending, view>>

\* The network goes away, or the peer is suspended, without a word.
FallSilent(s) ==
    /\ phase[s] = "running" /\ s \notin silent
    /\ silent' = silent \cup {s}
    /\ UNCHANGED <<phase, writer, dead, owner, slot, sessions, pending, view>>

-----------------------------------------------------------------------------
(***************************************************************************)
(* The loop of the writer task (run_writer).                               *)
(***************************************************************************)
WriterMoves(s, w, d) ==
    /\ writer' = [writer EXCEPT ![s] = w]
    /\ dead' = d
    /\ UNCHANGED <<phase, silent, owner, slot, sessions, pending, view>>

\* A frame, a ping or a pong.
WriterSends(s) == writer[s] = "ready" /\ WriterMoves(s, "sending", dead)

SendReturns(s) == writer[s] = "sending" /\ WriterMoves(s, "ready", dead)

SendFails(s) == writer[s] = "sending" /\ WriterMoves(s, "down", dead \cup {s})

\* Seeded mistake: the writer gives up and the reader is not told.
TickStopsWriting(s) ==
    writer[s] = "ready" /\ s \in silent /\ WriterMoves(s, "down", dead)

\* The tick finds that nothing came in for LIVENESS_TIMEOUT.
TickFindsSilence(s) ==
    writer[s] = "ready" /\ s \in silent /\ WriterMoves(s, "down", dead \cup {s})

WriterStops(s) == writer[s] = "ready" /\ s \in dead /\ WriterMoves(s, "down", dead)

-----------------------------------------------------------------------------
(***************************************************************************)
(* The end of a session.                                                   *)
(***************************************************************************)
\* Seeded mistakes: an owner empties the slot whoever is in it; only a sender
\* that is still open is removed.
ClearWithoutIdentity(s) ==
    /\ phase[s] = "closing" /\ writer[s] = "down"
    /\ GoTo(s, "leaving")
    /\ slot' = IF s \in owner THEN NoSession ELSE slot
    /\ UNCHANGED <<writer, dead, silent, owner, sessions, pending, view>>

ClearWhileOpen(s) ==
    /\ phase[s] = "closing" /\ writer[s] = "down"
    /\ GoTo(s, "leaving")
    /\ slot' = IF s \in owner /\ slot = s /\ ~IsClosed(s) THEN NoSession ELSE slot
    /\ UNCHANGED <<writer, dead, silent, owner, sessions, pending, view>>

\* Having waited for its writer, a session empties the slot if the slot
\* still holds the sender it installed.
ClearOutboundIfOwned(s) ==
    /\ phase[s] = "closing" /\ writer[s] = "down"
    /\ GoTo(s, "leaving")
    /\ slot' = IF s \in owner /\ slot = s THEN NoSession ELSE slot
    /\ UNCHANGED <<writer, dead, silent, owner, sessions, pending, view>>

-----------------------------------------------------------------------------
Next == \E s \in Session :
            \/ Register(s) \/ Release(s) \/ Announce(s) \/ Return(s)
            \/ Install(s) \/ OpenFails(s)
            \/ LinkCloses(s) \/ ReaderNotices(s) \/ FallSilent(s)
            \/ WriterSends(s) \/ SendReturns(s) \/ SendFails(s)
            \/ TickFindsSilence(s) \/ WriterStops(s)
            \/ ClearOutboundIfOwned(s)

Spec == Init /\ [][Next]_vars

-----------------------------------------------------------------------------
(***************************************************************************)
(* What a session does by itself: the reader task goes on, the writer's    *)
(* select takes each ready branch in the end (it chooses at random), and a *)
(* send on a socket whose peer is alive returns.  Nothing makes or breaks  *)
(* a connection, and a send to a silent peer may wait for ever.            *)
(***************************************************************************)
ReaderStep(s) == \/ Announce(s) \/ Install(s) \/ ReaderNotices(s)
                 \/ ClearOutboundIfOwned(s) \/ Release(s) \/ Return(s)

SendEnds(s) == s \notin silent /\ (SendReturns(s) \/ SendFails(s))

FairSpec == /\ Spec
            /\ \A s \in Session : /\ WF_vars(ReaderStep(s))
                                  /\ WF_vars(SendEnds(s))
                                  /\ SF_vars(WriterStops(s))
                                  /\ SF_vars(TickFindsSilence(s))

-----------------------------------------------------------------------------
Held == {s \in Session : phase[s] \in {"opening", "running", "closing", "leaving"}}

TypeOK == /\ phase \in [Session -> Phase]
          /\ writer \in [Session -> {"off", "ready", "sending", "down"}]
          /\ dead \subseteq Session
          /\ silent \subseteq Session
          /\ owner \subseteq Session
          /\ slot \in Session \cup {NoSession}
          /\ sessions \in Nat
          /\ pending \in [Session -> {"none", "connected", "disconnected"}]
          /\ view \in {"connected", "disconnected"}

\* A session that installed its sender keeps the slot for as long as its
\* writer can send, whatever its siblings do: an old session that tears down
\* late never takes a newer sender away, and there are never two sessions
\* that both believe they send the peer's changes (clear_outbound_if_owned).
OwnerHoldsSlot == \A s \in owner : ~IsClosed(s) => slot = s

\* A session that has let go of the peer leaves no sender behind: changes are
\* never queued for a socket nobody will empty again.
NoStaleSender == slot # NoSession => phase[slot] \in {"running", "closing"}

\* The registry counts exactly the sessions that hold a guard, on every way
\* out of a session, so the peer is listed as long as one of them runs.
CountsSessions == sessions = Cardinality(Held)

\* A sender whose writer has gone does not stay in the slot.
DeadSlotFreed == \A s \in Session : (slot = s /\ writer[s] = "down") ~> slot # s

\* The reader waits for its writer and the writer for frames, but a session
\* that is over ends unless its peer has fallen silent.
TeardownEnds == \A s \in Session :
                    phase[s] = "closing" ~> (phase[s] = "idle" \/ s \in silent)

\* A peer that is silent for too long is given up, as long as no send is
\* waiting for it: the writer that finds out ends the reader, whose read would
\* otherwise never return (run_writer, link_dead).
SilenceNoticed == \A s \in Session :
                      s \in silent ~> (phase[s] # "running" \/ writer[s] = "sending")

\* What run_writer says: a peer that has been silent for too long is given up.
\* Refuted: the watch is kept by the loop that may be waiting in a send.
SilenceEnds == \A s \in Session : s \in silent ~> phase[s] # "running"

\* What forward_to_peers says: it sends to every connected peer.  Refuted: a
\* session that began while a sibling held the slot never claims it later,
\* so once that sibling ends the peer is connected and sent nothing.
PeerIsServed == (\E s \in Session : phase[s] = "running")
                   ~> (slot # NoSession \/ \A s \in Session : phase[s] # "running")

\* What connections.rs says: a subscriber sees one clean pair of events.
\* Refuted: the events are sent outside the lock and may swap, and then the
\* last event says disconnected while the peer is connected.
EventsSettle == (\A s \in Session : pending[s] = "none")
                   => (view = "connected" <=> sessions > 0)
=============================================================================

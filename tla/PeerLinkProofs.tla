--------------------------- MODULE PeerLinkProofs ---------------------------
(***************************************************************************)
(* The slot and the registry of a peer, for any number of sessions.        *)
(***************************************************************************)
EXTENDS PeerLink, FiniteSetTheorems, TLAPS

\* Who owns is on the way through a session, and the slot holds an owner.
OwnersRun == \A s \in owner : phase[s] \in {"running", "closing", "leaving"}

WritersRun == \A s \in Session : ~IsClosed(s) => phase[s] \in {"running", "closing"}

SlotOwned == slot # NoSession => slot \in owner

IInv == /\ TypeOK /\ OwnerHoldsSlot /\ NoStaleSender /\ CountsSessions
        /\ OwnersRun /\ WritersRun /\ SlotOwned

-----------------------------------------------------------------------------
\* Moving one session in or out of the set that holds a guard.
LEMMA HeldGrows ==
    ASSUME TypeOK, NEW s \in Session, s \notin Held, Held' = Held \cup {s}
    PROVE  Cardinality(Held') = Cardinality(Held) + 1
  <1>1. IsFiniteSet(Held)
    BY SessionAssumption, FS_Subset DEF Held
  <1> QED  BY <1>1, FS_AddElement

LEMMA HeldShrinks ==
    ASSUME TypeOK, NEW s \in Session, s \in Held, Held' = Held \ {s}
    PROVE  /\ Cardinality(Held') = Cardinality(Held) - 1
           /\ Cardinality(Held) \in Nat \ {0}
  <1>1. IsFiniteSet(Held)
    BY SessionAssumption, FS_Subset DEF Held
  <1>2. Held # {} /\ Cardinality(Held) \in Nat
    BY <1>1, FS_CardinalityType
  <1>3. Cardinality(Held) # 0
    BY <1>1, <1>2, FS_EmptySet
  <1> QED  BY <1>1, <1>2, <1>3, FS_RemoveElement

LEMMA InitHolds == Init => IInv
  <1> SUFFICES ASSUME Init PROVE IInv
    OBVIOUS
  <1>1. Held = {}
    BY DEF Init, Held
  <1>2. CountsSessions
    BY <1>1, FS_EmptySet DEF Init, CountsSessions
  <1> QED
    BY <1>2, SessionAssumption
    DEF Init, IInv, TypeOK, Phase, OwnerHoldsSlot, NoStaleSender, OwnersRun,
        WritersRun, SlotOwned, IsClosed

\* A step that leaves the guards alone leaves the count right.
LEMMA CountKept ==
    ASSUME CountsSessions, Held' = Held, sessions' = sessions
    PROVE  CountsSessions'
  BY DEF CountsSessions

-----------------------------------------------------------------------------
LEMMA RegisterKeeps ==
    ASSUME IInv, NEW s \in Session, Register(s)
    PROVE  IInv'
  <1> USE DEF IInv, Register, GoTo, IsClosed
  <1>1. TypeOK'
    BY DEF TypeOK, Phase
  <1>2. OwnerHoldsSlot' /\ OwnersRun' /\ WritersRun' /\ SlotOwned' /\ NoStaleSender'
    BY DEF TypeOK, OwnerHoldsSlot, OwnersRun, WritersRun, SlotOwned, NoStaleSender
  <1>3. s \notin Held /\ Held' = Held \cup {s}
    BY DEF TypeOK, Held
  <1>4. CountsSessions'
    BY <1>3, HeldGrows DEF CountsSessions
  <1> QED  BY <1>1, <1>2, <1>4

LEMMA ReleaseKeeps ==
    ASSUME IInv, NEW s \in Session, Release(s)
    PROVE  IInv'
  <1> USE DEF IInv, Release, GoTo, IsClosed
  <1>1. s \in Held /\ Held' = Held \ {s}
    BY DEF TypeOK, Held
  <1>2. CountsSessions' /\ sessions' \in Nat
    BY <1>1, HeldShrinks DEF CountsSessions
  <1>3. TypeOK'
    BY <1>2 DEF TypeOK, Phase
  <1>4. slot # s
    BY SessionAssumption DEF NoStaleSender
  <1>5. OwnerHoldsSlot' /\ OwnersRun' /\ WritersRun' /\ SlotOwned' /\ NoStaleSender'
    BY <1>4 DEF TypeOK, OwnerHoldsSlot, OwnersRun, WritersRun, SlotOwned, NoStaleSender
  <1> QED  BY <1>2, <1>3, <1>5

LEMMA InstallKeeps ==
    ASSUME IInv, NEW s \in Session, Install(s)
    PROVE  IInv'
  <1> USE DEF IInv, Install, GoTo, IsClosed
  <1>1. TypeOK'
    BY DEF TypeOK, Phase
  <1>2. Held' = Held
    BY DEF TypeOK, Held
  <1>3. CountsSessions'
    BY <1>2, CountKept
  <1>4. s \notin owner
    BY DEF OwnersRun
  <1>5. slot # s
    BY SessionAssumption DEF NoStaleSender
  <1>6. CASE SlotIsDead
    <2>1. \A t \in owner : IsClosed(t)
      BY <1>6, SessionAssumption DEF TypeOK, OwnerHoldsSlot, SlotIsDead
    <2>2. OwnerHoldsSlot'
      BY <1>6, <2>1 DEF TypeOK, OwnerHoldsSlot
    <2> QED
      BY <1>1, <1>3, <1>6, <2>2 DEF TypeOK, OwnersRun, WritersRun, SlotOwned, NoStaleSender
  <1>7. CASE ~SlotIsDead
    <2>1. OwnerHoldsSlot' /\ OwnersRun' /\ WritersRun' /\ SlotOwned' /\ NoStaleSender'
      BY <1>4, <1>5, <1>7
      DEF TypeOK, OwnerHoldsSlot, OwnersRun, WritersRun, SlotOwned, NoStaleSender
    <2> QED  BY <1>1, <1>3, <2>1
  <1> QED  BY <1>6, <1>7

LEMMA ClearKeeps ==
    ASSUME IInv, NEW s \in Session, ClearOutboundIfOwned(s)
    PROVE  IInv'
  <1> USE DEF IInv, ClearOutboundIfOwned, GoTo, IsClosed
  <1>1. TypeOK'
    BY DEF TypeOK, Phase
  <1>2. Held' = Held
    BY DEF TypeOK, Held
  <1>3. CountsSessions'
    BY <1>2, CountKept
  <1>4. slot' # s
    BY SessionAssumption DEF SlotOwned
  <1>5. OwnerHoldsSlot' /\ OwnersRun' /\ WritersRun' /\ SlotOwned' /\ NoStaleSender'
    BY <1>4 DEF TypeOK, OwnerHoldsSlot, OwnersRun, WritersRun, SlotOwned, NoStaleSender
  <1> QED  BY <1>1, <1>3, <1>5

\* The steps that touch neither the slot nor the count.
LEMMA OthersKeep ==
    ASSUME IInv, NEW s \in Session,
           \/ Announce(s) \/ Return(s) \/ OpenFails(s) \/ LinkCloses(s)
           \/ ReaderNotices(s) \/ FallSilent(s) \/ WriterSends(s)
           \/ SendReturns(s) \/ SendFails(s) \/ TickFindsSilence(s)
           \/ WriterStops(s)
    PROVE  IInv'
  <1> USE DEF IInv, Announce, Return, OpenFails, LinkCloses, ReaderNotices,
              FallSilent, WriterSends, SendReturns, SendFails,
              TickFindsSilence, WriterStops, WriterMoves, GoTo, IsClosed
  <1>1. TypeOK'
    BY DEF TypeOK, Phase
  <1>2. Held' = Held /\ sessions' = sessions
    BY DEF TypeOK, Held
  <1>3. CountsSessions'
    BY <1>2, CountKept
  <1>4. OwnersRun' /\ WritersRun' /\ SlotOwned'
    BY DEF TypeOK, OwnersRun, WritersRun, SlotOwned
  <1>5. OwnerHoldsSlot'
    BY DEF TypeOK, OwnerHoldsSlot
  <1>6. NoStaleSender'
    BY DEF TypeOK, NoStaleSender, SlotOwned, OwnersRun
  <1> QED  BY <1>1, <1>3, <1>4, <1>5, <1>6

LEMMA StepKeeps == IInv /\ [Next]_vars => IInv'
  <1> SUFFICES ASSUME IInv, [Next]_vars PROVE IInv'
    OBVIOUS
  <1>1. ASSUME NEW s \in Session, Register(s) PROVE IInv'
    BY <1>1, RegisterKeeps
  <1>2. ASSUME NEW s \in Session, Release(s) PROVE IInv'
    BY <1>2, ReleaseKeeps
  <1>3. ASSUME NEW s \in Session, Install(s) PROVE IInv'
    BY <1>3, InstallKeeps
  <1>4. ASSUME NEW s \in Session, ClearOutboundIfOwned(s) PROVE IInv'
    BY <1>4, ClearKeeps
  <1>5. ASSUME NEW s \in Session,
               \/ Announce(s) \/ Return(s) \/ OpenFails(s) \/ LinkCloses(s)
               \/ ReaderNotices(s) \/ FallSilent(s) \/ WriterSends(s)
               \/ SendReturns(s) \/ SendFails(s) \/ TickFindsSilence(s)
               \/ WriterStops(s)
        PROVE  IInv'
    BY <1>5, OthersKeep
  <1>6. CASE UNCHANGED vars
    BY <1>6 DEF vars, IInv, TypeOK, OwnerHoldsSlot, NoStaleSender, CountsSessions,
                Held, OwnersRun, WritersRun, SlotOwned, IsClosed
  <1> QED  BY <1>1, <1>2, <1>3, <1>4, <1>5, <1>6 DEF Next

-----------------------------------------------------------------------------
\* Every variable keeps to its range; in particular the reference count of
\* the registry never goes below zero (Connections::release subtracts one).
THEOREM TypeCorrect == Spec => []TypeOK
  <1>1. IInv => TypeOK
    BY DEF IInv
  <1> QED  BY <1>1, InitHolds, StepKeeps, PTL DEF Spec

\* At most one session can send the peer's changes, and a session that tears
\* down never takes the sender of another one away (clear_outbound_if_owned).
THEOREM OwnersHoldTheSlot == Spec => []OwnerHoldsSlot
  <1>1. IInv => OwnerHoldsSlot
    BY DEF IInv
  <1> QED  BY <1>1, InitHolds, StepKeeps, PTL DEF Spec

\* No sender outlives its session in the slot.
THEOREM SlotIsFresh == Spec => []NoStaleSender
  <1>1. IInv => NoStaleSender
    BY DEF IInv
  <1> QED  BY <1>1, InitHolds, StepKeeps, PTL DEF Spec

\* The registry counts the sessions that hold a guard.
THEOREM RegistryCounts == Spec => []CountsSessions
  <1>1. IInv => CountsSessions
    BY DEF IInv
  <1> QED  BY <1>1, InitHolds, StepKeeps, PTL DEF Spec
=============================================================================

------------------------------ MODULE LWWFile ------------------------------
(***************************************************************************)
(* What the catalog of one device promises about one file, whatever order  *)
(* changes reach it in: whether the file is there and where it is are two  *)
(* last-writer-wins registers, and a purge ends both.                      *)
(*                                                                         *)
(* The promise is void (lapsed) once the device has recorded a change that *)
(* it stamped older than what it already held, or was killed between two   *)
(* writes of one change.                                                   *)
(***************************************************************************)
EXTENDS Integers

VARIABLES
    presence,  \* "unknown", "live", "deleted" or "purged"
    decidedAt, \* the stamp the presence was decided by
    path,      \* the logical path
    pathAt,    \* the stamp it was set by
    lapsed     \* the promise no longer holds

vars == <<presence, decidedAt, path, pathAt, lapsed>>

Init == /\ presence = "unknown"
        /\ decidedAt = 0
        /\ pathAt = 0
        /\ lapsed = FALSE

\* First heard of: alive or as a tombstone, by a stamp.
Appear == /\ presence = "unknown"
          /\ presence' \in {"live", "deleted"}
          /\ decidedAt' > 0

\* A newer stamp for what holds already, or none.
Confirm == /\ presence' = presence
           /\ decidedAt' >= decidedAt
           /\ pathAt' = pathAt => path' = path
           /\ pathAt' >= pathAt

\* Only a strictly newer stamp turns a live file into a deleted one or back.
Overturn == /\ {presence, presence'} = {"live", "deleted"}
            /\ decidedAt' > decidedAt
            /\ <<path', pathAt'>> = <<path, pathAt>>

Purge == presence' = "purged"

Lapse == /\ presence # "purged"
         /\ lapsed'

Next == \/ /\ presence # "purged"
           /\ ~lapsed
           /\ ~lapsed'
           /\ Appear \/ Confirm \/ Overturn
        \/ Purge
        \/ Lapse

Spec == Init /\ [][Next]_vars
=============================================================================

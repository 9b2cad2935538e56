----------------------------- MODULE MCTransfers -----------------------------
(***************************************************************************)
(* Instances of Transfers for TLC.                                         *)
(***************************************************************************)
EXTENDS Transfers

CONSTANTS laptop, phone

Pair == {{laptop, phone}}
==============================================================================

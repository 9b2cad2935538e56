----------------------------- MODULE MCTagSync -----------------------------
(***************************************************************************)
(* Instances of TagSync for TLC.                                           *)
(***************************************************************************)
EXTENDS TagSync

CONSTANTS laptop, hub, phone, holiday, beach, photo

Pair  == {{laptop, phone}}
Chain == {{laptop, hub}, {hub, phone}}

PhotoOfHoliday == {<<holiday, beach, photo>>}
============================================================================

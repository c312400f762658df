-------------------------------- MODULE MCCore --------------------------------
(***************************************************************************)
(* A required and an optional rule set that have to share one download     *)
(* slot, with two sources each.                                            *)
(***************************************************************************)
EXTENDS CoreRuntime

CONSTANTS s1, s2

MCSets == {s1, s2}
MCOptional == {s2}
=============================================================================

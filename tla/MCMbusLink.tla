----------------------------- MODULE MCMbusLink -----------------------------
(* Instances of MbusLink for TLC. *)
EXTENDS MbusLink

CONSTANTS ui, control

OneMessage == {<<control, 1>>}
=============================================================================

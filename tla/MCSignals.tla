----------------------------- MODULE MCSignals ------------------------------
(***************************************************************************)
(* Two senders and one receiver, with counts below, at and above a limit   *)
(* of three queued signals, and both counts that are refused.  The senders *)
(* are alike, but liveness is checked: no symmetry.                        *)
(***************************************************************************)
EXTENDS Signals

MCSenders == {"first", "second"}
=============================================================================

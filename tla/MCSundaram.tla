----------------------------- MODULE MCSundaram -----------------------------
(* Three threads, for the barrier, and the first composites 9, 15, 21. *)
EXTENDS Sundaram
=============================================================================

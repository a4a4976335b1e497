--------------------------- MODULE MCEratosthenes ---------------------------
(* Two threads, and enough numbers for composites to be taken by mistake. *)
EXTENDS Eratosthenes
=============================================================================

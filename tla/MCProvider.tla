----------------------------- MODULE MCProvider -----------------------------
(* A finite instance of Provider for TLC.                                   *)
EXTENDS Provider
=============================================================================

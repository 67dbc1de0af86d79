------------------------------ MODULE MCSetup ------------------------------
(* A finite instance of Setup for TLC.                                      *)
EXTENDS Setup
=============================================================================

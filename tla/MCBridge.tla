------------------------------ MODULE MCBridge ------------------------------
(* The instance of Bridge for TLC.                                          *)
EXTENDS Bridge
=============================================================================

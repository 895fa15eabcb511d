-------------------------- MODULE MCSoftwareSerial --------------------------
(* The instance of SoftwareSerial for TLC.                                  *)
EXTENDS SoftwareSerial, TLC

Symmetry == Permutations(Ports)
=============================================================================

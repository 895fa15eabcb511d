------------------------------- MODULE MCWire -------------------------------
(***************************************************************************)
(* The instance of Wire for TLC.  Sending and receiving share nothing but  *)
(* the sketch's program counter, so a behaviour does one or the other.     *)
(***************************************************************************)
EXTENDS Wire

VARIABLE direction

MCInit == Init /\ direction \in {"send", "receive"}

MCNext ==
  /\ Next /\ UNCHANGED direction
  /\ direction = "send" => pc' # "readFrom" /\ UNCHANGED rxTurn
  /\ direction = "receive" => pc' # "begun" /\ UNCHANGED disturbed

MCSpec == MCInit /\ [][MCNext]_<<vars, direction>>
=============================================================================

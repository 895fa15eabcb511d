-------------------------------- MODULE MCCdc --------------------------------
(***************************************************************************)
(* The instance for TLC of the two sides of a CDC port: its endpoints      *)
(* (UsbSerial) and its line state, that leads to the bootloader and back   *)
(* (AutoReset).  They share no state: a behaviour is that of one of them,  *)
(* and of the endpoints in one direction, as these share only the endpoint *)
(* number and the configuration.                                           *)
(***************************************************************************)
EXTENDS UsbSerial, AutoReset

VARIABLE part

MCInit ==
  /\ Init /\ ResetInit /\ part \in {"send", "receive", "touch"}
  /\ part # "touch" => ~newBootloader /\ ~present

Endpoints ==
  /\ Next
  /\ part = "send" => pc' \notin {"read", "peek"} /\ hostSent' = 0
  /\ part = "receive" => pc' # "send"

MCNext ==
  \/ /\ part \in {"send", "receive"} /\ Endpoints
     /\ UNCHANGED <<resetVars, part>>
  \/ part = "touch" /\ ResetNext /\ UNCHANGED <<vars, part>>

\* Fairness, and that of ResetFairSpec.
Touch(A) == part = "touch" /\ A

MCSpec ==
  /\ MCInit /\ [][MCNext]_<<vars, resetVars, part>> /\ Fairness
  /\ WF_resetVars(Touch(Tick)) /\ WF_resetVars(Touch(WatchdogResets))
  /\ WF_resetVars(Touch(Decide)) /\ WF_resetVars(Touch(CountTimeout))
  /\ WF_resetVars(Touch(Leave)) /\ WF_resetVars(Touch(Unattached))
=============================================================================

-------------------------- MODULE MCHardwareSerial --------------------------
(***************************************************************************)
(* The instance of HardwareSerial for TLC.  A behaviour is that of one of  *)
(* two sketches: one that transmits to a silent peer, with interrupts on   *)
(* or off, and one that receives.  The two directions share nothing but    *)
(* UCSRB, which both sketches open and close.                              *)
(***************************************************************************)
EXTENDS HardwareSerialPort

VARIABLE direction

AllCalls == CallNames

ClosingCalls == {"begin", "end"}
CallsOf(d) == ClosingCalls \cup
  IF d = "transmit" THEN {"write", "flush", "availableForWrite"}
                    ELSE {"available", "peek", "read"}

MCInit == Init /\ direction \in {"transmit", "receive"}

MCNext ==
  /\ Next /\ UNCHANGED direction
  /\ call' \in CallsOf(direction)
  /\ direction = "transmit" => arrived' = 0
  /\ direction = "receive" => ie'

MCSpec ==
  /\ MCInit /\ [][MCNext]_<<vars, direction>>
  /\ WF_vars(SketchStep)
  /\ WF_vars(UdrEmptyInterrupt) /\ WF_vars(RxCompleteInterrupt)
  /\ WF_vars(LoadShift) /\ WF_vars(ShiftOut)
=============================================================================

----------------------------- MODULE SerialPort -----------------------------
(***************************************************************************)
(* What the transmit side of a serial port promises its one caller: a      *)
(* bounded FIFO between write() and the wire, and a flush() that returns   *)
(* only once the FIFO has run out on the wire.  Nothing here speaks of     *)
(* rings, registers or interrupts; HardwareSerial is shown to implement it. *)
(***************************************************************************)
EXTENDS Naturals, Sequences

CONSTANTS
  Byte,      \* what can be written
  Capacity   \* how many bytes can be on their way

VARIABLES
  caller,    \* the call in progress: "none", "write" or "flush"
  pending,   \* bytes accepted and not yet on the wire, oldest first
  wire       \* bytes the wire has carried

portVars == <<caller, pending, wire>>

PortInit == caller = "none" /\ pending = <<>> /\ wire = <<>>

StartCall(c) == caller = "none" /\ caller' = c /\ UNCHANGED <<pending, wire>>

\* write() takes the byte as soon as there is room for it.
Accept ==
  /\ caller = "write" /\ Len(pending) < Capacity
  /\ caller' = "none"
  /\ \E b \in Byte : pending' = Append(pending, b)
  /\ UNCHANGED wire

FlushReturn ==
  /\ caller = "flush" /\ pending = <<>>
  /\ caller' = "none" /\ UNCHANGED <<pending, wire>>

Transmit ==
  /\ pending # <<>>
  /\ wire' = Append(wire, Head(pending)) /\ pending' = Tail(pending)
  /\ UNCHANGED caller

PortNext == \/ StartCall("write") \/ StartCall("flush")
            \/ Accept \/ FlushReturn \/ Transmit

\* A caller that has started a call gets it served.
PortSpec ==
  /\ PortInit /\ [][PortNext]_portVars
  /\ WF_portVars(Accept) /\ WF_portVars(FlushReturn)
=============================================================================

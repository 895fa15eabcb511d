------------------------- MODULE HardwareSerialPort -------------------------
(***************************************************************************)
(* The transmit side of HardwareSerial implements SerialPort.              *)
(*                                                                         *)
(* The FIFO is the shift register, UDR and the ring, in that order.  A     *)
(* write() is served when its byte is in UDR or the head has moved past    *)
(* it; a flush() (and the flush() in end()) when it leaves its loop.       *)
(***************************************************************************)
EXTENDS HardwareSerial

AbstractCaller ==
  CASE pc \in {"write", "fastUdr", "wait", "store", "head"} -> "write"
    [] pc \in {"flushU0", "flushU", "flushT", "flushBody"}  -> "flush"
    [] OTHER                                                -> "none"

Port == INSTANCE SerialPort WITH
          Byte <- 1 .. MaxWrites, Capacity <- TxSize + 1,
          caller <- AbstractCaller, pending <- InFlight, wire <- line

\* Every run of the port with its interrupts and registers is a run of the
\* bounded FIFO, and every write() and flush() is served, with interrupts on or
\* off: TXC is never cleared after the last byte it was to report ("causing
\* flush() to hang"), and a write() that finds the ring full gets room.
ImplementsPort == Port!PortSpec
=============================================================================

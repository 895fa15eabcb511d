----------------------------- MODULE UsbSerial -----------------------------
(***************************************************************************)
(* The serial port over USB: the bulk endpoints of cores/arduino/          *)
(* USBCore.cpp and the class Serial_ of CDC.cpp above them.                *)
(*                                                                         *)
(* Three parties share an endpoint.  The sketch sends and receives; its    *)
(* accesses are made under LockEP, one action each, except flush(), which  *)
(* takes no lock.  The interrupts release a partly filled bank at every    *)
(* start of frame, answer control requests and follow resets.  The         *)
(* controller and the host are external: the controller holds Banks banks  *)
(* of EpSize bytes for each endpoint, the host takes and sends packets at  *)
(* its own pace, may stop for ever, and may reset and configure the device *)
(* again at any time.                                                      *)
(*                                                                         *)
(* Bytes are numbered in each direction from 0 to M - 1 and round again.   *)
(***************************************************************************)
EXTENDS Integers, Sequences, SequencesExt

CONSTANTS
  EpSize,    \* USB_EP_SIZE
  Banks,     \* 2 with endpoints of 64 bytes, 1 with endpoints of 16
  MaxSize,   \* bound: bytes of one write()
  Tries      \* the 250 waits of USB_Send()

ASSUME UsbAssumption ==
  {EpSize, Banks, MaxSize, Tries} \subseteq Nat \ {0}

VARIABLES
  configured,     \* _usbConfiguration is not 0
  enabled,        \* the controller's endpoints are
  resetPending,   \* EORSTI
  lineState,      \* _usbLineInfo.lineState > 0: the host has opened the port
  uenum,          \* the endpoint selected: UENUM
  fill, queue,    \* CDC_TX: the bank being filled; those released, in order
  outBanks,       \* CDC_RX: the banks received; the first is the CPU's
  peek_buffer,
  pc, len, n, tries, sendZlp,   \* write() in USB_Send(), and the other calls
  \* history
  written,        \* the next byte USB_Send() will take
  seen,           \* the next byte the host waits for
  open,           \* the host's transfer goes on: its last packet was full
  ended,          \* the last write() returned what it was given
  taken, hostSent,   \* the next byte of CDC_RX to be read, to be sent
  stale           \* peek_buffer was filled before the last reset

device == <<configured, enabled, resetPending, lineState>>
in == <<fill, queue, written, seen, open>>
out == <<outBanks, peek_buffer, taken, hostSent, stale>>
call == <<pc, len, n, tries, sendZlp, ended>>
vars == <<device, uenum, in, out, call>>

M == Banks * EpSize + 2
Plus(b, k) == (b + k) % M
From(b, k) == [i \in 1 .. k |-> Plus(b, i - 1)]
LeastOf(a, b) == IF a < b THEN a ELSE b

-----------------------------------------------------------------------------
(* The controller.                                                         *)

HasBank == enabled /\ Len(queue) < Banks
ReadWriteAllowed == HasBank /\ Len(fill) < EpSize

\* UEDATX and FIFOCON: a byte with no room for it is lost.
Fills(k) == IF HasBank
  THEN fill \o From(written, LeastOf(k, EpSize - Len(fill))) ELSE fill
ReleaseTX(f) ==
  IF HasBank THEN queue' = Append(queue, f) /\ fill' = <<>>
             ELSE UNCHANGED queue /\ fill' = f

Dropped ==
  /\ fill' = <<>> /\ queue' = <<>> /\ seen' = written /\ open' = FALSE
  /\ outBanks' = <<>> /\ taken' = hostSent /\ stale' = (peek_buffer >= 0)
  /\ ended' = FALSE

-----------------------------------------------------------------------------
(* Serial_::write() and USB_Send().                                        *)

Idle == pc = "idle"
Return(ok) ==
  /\ pc' = "idle" /\ len' = 0 /\ n' = 0 /\ tries' = 0 /\ sendZlp' = FALSE
  /\ ended' = ok

Write(size) ==
  /\ Idle
  /\ IF lineState
       THEN /\ pc' = "send" /\ len' = size /\ ended' = FALSE
            /\ UNCHANGED <<n, tries, sendZlp>>
       ELSE Return(FALSE)
  /\ UNCHANGED <<device, uenum, in, out>>

Send ==
  /\ pc = "send"
  /\ IF configured
       THEN pc' = "space" /\ tries' = Tries /\ UNCHANGED <<len, n, sendZlp, ended>>
       ELSE Return(FALSE)
  /\ UNCHANGED <<device, uenum, in, out>>

SendSpace == IF ReadWriteAllowed THEN EpSize - Len(fill) ELSE 0

TriesLeft_Kept == tries
TriesLeft == tries - 1

Space ==
  /\ pc = "space" /\ uenum' = "TX"
  /\ CASE SendSpace > 0 ->
            /\ pc' = "copy" /\ n' = LeastOf(SendSpace, len)
            /\ UNCHANGED <<len, tries, sendZlp, ended>>
       [] SendSpace = 0 /\ TriesLeft > 0 ->
            /\ pc' = "delay" /\ tries' = TriesLeft
            /\ UNCHANGED <<len, n, sendZlp, ended>>
       [] OTHER -> Return(FALSE)
  /\ UNCHANGED <<device, in, out>>

Delay ==
  /\ pc = "delay" /\ pc' = "space"
  /\ UNCHANGED <<device, uenum, in, out, len, n, tries, sendZlp, ended>>

\* "Frame may have been released by the SOF interrupt handler".
StillAllowed_Assumed == TRUE
StillAllowed == ReadWriteAllowed

\* A transfer whose last packet is full is ended by an empty one.
NeedsZlp_Never == FALSE
NeedsZlp == len = n

Copy ==
  /\ pc = "copy" /\ uenum' = "TX"
  /\ IF ~StillAllowed
       THEN pc' = "space" /\ UNCHANGED <<len, n, tries, sendZlp, ended, in>>
       ELSE
         LET full == Len(Fills(n)) = EpSize
             more == ~sendZlp /\ full /\ NeedsZlp
         IN  /\ written' = Plus(written, n)
             /\ IF sendZlp \/ full THEN ReleaseTX(Fills(n))
                                   ELSE fill' = Fills(n) /\ UNCHANGED queue
             /\ IF len = n /\ ~more
                  THEN Return(TRUE)
                  ELSE /\ pc' = "space" /\ len' = len - n /\ sendZlp' = more
                       /\ n' = 0 /\ UNCHANGED <<tries, ended>>
             /\ UNCHANGED <<seen, open>>
  /\ UNCHANGED <<device, out>>

-----------------------------------------------------------------------------
(* Serial_::flush(): USB_Flush() without a lock.  A control request served *)
(* between its steps leaves another endpoint selected.                     *)

FlushSelect ==
  /\ Idle /\ pc' = "flush" /\ uenum' = "TX"
  /\ UNCHANGED <<device, in, out, len, n, tries, sendZlp, ended>>

FlushCount ==
  /\ pc = "flush"
  /\ \E some \in IF uenum = "TX" THEN {fill # <<>>} ELSE BOOLEAN :
       pc' = IF some THEN "release" ELSE "idle"
  /\ UNCHANGED <<device, uenum, in, out, len, n, tries, sendZlp, ended>>

FlushRelease ==
  /\ pc = "release" /\ pc' = "idle"
  /\ IF uenum = "TX" THEN ReleaseTX(fill) ELSE UNCHANGED <<fill, queue>>
  /\ UNCHANGED <<device, uenum, out, written, seen, open, len, n, tries,
                 sendZlp, ended>>

-----------------------------------------------------------------------------
(* Serial_::read(), peek() and begin(), and USB_Recv().                    *)

Begin ==
  /\ Idle /\ peek_buffer' = -1 /\ stale' = FALSE
  /\ UNCHANGED <<device, uenum, in, outBanks, taken, hostSent, call>>

Goto(p) == pc' = p /\ UNCHANGED <<len, n, tries, sendZlp, ended>>

Read ==
  /\ Idle
  /\ IF peek_buffer >= 0
       THEN peek_buffer' = -1 /\ stale' = FALSE /\ UNCHANGED call
       ELSE Goto(IF configured THEN "read" ELSE "idle") /\ UNCHANGED <<peek_buffer, stale>>
  /\ UNCHANGED <<device, uenum, in, outBanks, taken, hostSent>>

Peek ==
  /\ Idle /\ peek_buffer < 0 /\ Goto(IF configured THEN "peek" ELSE "idle")
  /\ UNCHANGED <<device, uenum, in, out>>

\* "release empty buffer".
ReleasesRX_Never(bank) == FALSE
ReleasesRX(bank) == bank = <<>>

Recv ==
  /\ pc \in {"read", "peek"} /\ Goto("idle") /\ uenum' = "RX"
  /\ IF outBanks = <<>> \/ Head(outBanks) = <<>>
       THEN UNCHANGED out
       ELSE LET rest == Tail(Head(outBanks))
            IN  /\ outBanks' = IF ReleasesRX(rest) THEN Tail(outBanks)
                                 ELSE <<rest>> \o Tail(outBanks)
                /\ taken' = Plus(taken, 1)
                /\ peek_buffer' = IF pc = "peek" THEN Head(Head(outBanks)) ELSE -1
                /\ stale' = FALSE /\ UNCHANGED hostSent
  /\ UNCHANGED <<device, in>>

-----------------------------------------------------------------------------
(* The interrupts.                                                         *)

Flushes_WhenFull == Len(fill) = EpSize
Flushes == fill # <<>>

\* Start of frame: "Send a tx frame if found".
StartOfFrame ==
  /\ ~resetPending /\ uenum' = "TX"
  /\ IF Flushes THEN ReleaseTX(fill) ELSE UNCHANGED <<fill, queue>>
  /\ UNCHANGED <<device, out, call, written, seen, open>>

EndOfReset ==
  /\ resetPending /\ resetPending' = FALSE /\ configured' = FALSE /\ uenum' = "0"
  /\ UNCHANGED <<enabled, lineState, in, out, call>>

\* SET_CONFIGURATION, to a value other than 0: InitEndpoints() resets the banks.
SetConfiguration ==
  /\ ~resetPending /\ configured' = TRUE /\ enabled' = TRUE /\ uenum' = "TX"
  /\ Dropped
  /\ UNCHANGED <<resetPending, lineState, written, hostSent, peek_buffer,
                 pc, len, n, tries, sendZlp>>

LineState(l) ==
  /\ configured /\ ~resetPending /\ lineState' = l /\ uenum' = "0"
  /\ UNCHANGED <<configured, enabled, resetPending, in, out, call>>

-----------------------------------------------------------------------------
(* The host and the bus.                                                   *)

BusReset ==
  /\ resetPending' = TRUE /\ enabled' = FALSE /\ Dropped
  /\ UNCHANGED <<configured, lineState, uenum, written, hostSent, peek_buffer,
                 pc, len, n, tries, sendZlp>>

HostTakes ==
  /\ queue # <<>> /\ queue' = Tail(queue)
  /\ seen' = Plus(seen, Len(Head(queue)))
  /\ open' = (Len(Head(queue)) = EpSize)
  /\ UNCHANGED <<device, uenum, fill, written, out, call>>

\* The host sends no empty packet.
HostSends(k) ==
  /\ enabled /\ Len(outBanks) < Banks
  /\ outBanks' = Append(outBanks, From(hostSent, k))
  /\ hostSent' = Plus(hostSent, k)
  /\ UNCHANGED <<device, uenum, in, peek_buffer, taken, stale, call>>

-----------------------------------------------------------------------------
Init ==
  /\ configured = FALSE /\ enabled = FALSE /\ resetPending = FALSE
  /\ lineState = FALSE /\ uenum = "0"
  /\ fill = <<>> /\ queue = <<>> /\ written = 0 /\ seen = 0 /\ open = FALSE
  /\ outBanks = <<>> /\ peek_buffer = -1 /\ taken = 0 /\ hostSent = 0
  /\ stale = FALSE
  /\ pc = "idle" /\ len = 0 /\ n = 0 /\ tries = 0 /\ sendZlp = FALSE
  /\ ended = FALSE

Running ==
  \/ Send \/ Space \/ Delay \/ Copy \/ FlushCount \/ FlushRelease \/ Recv

Next ==
  \/ \E size \in 1 .. MaxSize : Write(size)
  \/ FlushSelect \/ Begin \/ Read \/ Peek \/ Running
  \/ StartOfFrame \/ EndOfReset \/ SetConfiguration
  \/ \E l \in BOOLEAN : LineState(l)
  \/ BusReset \/ HostTakes \/ \E k \in 1 .. EpSize : HostSends(k)

\* A call goes on; nothing makes the host do anything.
Fairness == WF_vars(Running)

Spec == Init /\ [][Next]_vars /\ Fairness

\* What a host that is awake does, with the port open: it starts a frame in
\* every millisecond, and takes what it finds.
HostFairness == WF_vars(StartOfFrame) /\ WF_vars(HostTakes)

-----------------------------------------------------------------------------
(* Properties.                                                             *)

TypeOK ==
  /\ Len(fill) <= EpSize /\ Len(queue) <= Banks /\ Len(outBanks) <= Banks
  /\ len \in 0 .. MaxSize /\ n \in 0 .. EpSize /\ tries \in 0 .. Tries
  /\ {written, seen, taken, hostSent} \subseteq 0 .. M - 1
  /\ uenum \in {"TX", "RX", "0"} /\ peek_buffer \in -1 .. M - 1
  /\ pc \in {"idle", "send", "space", "copy", "delay", "flush", "release",
             "read", "peek"}

InFlight == FlattenSeq(Append(queue, fill))
Received == FlattenSeq(outBanks)

\* Every byte USB_Send() has counted as sent and the host has not had is in a
\* bank, once and in its place, whatever the start-of-frame interrupt and an
\* unlocked flush() release between its steps.
SendInOrder ==
  /\ TypeOK
  /\ InFlight = From(seen, Len(InFlight))
  /\ written = Plus(seen, Len(InFlight))

\* After a write() that returned what it was given, once the host has taken
\* every packet its transfer is over: the last one was short or empty, so the
\* host does not wait for more.
TransferEnds ==
  Idle /\ ended /\ queue = <<>> /\ fill = <<>> => ~open

\* What the host has sent is read once and in order, the byte peek() holds
\* first, and an emptied bank never stays in front of one with bytes.
ReceiveInOrder ==
  /\ Received = From(taken, Len(Received))
  /\ hostSent = Plus(taken, Len(Received))
  /\ peek_buffer >= 0 /\ ~stale => taken = Plus(peek_buffer, 1)
  /\ \A i \in DOMAIN outBanks : outBanks[i] # <<>>

\* Once the bus is no longer reset, every call returns, even if the host takes
\* nothing and starts no frame: USB_Send() gives up.
CallsReturn == <>[]~resetPending => (~Idle ~> Idle)

\* If the host is awake and takes packets, every byte sent leaves for it with no
\* flush() and no further call: a start of frame lets it out.
Delivered ==
  HostFairness =>
    \A b \in 0 .. M - 1 :
      b \in ToSet(InFlight) ~> b \notin ToSet(InFlight)
=============================================================================

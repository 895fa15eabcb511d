-------------------------------- MODULE Twi --------------------------------
(***************************************************************************)
(* The two-wire driver, libraries/Wire/src/utility/twi.c: the blocking     *)
(* master calls of the sketch, the TWI_vect handler that advances a        *)
(* transfer by one bus event, and the time-outs and resets.                *)
(*                                                                         *)
(* The bus side is external: the TWI hardware, which holds the bus from    *)
(* the moment it raises TWINT until TWCR is written, the devices this node *)
(* talks to, and, when MultiMaster, other masters, which, when Addressed,  *)
(* may address this node.                                                  *)
(*                                                                         *)
(* Data are positions: the k-th byte of any transfer is k.  History: acked *)
(* and nacked say what the addressed device answered, given how many bytes *)
(* it sent, taken and replied what another master sent and got, delivered  *)
(* and supplied what the two callbacks were given and gave.                *)
(***************************************************************************)
EXTENDS Integers, Sequences

CONSTANTS
  BufLen,       \* TWI_BUFFER_LENGTH
  Byte,         \* the number of values of a uint8_t
  Calls,        \* the master calls the sketch makes, of {"write", "read"}
  Lengths,      \* the lengths it asks for
  Timeouts,     \* the settings of twi_setTimeoutInMicros()
  MultiMaster,  \* other masters share the bus
  Addressed,    \* and address this node
  MaxBytes      \* bound: bytes another master sends or takes at a time

NoTimeout == [on |-> FALSE, reset |-> FALSE]
TimeoutSettings == [on : BOOLEAN, reset : BOOLEAN]

ASSUME TwiAssumption ==
  /\ BufLen \in Nat \ {0} /\ Byte \in Nat /\ Byte > BufLen /\ MaxBytes \in Nat
  /\ Calls \subseteq {"write", "read"} /\ Lengths \subseteq 0 .. Byte - 1
  /\ Timeouts \subseteq TimeoutSettings /\ MultiMaster \in BOOLEAN
  /\ Addressed \in BOOLEAN

VARIABLES
  twi,        \* the driver's static variables, twi_ prefix left out
  hw,         \* TWCR, TWDR, TW_STATUS and what the hardware is doing
  bus,        \* "free", "us", "other": who is master; "addressed": other of us
  pc, call, len, data, ret,           \* the master call, its argument and result
  timeout, timed_out, expired,        \* settings, twi_timed_out_flag, this call
  acked, nacked, given, taken, replied, delivered, supplied   \* history

locals == <<pc, call, len, data, ret>>
master == <<acked, nacked, given>>
slave == <<taken, replied, delivered, supplied>>
vars == <<twi, hw, bus, locals, timeout, timed_out, expired, master, slave>>

Index == 0 .. BufLen - 1
Store(buffer, i, b) == IF i \in Index THEN [buffer EXCEPT ![i] = b] ELSE buffer
Prefix(buffer, n) == [k \in 1 .. n |-> buffer[k - 1]]
Positions(n) == [k \in 1 .. n |-> k]

TW_WRITE == 0
TW_READ == 1
NoCallback == <<0>>   \* no callback since this node was last addressed

-----------------------------------------------------------------------------
(* The hardware's side of TWCR.                                            *)

\* What the hardware goes on to do when TWINT is cleared after status s.
Resume(s, sta, sto) ==
  IF sta \/ sto THEN "idle"
  ELSE CASE s \in {"START", "REP_START"}                        -> "address"
         [] s \in {"MT_SLA_ACK", "MT_DATA_ACK"}                 -> "send"
         [] s \in {"MR_SLA_ACK", "MR_DATA_ACK"}                 -> "receive"
         [] s \in {"SR_SLA_ACK", "SR_ARB_LOST", "SR_DATA_ACK"}  -> "listen"
         [] s \in {"ST_SLA_ACK", "ST_ARB_LOST", "ST_DATA_ACK"}  -> "answer"
         [] OTHER                                               -> "idle"

\* A slave transfer goes on under a start requested meanwhile.
SlaveStatus == {"SR_SLA_ACK", "SR_ARB_LOST", "SR_DATA_ACK", "SR_DATA_NACK",
                "SR_STOP", "ST_SLA_ACK", "ST_ARB_LOST", "ST_DATA_ACK",
                "ST_DATA_NACK", "ST_LAST_DATA"}

\* A write of TWCR with TWINT and TWEN set.
Twcr(sta, sto, ea, ie) ==
  [hw EXCEPT !.twint = FALSE, !.sta = sta, !.ea = ea, !.ie = ie,
             !.doing = IF hw.twint
                       THEN Resume(hw.status, sta /\ hw.status \notin SlaveStatus,
                                   sto)
                       ELSE hw.doing]

Reply(ack) == Twcr(FALSE, FALSE, ack, TRUE)                    \* twi_reply()
ReplyWith(ack, byte) == [Reply(ack) EXCEPT !.dr = byte]

Released == IF bus = "us" THEN "free" ELSE bus

-----------------------------------------------------------------------------
(* The handler's helpers.                                                  *)

\* twi_handleTimeout() with reset: twi_disable(), twi_init() and the saved
\* bit rate and address.
InitDriver(d) == [d EXCEPT !.state = "READY", !.sendStop = TRUE,
                           !.inRepStart = FALSE]
InitHw == [hw EXCEPT !.doing = "idle", !.twint = FALSE, !.sta = FALSE,
                     !.ea = TRUE, !.ie = TRUE]

HandleTimeout(d, stuck) ==
  /\ timed_out' = TRUE
  /\ IF timeout.reset
     THEN /\ twi' = InitDriver(d) /\ hw' = InitHw
          /\ bus' = IF bus = "addressed" THEN "other" ELSE Released
     ELSE twi' = d /\ hw' = stuck /\ UNCHANGED bus

\* twi_stop(): the stop is executed, or, with a time-out set, is waited for
\* in vain; d is the driver so far.
StopDone(d) ==
  /\ twi' = [d EXCEPT !.state = "READY"]
  /\ hw' = Twcr(FALSE, TRUE, TRUE, TRUE) /\ bus' = Released
  /\ UNCHANGED timed_out
StopStuck(d) ==
  /\ timeout.on
  /\ HandleTimeout(d, [Twcr(FALSE, TRUE, TRUE, TRUE) EXCEPT !.doing = "stop"])
Stop(d) == StopDone(d) \/ StopStuck(d)

ReleaseBus(d) ==
  /\ twi' = [d EXCEPT !.state = "READY"] /\ hw' = Twcr(FALSE, FALSE, TRUE, TRUE)

\* The start of the next transfer, with the interrupt off until its address.
RepStart_StaysBusy(d) ==
  /\ twi' = [d EXCEPT !.inRepStart = TRUE]
  /\ hw' = Twcr(TRUE, FALSE, FALSE, FALSE) /\ UNCHANGED <<bus, timed_out>>
RepStart(d) ==
  /\ twi' = [d EXCEPT !.inRepStart = TRUE, !.state = "READY"]
  /\ hw' = Twcr(TRUE, FALSE, FALSE, FALSE) /\ UNCHANGED <<bus, timed_out>>

EndTransfer(d) == IF d.sendStop THEN Stop(d) ELSE RepStart(d)

-----------------------------------------------------------------------------
(* ISR(TWI_vect), one action per case.                                     *)

Interrupt(statuses) == hw.twint /\ hw.ie /\ hw.status \in statuses
IsrFrame == UNCHANGED <<locals, timeout, expired, master>>

IsrStart ==
  /\ Interrupt({"START", "REP_START"}) /\ IsrFrame
  /\ hw' = ReplyWith(TRUE, twi.slarw)
  /\ UNCHANGED <<twi, bus, timed_out, slave>>

IsrMasterSend ==
  /\ Interrupt({"MT_SLA_ACK", "MT_DATA_ACK"}) /\ IsrFrame /\ UNCHANGED slave
  /\ IF twi.masterIndex < twi.masterLength
     THEN /\ hw' = ReplyWith(TRUE, twi.masterBuffer[twi.masterIndex])
          /\ twi' = [twi EXCEPT !.masterIndex = @ + 1]
          /\ UNCHANGED <<bus, timed_out>>
     ELSE EndTransfer(twi)

NackError_Ignored(status) == "none"
NackError(status) == status

IsrMasterNack ==
  /\ Interrupt({"MT_SLA_NACK", "MT_DATA_NACK"}) /\ IsrFrame /\ UNCHANGED slave
  /\ Stop([twi EXCEPT !.error = NackError(hw.status)])

IsrArbLost ==
  /\ Interrupt({"ARB_LOST"}) /\ IsrFrame
  /\ ReleaseBus([twi EXCEPT !.error = "ARB_LOST"])
  /\ UNCHANGED <<bus, timed_out, slave>>

Received == [twi EXCEPT !.masterBuffer = Store(@, twi.masterIndex, hw.dr),
                        !.masterIndex = @ + 1]

\* The answer to the next byte is given before it comes.
MoreExpected_OneFewer(d) == d.masterIndex + 1 < d.masterLength
MoreExpected(d) == d.masterIndex < d.masterLength

IsrMasterReceive ==
  /\ Interrupt({"MR_SLA_ACK", "MR_DATA_ACK"}) /\ IsrFrame
  /\ twi' = IF hw.status = "MR_DATA_ACK" THEN Received ELSE twi
  /\ hw' = Reply(MoreExpected(twi'))
  /\ UNCHANGED <<bus, timed_out, slave>>

IsrMasterLast ==
  /\ Interrupt({"MR_DATA_NACK"}) /\ IsrFrame /\ UNCHANGED slave
  /\ EndTransfer(Received)

IsrReadNack_NoStop ==
  /\ Interrupt({"MR_SLA_NACK"}) /\ IsrFrame /\ UNCHANGED slave
  /\ ReleaseBus(twi) /\ UNCHANGED <<bus, timed_out>>
IsrReadNack ==
  /\ Interrupt({"MR_SLA_NACK"}) /\ IsrFrame /\ UNCHANGED slave
  /\ Stop(twi)

ReceiveInto(d) == 0

IsrSlaveAddressed ==
  /\ Interrupt({"SR_SLA_ACK", "SR_ARB_LOST"}) /\ IsrFrame
  /\ twi' = [twi EXCEPT !.state = "SRX", !.rxIndex = ReceiveInto(twi)]
  /\ hw' = Reply(TRUE)
  /\ UNCHANGED <<bus, timed_out, slave>>

RoomFor(d) == d.rxIndex < BufLen

IsrSlaveData ==
  /\ Interrupt({"SR_DATA_ACK"}) /\ IsrFrame
  /\ IF RoomFor(twi)
     THEN /\ twi' = [twi EXCEPT !.rxBuffer[twi.rxIndex] = hw.dr,
                                !.rxIndex = @ + 1]
          /\ hw' = Reply(TRUE)
     ELSE UNCHANGED twi /\ hw' = Reply(FALSE)
  /\ UNCHANGED <<bus, timed_out, slave>>

\* The bus is released before twi_onSlaveReceive() is called.
IsrSlaveStop ==
  /\ Interrupt({"SR_STOP"}) /\ IsrFrame
  /\ ReleaseBus([twi EXCEPT !.rxIndex = 0])
  /\ delivered' = Prefix(twi.rxBuffer, twi.rxIndex)
  /\ UNCHANGED <<bus, timed_out, taken, replied, supplied>>

IsrSlaveNack ==
  /\ Interrupt({"SR_DATA_NACK"}) /\ IsrFrame
  /\ hw' = Reply(FALSE) /\ UNCHANGED <<twi, bus, timed_out, slave>>

\* TWDR gets the next byte of twi_txBuffer, whatever follows it in memory past
\* its end; the last one is not to be acked.
NextByte(d) == IF d.txIndex \in Index THEN d.txBuffer[d.txIndex] ELSE 0
SendNext(d) ==
  /\ twi' = [d EXCEPT !.txIndex = (@ + 1) % Byte]
  /\ hw' = ReplyWith(d.txIndex + 1 < d.txLength, NextByte(d))

\* twi_onSlaveTransmit() calls twi_transmit() with n bytes, or not at all.
RequestedFrom_Start(d) == d.txIndex
RequestedFrom(d) == 0

Requested(n) ==
  [twi EXCEPT !.state = "STX", !.txIndex = RequestedFrom(twi),
              !.txLength = IF n = 0 THEN 1 ELSE n,
              !.txBuffer = [i \in Index |->
                              IF i < n THEN i + 1
                              ELSE IF n = 0 /\ i = 0 THEN 0 ELSE @[i]]]

IsrSlaveRequest ==
  /\ Interrupt({"ST_SLA_ACK", "ST_ARB_LOST"}) /\ IsrFrame
  /\ \E n \in 0 .. BufLen :
       /\ SendNext(Requested(n))
       /\ supplied' = IF n = 0 THEN <<0>> ELSE Positions(n)
  /\ UNCHANGED <<bus, timed_out, taken, replied, delivered>>

IsrSlaveSent ==
  /\ Interrupt({"ST_DATA_ACK"}) /\ IsrFrame
  /\ SendNext(twi) /\ UNCHANGED <<bus, timed_out, slave>>

IsrSlaveDone_StaysBusy ==
  /\ Interrupt({"ST_DATA_NACK", "ST_LAST_DATA"}) /\ IsrFrame
  /\ hw' = Reply(TRUE) /\ UNCHANGED <<twi, bus, timed_out, slave>>
IsrSlaveDone ==
  /\ Interrupt({"ST_DATA_NACK", "ST_LAST_DATA"}) /\ IsrFrame
  /\ ReleaseBus(twi) /\ UNCHANGED <<bus, timed_out, slave>>

IsrBusError ==
  /\ Interrupt({"BUS_ERROR"}) /\ IsrFrame /\ UNCHANGED slave
  /\ Stop([twi EXCEPT !.error = "BUS_ERROR"])

Handler ==
  \/ IsrStart \/ IsrMasterSend \/ IsrMasterNack \/ IsrArbLost
  \/ IsrMasterReceive \/ IsrMasterLast \/ IsrReadNack
  \/ IsrSlaveAddressed \/ IsrSlaveData \/ IsrSlaveStop \/ IsrSlaveNack
  \/ IsrSlaveRequest \/ IsrSlaveSent \/ IsrSlaveDone \/ IsrBusError

-----------------------------------------------------------------------------
(* The sketch: twi_writeTo() and twi_readFrom().                           *)

CallFrame == UNCHANGED <<timeout, slave>>
Goto(p) == pc' = p /\ UNCHANGED <<call, len, data, ret>>
Return(r, bytes) == pc' = "idle" /\ ret' = r /\ data' = bytes
                      /\ UNCHANGED <<call, len>>

\* "ensure data will fit into buffer".
TooLong(n) == n > BufLen

\* The callers in Wire.cpp wait for a write (wait is 1).
Call(c, n) ==
  /\ pc = "idle" /\ call' = c /\ len' = n /\ expired' = FALSE /\ data' = <<>>
  /\ IF TooLong(n)
     THEN pc' = "idle" /\ ret' = IF c = "read" THEN 0 ELSE 1
     ELSE pc' = "waitReady" /\ UNCHANGED ret
  /\ CallFrame /\ UNCHANGED <<twi, hw, bus, timed_out, master>>

WaitReady ==
  /\ pc = "waitReady" /\ twi.state = "READY" /\ Goto("claim")
  /\ CallFrame /\ UNCHANGED <<twi, hw, bus, timed_out, expired, master>>

MasterState == IF call = "read" THEN "MRX" ELSE "MTX"

Claim ==
  /\ pc = "claim" /\ Goto("prepare")
  /\ twi' = [twi EXCEPT !.state = MasterState]
  /\ CallFrame /\ UNCHANGED <<hw, bus, timed_out, expired, master>>

\* For a read the length is one less: the answer to a byte is set while the
\* one before it is handled.
Prepared(stop) ==
  [twi EXCEPT !.sendStop = stop, !.error = "none", !.masterIndex = 0,
     !.masterLength = IF call = "read" THEN (len - 1) % Byte ELSE len,
     !.masterBuffer = IF call = "read" THEN @
                      ELSE [i \in Index |-> IF i < len THEN i + 1 ELSE @[i]],
     !.slarw = IF call = "read" THEN TW_READ ELSE TW_WRITE]

Prepare ==
  /\ pc = "prepare"
  /\ \E stop \in BOOLEAN :
       IF twi.inRepStart
       THEN /\ twi' = [Prepared(stop) EXCEPT !.inRepStart = FALSE]
            /\ Goto("address") /\ UNCHANGED hw
       ELSE /\ twi' = Prepared(stop) /\ Goto("wait")
            /\ hw' = Twcr(TRUE, FALSE, TRUE, TRUE)
  /\ acked' = <<>> /\ nacked' = "none" /\ given' = 0
  /\ CallFrame /\ UNCHANGED <<bus, timed_out, expired>>

\* A write of TWDR collides (TWWC) until the repeated start is out.
Address ==
  /\ pc = "address" /\ hw.twint /\ Goto("wait")
  /\ hw' = [Twcr(FALSE, FALSE, TRUE, TRUE) EXCEPT !.dr = twi.slarw]
  /\ CallFrame /\ UNCHANGED <<twi, bus, timed_out, expired, master>>

Wait ==
  /\ pc = "wait" /\ twi.state # MasterState /\ Goto("result")
  /\ CallFrame /\ UNCHANGED <<twi, hw, bus, timed_out, expired, master>>

ResultCode(error) ==
  CASE error = "none" -> 0 [] error = "MT_SLA_NACK" -> 2
    [] error = "MT_DATA_NACK" -> 3 [] OTHER -> 4

ReadLength == IF twi.masterIndex < len THEN twi.masterIndex ELSE len

Result ==
  /\ pc = "result"
  /\ IF call = "read"
     THEN Return(ReadLength, Prefix(twi.masterBuffer, ReadLength))
     ELSE Return(ResultCode(twi.error), <<>>)
  /\ CallFrame /\ UNCHANGED <<twi, hw, bus, timed_out, expired, master>>

\* Any of the three loops gives up, at a moment micros() decides.
GiveUp ==
  /\ pc \in {"waitReady", "address", "wait"} /\ timeout.on
  /\ HandleTimeout(twi, hw) /\ expired' = TRUE
  /\ Return(IF call = "read" THEN 0 ELSE 5, <<>>)
  /\ CallFrame /\ UNCHANGED master

Spin ==
  /\ \/ pc = "waitReady" /\ twi.state # "READY"
     \/ pc = "address" /\ ~hw.twint
     \/ pc = "wait" /\ twi.state = MasterState
  /\ UNCHANGED vars

SetTimeout(s) ==
  /\ pc = "idle" /\ timeout' = s /\ timed_out' = FALSE
  /\ UNCHANGED <<twi, hw, bus, locals, expired, master, slave>>

Running == WaitReady \/ Claim \/ Prepare \/ Address \/ Wait \/ Result

-----------------------------------------------------------------------------
(* The bus.                                                                *)

BusFrame == UNCHANGED <<twi, locals, timeout, timed_out, expired>>
Raise(s) == hw' = [hw EXCEPT !.twint = TRUE, !.status = s, !.doing = "held"]
RaiseWith(s, b) ==
  hw' = [hw EXCEPT !.twint = TRUE, !.status = s, !.doing = "held", !.dr = b]

HwStart ==
  /\ hw.doing = "idle" /\ hw.sta /\ bus \in {"free", "us"}
  /\ Raise(IF bus = "us" THEN "REP_START" ELSE "START") /\ bus' = "us"
  /\ BusFrame /\ UNCHANGED <<master, slave>>

\* The device addressed answers, or not.
HwAddress ==
  /\ hw.doing = "address"
  /\ \E ack \in BOOLEAN :
       /\ Raise(IF hw.dr = TW_WRITE
                THEN IF ack THEN "MT_SLA_ACK" ELSE "MT_SLA_NACK"
                ELSE IF ack THEN "MR_SLA_ACK" ELSE "MR_SLA_NACK")
       /\ nacked' = IF ack THEN nacked ELSE "address"
  /\ BusFrame /\ UNCHANGED <<bus, acked, given, slave>>

HwSend ==
  /\ hw.doing = "send"
  /\ \/ Raise("MT_DATA_ACK") /\ acked' = Append(acked, hw.dr) /\ UNCHANGED nacked
     \/ Raise("MT_DATA_NACK") /\ nacked' = "data" /\ UNCHANGED acked
  /\ BusFrame /\ UNCHANGED <<bus, given, slave>>

HwReceive ==
  /\ hw.doing = "receive" /\ given' = given + 1
  /\ RaiseWith(IF hw.ea THEN "MR_DATA_ACK" ELSE "MR_DATA_NACK", given + 1)
  /\ BusFrame /\ UNCHANGED <<bus, acked, nacked, slave>>

HwStop ==
  /\ hw.doing = "stop" /\ hw' = [hw EXCEPT !.doing = "idle"]
  /\ bus' = Released
  /\ BusFrame /\ UNCHANGED <<master, slave>>

HwBusError ==
  /\ hw.doing \in {"address", "send", "receive", "listen", "answer"}
  /\ Raise("BUS_ERROR")
  /\ BusFrame /\ UNCHANGED <<bus, master, slave>>

\* Another master wins arbitration, perhaps to address this node.
HwArbLost ==
  /\ MultiMaster /\ hw.doing \in {"address", "send"}
  /\ \/ Raise("ARB_LOST") /\ bus' = "other" /\ UNCHANGED slave
     \/ /\ Addressed /\ hw.doing = "address" /\ hw.ea /\ bus' = "addressed"
        /\ Raise("SR_ARB_LOST") \/ Raise("ST_ARB_LOST")
        /\ taken' = <<>> /\ replied' = <<>> /\ delivered' = NoCallback
        /\ supplied' = <<>>
  /\ BusFrame /\ UNCHANGED master

OtherStarts ==
  /\ MultiMaster /\ bus = "free" /\ bus' = "other"
  /\ BusFrame /\ UNCHANGED <<hw, master, slave>>

OtherAddresses ==
  /\ Addressed /\ bus = "other" /\ hw.doing = "idle" /\ hw.ea
  /\ bus' = "addressed"
  /\ Raise("SR_SLA_ACK") \/ Raise("ST_SLA_ACK")
  /\ taken' = <<>> /\ replied' = <<>> /\ delivered' = NoCallback
  /\ supplied' = <<>>
  /\ BusFrame /\ UNCHANGED master

OtherEnds ==
  /\ bus \in {"other", "addressed"} /\ hw.doing = "idle" /\ bus' = "free"
  /\ BusFrame /\ UNCHANGED <<hw, master, slave>>

\* The other master sends a byte, acked or not as TWEA says.
OtherSends ==
  /\ hw.doing = "listen" /\ Len(taken) < MaxBytes
  /\ IF hw.ea
     THEN /\ taken' = Append(taken, Len(taken) + 1)
          /\ RaiseWith("SR_DATA_ACK", Len(taken) + 1)
     ELSE Raise("SR_DATA_NACK") /\ UNCHANGED taken
  /\ BusFrame /\ UNCHANGED <<bus, master, replied, delivered, supplied>>

\* It ends with a stop, or with a repeated start.
OtherStops ==
  /\ hw.doing = "listen" /\ Raise("SR_STOP") /\ bus' \in {"free", "other"}
  /\ BusFrame /\ UNCHANGED <<master, slave>>

\* The other master takes a byte and says whether it wants another.
OtherTakes ==
  /\ hw.doing = "answer" /\ replied' = Append(replied, hw.dr)
  /\ \/ Raise("ST_DATA_NACK")
     \/ Len(replied) < MaxBytes
          /\ Raise(IF hw.ea THEN "ST_DATA_ACK" ELSE "ST_LAST_DATA")
  /\ BusFrame /\ UNCHANGED <<bus, master, taken, delivered, supplied>>

Bus ==
  \/ HwStart \/ HwAddress \/ HwSend \/ HwReceive \/ HwStop
  \/ OtherSends \/ OtherStops \/ OtherTakes \/ OtherEnds
Intrusion == HwBusError \/ HwArbLost \/ OtherStarts \/ OtherAddresses

-----------------------------------------------------------------------------
Init ==
  /\ twi = [state |-> "READY", sendStop |-> TRUE, inRepStart |-> FALSE,
            slarw |-> TW_WRITE, error |-> "none",
            masterIndex |-> 0, masterLength |-> 0,
            masterBuffer |-> [i \in Index |-> 0],
            txIndex |-> 0, txLength |-> 0, txBuffer |-> [i \in Index |-> 0],
            rxIndex |-> 0, rxBuffer |-> [i \in Index |-> 0]]
  /\ hw = [doing |-> "idle", twint |-> FALSE, status |-> "NO_INFO",
           sta |-> FALSE, ea |-> TRUE, ie |-> TRUE, dr |-> 0]
  /\ bus = "free"
  /\ pc = "idle" /\ call = "write" /\ len = 0 /\ data = <<>> /\ ret = 1
  /\ timeout = NoTimeout /\ timed_out = FALSE /\ expired = FALSE
  /\ acked = <<>> /\ nacked = "none" /\ given = 0
  /\ taken = <<>> /\ replied = <<>> /\ delivered = NoCallback
  /\ supplied = <<>>

Next ==
  \/ Handler \/ Running \/ GiveUp \/ Spin \/ Bus \/ Intrusion
  \/ \E c \in Calls, n \in Lengths : Call(c, n)
  \/ \E s \in Timeouts : SetTimeout(s)

Spec == Init /\ [][Next]_vars

\* The handler is let in, a call keeps running, and the bus moves on: devices
\* and other masters answer within their time, and micros() runs.
FairSpec == Spec /\ WF_vars(Handler) /\ WF_vars(Running) /\ WF_vars(Bus)
                 /\ WF_vars(GiveUp) /\ SF_vars(HwStart)

-----------------------------------------------------------------------------
(* Properties.                                                             *)

States == {"READY", "MRX", "MTX", "SRX", "STX"}
TypeOK ==
  /\ twi.state \in States /\ twi.sendStop \in BOOLEAN
  /\ twi.inRepStart \in BOOLEAN /\ twi.slarw \in {TW_READ, TW_WRITE}
  /\ twi.masterIndex \in 0 .. BufLen
  /\ twi.masterLength \in 0 .. BufLen \cup {Byte - 1}   \* a read of none
  /\ twi.rxIndex \in 0 .. BufLen /\ twi.txIndex \in 0 .. Byte - 1
  /\ twi.txLength \in 0 .. BufLen
  /\ pc \in {"idle", "waitReady", "claim", "prepare", "address", "wait",
             "result"}
  /\ bus \in {"free", "us", "other", "addressed"}
  /\ hw.twint \in BOOLEAN /\ hw.sta \in BOOLEAN /\ hw.ea \in BOOLEAN
  /\ hw.ie \in BOOLEAN /\ ret \in Nat /\ len \in Nat
  /\ timeout \in TimeoutSettings /\ timed_out \in BOOLEAN

\* What twi_writeTo() returns is what happened on the bus: "0 .. success" when
\* the device took every byte in order, "2 .. address send, NACK received" and
\* "3 .. data send, NACK received" when it refused.
WriteTruthful ==
  pc = "idle" /\ call = "write" =>
    /\ ret = 0 => nacked = "none" /\ acked = Positions(len)
    /\ ret = 2 => nacked = "address"
    /\ ret = 3 => nacked = "data"

\* twi_readFrom() returns the bytes the device sent, in order, and fewer than
\* were asked for only when the device or the bus refused.
ReadTruthful ==
  pc = "idle" /\ call = "read" =>
    /\ ret <= len /\ data = Positions(ret)
    /\ ret < len /\ len <= BufLen /\ ~expired =>
         nacked # "none" \/ twi.error # "none"

\* A driver that says it is ready, outside of a repeated start, does not hold
\* the bus: whatever went wrong, every transfer ends with a stop.
BusReleased ==
  /\ TypeOK
  /\ twi.state = "READY" /\ ~twi.inRepStart /\ pc \in {"idle", "waitReady"} =>
       bus # "us"

\* What the driver needs of the other masters: none addresses this node during
\* one of its own calls, other than while the call waits for the driver.
Addressing == {"SR_SLA_ACK", "SR_ARB_LOST", "ST_SLA_ACK", "ST_ARB_LOST"}
Alone == hw.twint /\ hw.status \in Addressing => pc \in {"idle", "waitReady"}

\* Every call returns: the handler leaves the waiting loop's state in every
\* ending of a transfer.
CallsReturn == pc # "idle" ~> pc = "idle"

\* As a slave: the bytes that fit in twi_rxBuffer reach the receive callback,
\* in order, however many more the other master sent, and the other master
\* gets the bytes the request callback supplied, in order.
SlaveTruthful ==
  /\ delivered # NoCallback =>
       delivered = SubSeq(taken, 1, IF Len(taken) < BufLen THEN Len(taken) ELSE BufLen)
  /\ Len(replied) <= Len(supplied)
  /\ \A k \in 1 .. Len(replied) : replied[k] = supplied[k]

\* "wait until twi is ready": being addressed does not keep the driver from
\* getting ready again, time-outs or none.  There is one way not to: having
\* refused a byte for lack of room it is not told of the stop.
ReadyAgain ==
  [](~timeout.on) => []<>(twi.state = "READY" \/ hw.status = "SR_DATA_NACK")

\* twi.c:602, "stop or repeated start condition received", "leave slave receiver
\* state": the driver gets ready again after every transfer to it, the one that
\* brings more than the buffer holds included.
AlwaysReadyAgain == [](~timeout.on) => []<>(twi.state = "READY")
=============================================================================

-------------------------------- MODULE Wire --------------------------------
(***************************************************************************)
(* The two-wire library, libraries/Wire/src/Wire.cpp, over the driver that *)
(* module Twi models.                                                      *)
(*                                                                         *)
(* The sketch runs a call in steps (variable pc).  The two services the    *)
(* driver calls from its handler run between any two of them, each in one  *)
(* step with the callback of the sketch it calls.  The driver is external: *)
(* it takes the bytes of a write, returns those of a read, and calls the   *)
(* services when another master addresses this node, whatever the sketch   *)
(* is doing.                                                               *)
(*                                                                         *)
(* A byte is <<turn, origin, position>>: turn tells a transfer from the    *)
(* ones before it.  requestFrom() with an internal address is the calls    *)
(* beginTransmission(), write(), endTransmission() and requestFrom() in    *)
(* that order, the result of the third ignored: the sketch here makes them *)
(* in any order and ignores every result.                                  *)
(***************************************************************************)
EXTENDS Integers, Sequences

CONSTANTS
  BufLen,       \* BUFFER_LENGTH, equal to TWI_BUFFER_LENGTH
  MaxQuantity   \* bound: bytes the sketch asks for, or its callback writes

ASSUME WireAssumption == BufLen \in Nat \ {0} /\ MaxQuantity \in Nat \ {0}

VARIABLES
  rxBuffer, rxBufferIndex, rxBufferLength,
  txBuffer, txBufferIndex, txBufferLength, transmitting,
  onReceive, onRequest,   \* has the sketch registered a callback?
  enabled,                \* the TWI is on
  pc, reg, ret,           \* the call, its register, the last result
  \* history
  turn, rxTurn,           \* the transmission being built; the transfer received
  writes, disturbed,      \* write()s accepted since beginTransmission(); has a
                          \* request callback run since
  handed,                 \* what endTransmission() has given the driver
  expected                \* what is left to read of the transfer received

rx == <<rxBuffer, rxBufferIndex, rxBufferLength, rxTurn, expected>>
tx == <<txBuffer, txBufferIndex, txBufferLength, transmitting, turn, writes,
        disturbed, handed>>
setup == <<onReceive, onRequest, enabled>>
sketch == <<pc, reg, ret>>
vars == <<rx, tx, setup, sketch>>

Index == 0 .. BufLen - 1
Turns == 0 .. 2
Flip(t) == (t + 1) % 3
LeastOf(a, b) == IF a < b THEN a ELSE b

Own(k) == <<turn, "own", k>>              \* the k-th write() of the sketch
Reply(k) == <<turn, "reply", k>>          \* and of its request callback
Device(t, k) == <<t, "device", k>>        \* from the device read from
Other(t, k) == <<t, "other", k>>          \* from the other master
Fresh(n, From(_, _)) == [k \in 1 .. n |-> From(Flip(rxTurn), k)]

\* buffer with s stored from its start.
Filled(buffer, s) ==
  [i \in Index |-> IF i < Len(s) THEN s[i + 1] ELSE buffer[i]]

Goto(p, r) == pc' = p /\ reg' = r /\ UNCHANGED ret
Return(v) == pc' = "idle" /\ reg' = 0 /\ ret' = v
Idle == pc = "idle"

-----------------------------------------------------------------------------
(* The sketch sets the library up.                                         *)

\* begin(): transmitting is left as it is.
Begin ==
  /\ Idle /\ enabled' = TRUE
  /\ rxBufferIndex' = 0 /\ rxBufferLength' = 0 /\ expected' = <<>>
  /\ txBufferIndex' = 0 /\ txBufferLength' = 0 /\ writes' = 0
  /\ UNCHANGED <<rxBuffer, rxTurn, txBuffer, transmitting, turn, disturbed,
                 handed, onReceive, onRequest, sketch>>

End ==
  /\ Idle /\ enabled' = FALSE
  /\ UNCHANGED <<rx, tx, onReceive, onRequest, sketch>>

Register(receive, request) ==
  /\ Idle /\ onReceive' = receive /\ onRequest' = request
  /\ UNCHANGED <<rx, tx, enabled, sketch>>

-----------------------------------------------------------------------------
(* Sending: beginTransmission(), write(), endTransmission().               *)

BeginTransmission ==
  /\ Idle /\ transmitting' = TRUE /\ Goto("begun", 0)
  /\ turn' = Flip(turn) /\ writes' = 0 /\ disturbed' = FALSE
  /\ UNCHANGED <<rx, txBuffer, txBufferIndex, txBufferLength, handed, setup>>

Start_Append == txBufferIndex
Start == 0

\* Two stores, and a request callback may come between.
ResetTxIndex ==
  /\ pc = "begun" /\ Goto("begunIndex", 0)
  /\ txBufferIndex' = Start
  /\ UNCHANGED <<rx, txBuffer, txBufferLength, transmitting, turn, writes,
                 disturbed, handed, setup>>

ResetTxLength ==
  /\ pc = "begunIndex" /\ Goto("idle", 0)
  /\ txBufferLength' = 0
  /\ UNCHANGED <<rx, txBuffer, txBufferIndex, transmitting, turn, writes,
                 disturbed, handed, setup>>

\* "don't bother if buffer is full".
Full == txBufferLength >= BufLen

\* write(): the test is of the length, the store is at the index, which is
\* loaded once and stored after the byte.
Write ==
  /\ Idle /\ transmitting /\ writes < MaxQuantity
  /\ IF Full THEN Return(0) ELSE Goto("store", txBufferIndex)
  /\ UNCHANGED <<rx, tx, setup>>

StoreByte ==
  /\ pc = "store" /\ Goto("storeIndex", reg)
  /\ txBuffer' = [i \in Index |-> IF i = reg THEN Own(writes + 1) ELSE txBuffer[i]]
  /\ writes' = writes + 1
  /\ UNCHANGED <<rx, txBufferIndex, txBufferLength, transmitting, turn,
                 disturbed, handed, setup>>

StoreIndex ==
  /\ pc = "storeIndex" /\ Goto("storeLength", reg)
  /\ txBufferIndex' = reg + 1
  /\ UNCHANGED <<rx, txBuffer, txBufferLength, transmitting, turn, writes,
                 disturbed, handed, setup>>

StoreLength ==
  /\ pc = "storeLength" /\ Return(1)
  /\ txBufferLength' = reg + 1
  /\ UNCHANGED <<rx, txBuffer, txBufferIndex, transmitting, turn, writes,
                 disturbed, handed, setup>>

\* endTransmission(): the length is passed at the call, the bytes are copied
\* when the driver is ready; it refuses more than its own buffer holds.
EndTransmission ==
  /\ Idle /\ transmitting /\ Goto("writeTo", txBufferLength)
  /\ UNCHANGED <<rx, tx, setup>>

WriteTo ==
  /\ pc = "writeTo" /\ Goto("sent", 0)
  /\ handed' = IF reg > BufLen THEN <<>> ELSE [k \in 1 .. reg |-> txBuffer[k - 1]]
  /\ UNCHANGED <<rx, txBuffer, txBufferIndex, txBufferLength, transmitting,
                 turn, writes, disturbed, setup>>

\* Then the buffer is emptied, and the sketch transmits no more.
SentIndex ==
  /\ pc = "sent" /\ Goto("sentIndex", 0)
  /\ txBufferIndex' = 0 /\ handed' = <<>>
  /\ UNCHANGED <<rx, txBuffer, txBufferLength, transmitting, turn, writes,
                 disturbed, setup>>

SentLength ==
  /\ pc = "sentIndex" /\ Goto("sentLength", 0)
  /\ txBufferLength' = 0
  /\ UNCHANGED <<rx, txBuffer, txBufferIndex, transmitting, turn, writes,
                 disturbed, handed, setup>>

Sent ==
  /\ pc = "sentLength" /\ Return(0)
  /\ transmitting' = FALSE
  /\ UNCHANGED <<rx, txBuffer, txBufferIndex, txBufferLength, turn, writes,
                 disturbed, handed, setup>>

-----------------------------------------------------------------------------
(* Receiving: requestFrom(), available(), read(), peek().                  *)

Clamped(quantity) == LeastOf(quantity, BufLen)

RequestFrom(quantity) ==
  /\ Idle /\ Goto("readFrom", Clamped(quantity))
  /\ UNCHANGED <<rx, tx, setup>>

\* The driver copies what the device sent to the start of rxBuffer.
ReadFrom ==
  /\ pc = "readFrom"
  /\ \E n \in 0 .. reg :
       /\ Goto("received", n)
       /\ rxBuffer' = Filled(rxBuffer, Fresh(n, Device))
       /\ rxTurn' = IF n = 0 THEN rxTurn ELSE Flip(rxTurn)
       /\ expected' = IF n = 0 THEN expected ELSE Fresh(n, Device)
  /\ UNCHANGED <<rxBufferIndex, rxBufferLength, tx, setup>>

ResetRx ==
  /\ pc = "received" /\ Return(reg)
  /\ rxBufferIndex' = 0 /\ rxBufferLength' = reg
  /\ expected' = IF reg = 0 THEN <<>> ELSE expected
  /\ UNCHANGED <<rxBuffer, rxTurn, tx, setup>>

Unread == rxBufferIndex < rxBufferLength

Read ==
  /\ Idle /\ IF Unread THEN Goto("load", rxBufferIndex) ELSE Return(-1)
  /\ UNCHANGED <<rx, tx, setup>>

Load ==
  /\ pc = "load" /\ pc' = "advance" /\ ret' = rxBuffer[reg] /\ UNCHANGED reg
  /\ UNCHANGED <<rx, tx, setup>>

Advance ==
  /\ pc = "advance" /\ Return(ret)
  /\ rxBufferIndex' = reg + 1 /\ expected' = Tail(expected)
  /\ UNCHANGED <<rxBuffer, rxBufferLength, rxTurn, tx, setup>>

-----------------------------------------------------------------------------
(* The services, called from the driver's handler.                         *)

\* From the driver's leaving of a read to the reset of the index takes less
\* than a transfer from another master; one can end there only if the read
\* had given way to it, and brought nothing.
MayEnd == pc = "received" => reg = 0

InUse_Never == FALSE
InUse == Unread

\* onReceiveService(): n bytes came; the callback reads the first k of them.
OnReceiveService(n, k) ==
  /\ enabled /\ onReceive /\ ~InUse /\ MayEnd
  /\ rxBuffer' = Filled(rxBuffer, Fresh(n, Other))
  /\ rxBufferLength' = n /\ rxBufferIndex' = k
  /\ rxTurn' = Flip(rxTurn)
  /\ expected' = SubSeq(Fresh(n, Other), k + 1, n)
  /\ UNCHANGED <<tx, setup, sketch>>

\* onRequestService(): the callback calls write() n times.  With transmitting
\* set its bytes join the transmission, and the master gets none of them.
OnRequestService(n) ==
  /\ enabled /\ onRequest
  /\ LET stored == IF transmitting THEN LeastOf(n, BufLen) ELSE 0
     IN  /\ txBuffer' = Filled(txBuffer, [k \in 1 .. stored |-> Reply(k)])
         /\ txBufferIndex' = stored /\ txBufferLength' = stored
  /\ disturbed' = TRUE
  /\ UNCHANGED <<rx, transmitting, turn, writes, handed, setup, sketch>>

-----------------------------------------------------------------------------
Init ==
  /\ rxBuffer = [i \in Index |-> <<>>] /\ rxBufferIndex = 0 /\ rxBufferLength = 0
  /\ txBuffer = [i \in Index |-> <<>>] /\ txBufferIndex = 0 /\ txBufferLength = 0
  /\ transmitting = FALSE /\ onReceive = FALSE /\ onRequest = FALSE
  /\ enabled = FALSE /\ pc = "idle" /\ reg = 0 /\ ret = 0
  /\ turn = 0 /\ rxTurn = 0 /\ writes = 0 /\ disturbed = FALSE
  /\ handed = <<>> /\ expected = <<>>

Step ==
  \/ Begin \/ End
  \/ \E receive, request \in BOOLEAN : Register(receive, request)
  \/ BeginTransmission \/ ResetTxIndex \/ ResetTxLength
  \/ Write \/ StoreByte \/ StoreIndex \/ StoreLength
  \/ EndTransmission \/ WriteTo \/ SentIndex \/ SentLength \/ Sent
  \/ \E quantity \in 1 .. MaxQuantity : RequestFrom(quantity)
  \/ ReadFrom \/ ResetRx \/ Read \/ Load \/ Advance
  \/ \E n \in 0 .. BufLen : \E k \in 0 .. n : OnReceiveService(n, k)
  \/ \E n \in 0 .. MaxQuantity : OnRequestService(n)

\* The store is past the end of txBuffer: the program may do anything.
PastEnd == pc = "store" /\ reg \notin Index
Next == IF PastEnd THEN UNCHANGED vars ELSE Step

Spec == Init /\ [][Next]_vars

-----------------------------------------------------------------------------
(* Properties.                                                             *)

TypeOK ==
  /\ rxBufferIndex \in 0 .. BufLen /\ rxBufferLength \in 0 .. BufLen
  /\ txBufferIndex \in 0 .. BufLen /\ txBufferLength \in 0 .. BufLen
  /\ pc \in {"idle", "begun", "begunIndex", "store", "storeIndex",
             "storeLength", "writeTo", "sent", "sentIndex", "sentLength",
             "readFrom", "received", "load", "advance"}
  /\ transmitting \in BOOLEAN /\ turn \in Turns /\ rxTurn \in Turns
  /\ writes \in 0 .. MaxQuantity /\ disturbed \in BOOLEAN

\* No byte is loaded from past the end of rxBuffer, although the services move
\* the index after it was loaded; nor stored past the end of txBuffer unless a
\* request callback has run since beginTransmission().
InBounds ==
  /\ pc = "load" => reg \in Index
  /\ pc = "store" /\ ~disturbed => reg \in Index

\* read() returns the bytes of one transfer, from the device or from the other
\* master, each once and in order, and never of two mixed: a reception is
\* dropped rather than laid over bytes "they may not have read" yet.
ReadsFaithful ==
  /\ TypeOK /\ InBounds
  /\ pc \in {"idle", "load", "advance"} =>
       Len(expected) = rxBufferLength - rxBufferIndex
  /\ pc = "advance" => expected # <<>> /\ ret = Head(expected)

\* What endTransmission() gives the driver was all written since its
\* beginTransmission(), and, unless a request callback ran in between ("this
\* will kill any pending pre-master sendTo() activity"), it is the bytes
\* write() accepted, in order.
TransmissionFaithful ==
  pc = "sent" =>
    /\ \A k \in 1 .. Len(handed) : handed[k][1] = turn
    /\ ~disturbed => handed = [k \in 1 .. writes |-> Own(k)]

(* What the comments say of write(), and the code does not keep.            *)

\* write() stores nothing "if buffer is full": never past the end of txBuffer,
\* whatever request callbacks have run.
StoresInBounds == pc = "store" => reg \in Index

\* What write() is given in the "slave tx event callback" is the reply to the
\* master that asked, never part of what this node sends as a master itself.
RepliesToMaster == pc = "sent" => \A k \in 1 .. Len(handed) : handed[k][2] # "reply"
=============================================================================

------------------------------- MODULE Bridge -------------------------------
(***************************************************************************)
(* The USB to serial bridge of the Uno and the Mega: firmwares/atmegaxxu2/ *)
(* arduino-usbserial/Arduino-usbserial.c and Lib/LightweightRingBuff.h.    *)
(*                                                                         *)
(* The main loop moves bytes from the host to the USART and back through   *)
(* two rings; the receive interrupt inserts into the one towards the host, *)
(* without asking whether it is full, between any two steps of the loop.   *)
(* The USB library is external: it gives a byte or none, and takes a byte  *)
(* or drops it after its time-out.                                         *)
(*                                                                         *)
(* Count has Wrap values, 256 in the program; In and Out are indexes here. *)
(* Bytes from the USART are numbered from 0 to Numbers - 1 and round       *)
(* again; a slot that was never filled holds none of them.                 *)
(***************************************************************************)
EXTENDS Integers, Sequences

CONSTANTS
  Size,          \* BUFFER_SIZE
  NearlyFull,    \* BUFFER_NEARLY_FULL
  Wrap           \* values of RingBuff_Count_t

ASSUME BridgeAssumption ==
  /\ Size \in Nat \ {0} /\ NearlyFull \in Nat /\ Wrap \in Nat
  /\ NearlyFull < Size /\ Size < Wrap

VARIABLES
  Buffer, In, Out, Count,    \* USARTtoUSB_Buffer
  toUsart,                   \* USBtoUSART_Buffer: how many bytes it holds
  online,                    \* USB_DeviceState is Configured
  overflow,                  \* TOV0, the flush timer
  at, BufferCount, data,     \* the main loop
  \* history
  received,                  \* the next byte to be inserted
  stored,                    \* the slots filled and not emptied since
  overrun                    \* a byte was laid over another, and the ring has
                             \* not been seen empty since

ring == <<Buffer, In, Out, Count>>
loop == <<at, BufferCount, data>>
history == <<received, stored, overrun>>
bridgeVars == <<ring, toUsart, online, overflow, loop, history>>

Numbers == 2 * Size + 1
Index == 0 .. Size - 1
Next1(i) == IF i + 1 = Size THEN 0 ELSE i + 1
Continue(p) == at' = p /\ UNCHANGED <<BufferCount, data>>

-----------------------------------------------------------------------------
(* The main loop.                                                          *)

\* A byte from the host, if the ring to the USART is not full.
Receive ==
  /\ at = "receive" /\ Continue("count")
  /\ \/ toUsart < Size /\ online /\ toUsart' = toUsart + 1
     \/ UNCHANGED toUsart
  /\ UNCHANGED <<ring, online, overflow, history>>

GetCount ==
  /\ at = "count" /\ at' = "test" /\ BufferCount' = Count /\ UNCHANGED data
  /\ overrun' = (overrun /\ ~(Count = 0 /\ In = Out /\ stored = {}))
  /\ UNCHANGED <<ring, toUsart, online, overflow, received, stored>>

\* "... flush timer has expired or the buffer is nearly full".
MustFlush_WhenNearlyFull == BufferCount > NearlyFull
MustFlush == overflow \/ BufferCount > NearlyFull

Test ==
  /\ at = "test"
  /\ IF MustFlush THEN Continue("flush") /\ overflow' = FALSE
                  ELSE Continue("transmit") /\ UNCHANGED overflow
  /\ UNCHANGED <<ring, toUsart, online, history>>

Flush ==
  /\ at = "flush" /\ UNCHANGED data
  /\ IF BufferCount = 0
       THEN at' = "transmit" /\ UNCHANGED BufferCount
       ELSE at' = "load" /\ BufferCount' = BufferCount - 1
  /\ UNCHANGED <<ring, toUsart, online, overflow, history>>

\* RingBuffer_Remove() in its three accesses.
Load ==
  /\ at = "load" /\ at' = "advance" /\ data' = Buffer[Out]
  /\ UNCHANGED <<ring, toUsart, online, overflow, BufferCount, history>>

Advance ==
  /\ at = "advance" /\ Continue("decrement") /\ Out' = Next1(Out)
  /\ stored' = stored \ {Out}
  /\ UNCHANGED <<Buffer, In, Count, toUsart, online, overflow, received,
                 overrun>>

Decremented_ToCached == BufferCount
Decremented == (Count + Wrap - 1) % Wrap

Decrement ==
  /\ at = "decrement" /\ Continue("send") /\ Count' = Decremented
  /\ UNCHANGED <<Buffer, In, Out, toUsart, online, overflow, history>>

\* CDC_Device_SendByte(): taken, or dropped after its time-out.
SendByte ==
  /\ at = "send" /\ at' = "flush" /\ data' = 0 /\ UNCHANGED BufferCount
  /\ UNCHANGED <<ring, toUsart, online, overflow, history>>

Transmit ==
  /\ at = "transmit" /\ at' = "receive" /\ BufferCount' = 0 /\ UNCHANGED data
  /\ toUsart' = IF toUsart = 0 THEN 0 ELSE toUsart - 1
  /\ UNCHANGED <<ring, online, overflow, history>>

-----------------------------------------------------------------------------
(* The interrupt, the timer and the host.                                  *)

\* ISR(USART1_RX_vect) and RingBuffer_Insert().
ReceiveInterrupt ==
  /\ online
  /\ Buffer' = [Buffer EXCEPT ![In] = received] /\ In' = Next1(In)
  /\ Count' = (Count + 1) % Wrap
  /\ received' = (received + 1) % Numbers
  /\ stored' = stored \union {In} /\ overrun' = (overrun \/ In \in stored)
  /\ UNCHANGED <<Out, toUsart, online, overflow, loop>>

TimerOverflows ==
  /\ ~overflow /\ overflow' = TRUE
  /\ UNCHANGED <<ring, toUsart, online, loop, history>>

DeviceState(c) ==
  /\ online' = c
  /\ UNCHANGED <<ring, toUsart, overflow, loop, history>>

-----------------------------------------------------------------------------
BridgeInit ==
  /\ Buffer = [i \in Index |-> Numbers] /\ In = 0 /\ Out = 0 /\ Count = 0
  /\ toUsart = 0 /\ online = FALSE /\ overflow = FALSE
  /\ at = "receive" /\ BufferCount = 0 /\ data = 0
  /\ received = 0 /\ stored = {} /\ overrun = FALSE

MainLoop ==
  \/ Receive \/ GetCount \/ Test \/ Flush \/ Load \/ Advance \/ Decrement
  \/ SendByte \/ Transmit

BridgeNext ==
  \/ MainLoop \/ ReceiveInterrupt \/ TimerOverflows
  \/ \E c \in BOOLEAN : DeviceState(c)

BridgeFairness == WF_bridgeVars(MainLoop) /\ WF_bridgeVars(TimerOverflows)

BridgeSpec == BridgeInit /\ [][BridgeNext]_bridgeVars /\ BridgeFairness

-----------------------------------------------------------------------------
(* Properties.                                                             *)

BridgeTypeOK ==
  /\ In \in Index /\ Out \in Index /\ Count \in 0 .. Wrap - 1
  /\ toUsart \in 0 .. Size /\ BufferCount \in 0 .. Wrap - 1
  /\ at \in {"receive", "count", "test", "flush", "load", "advance",
             "decrement", "send", "transmit"}

\* The bytes inserted and not removed, as far as Count can tell.
Counted == IF at = "decrement" THEN (Count + Wrap - 1) % Wrap ELSE Count

\* k successive reads each find a byte that no other read has taken.
Readable(k) == k <= Size /\ \A i \in 0 .. k - 1 : (Out + i) % Size \in stored

\* The two pointers and the separate count never disagree, although the
\* interrupt moves one pointer and the count between the loop's moves of the
\* other, as long as the ring is not overrun; with a size that divides the
\* values of the count, as 128 does, a ring that was overrun heals: when it
\* counts no more than it has room for, it holds the last bytes received, in
\* order.
RingHeals ==
  /\ BridgeTypeOK
  /\ Wrap % Size = 0 \/ ~overrun =>
       /\ In = (Out + Counted) % Size
       /\ Counted <= Size =>
            \A i \in 0 .. Counted - 1 :
              Buffer[(Out + i) % Size]
                = (received + Numbers - Counted + i) % Numbers

\* The count taken before the flush stays good while the interrupt inserts and
\* the loop reads: every read finds a byte, until the ring is overrun.
RemovesWhatIsStored ==
  ~overrun => /\ at \in {"test", "flush"} => Readable(BufferCount)
              /\ at = "load" => Readable(BufferCount + 1)

\* The ring towards the host is sound: RingHeals and RemovesWhatIsStored, in
\* every interleaving of the interrupt with the steps of RingBuffer_Remove().
RingSound == RingHeals /\ RemovesWhatIsStored

\* "how many successive reads may safely be performed on the buffer": what
\* RingBuffer_GetCount() returns says so, overrun or not.
MinimumStored == at = "test" => Readable(BufferCount)

\* A byte in the ring does not stay there: the flush timer has it removed
\* without another byte's coming, unless an overrun takes Count round to 0.
Flushed == Counted > 0 ~> at = "load" \/ Counted = 0
=============================================================================

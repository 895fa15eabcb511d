--------------------------- MODULE HardwareSerial ---------------------------
(***************************************************************************)
(* One hardware serial port: the HardwareSerial object, the sketch that    *)
(* calls it, its two interrupt handlers and the USART it drives.           *)
(*                                                                         *)
(* The sketch runs a call in steps (variable pc), each step one access to  *)
(* state that an interrupt handler or the hardware also touches.  Handlers *)
(* run between any two steps while interrupts are on, and are one step     *)
(* each: AVR handlers do not nest, and the shift register finishing a      *)
(* frame in the middle of a handler is the same as it finishing before or  *)
(* after (the handler only runs with UDR empty and clears TXC after it     *)
(* has filled UDR).                                                        *)
(*                                                                         *)
(* A byte is named by its rank: the n-th byte passed to write() is n, the  *)
(* n-th to arrive on the receive line is n, and 0 is "no byte".            *)
(***************************************************************************)
EXTENDS Integers, Sequences

CONSTANTS
  TxSize,       \* SERIAL_TX_BUFFER_SIZE
  RxSize,       \* SERIAL_RX_BUFFER_SIZE
  MaxWrites,    \* bound: calls of write()
  MaxArrivals,  \* bound: frames that arrive on the receive line
  Calls,        \* the calls this sketch makes
  ReBegin       \* does it call begin() on a port that is already open?

CallNames == {"begin", "end", "write", "flush", "availableForWrite",
              "available", "peek", "read", "noInterrupts", "interrupts"}

\* Up to 256 an index is one byte, loaded and stored whole; for larger rings
\* "the extra atomicity guards needed for that are not implemented".
ASSUME SizeAssumption == /\ TxSize \in Nat /\ TxSize >= 2 /\ TxSize <= 256
                         /\ RxSize \in Nat /\ RxSize >= 2 /\ RxSize <= 256
ASSUME BoundAssumption == MaxWrites \in Nat /\ MaxArrivals \in Nat
ASSUME CallsAssumption == Calls \subseteq CallNames /\ ReBegin \in BOOLEAN

VARIABLES
  \* the USART and the status register
  udr, shift,       \* transmit data register and shift register; 0: empty
  txc,              \* UCSRA.TXC, set when the shift register has run dry
  ucsrb,            \* the enable bits of UCSRB
  rxFifo,           \* the receive FIFO behind UDR
  ie,               \* SREG.I as the sketch left it
  \* the object
  written, txHead, txTail, txBuf, rxHead, rxTail, rxBuf,
  \* the sketch
  call, pc,         \* the call in progress (or the last one) and its position
  todo,             \* edits of UCSRB that begin() and end() have left to make
  copy,             \* UCSRB as loaded by the edit in progress
  reg,              \* the local the call holds across an interruptible point
  ret,              \* what the last call returned
  \* history
  cur,              \* bytes passed to write() so far
  line,             \* bytes the transmit line has carried, in order
  arrived,          \* frames that arrived
  rxQueue,          \* bytes the receive handler stored and nobody read yet
  txCredit,         \* what availableForWrite() promised, less writes since
  rxCredit          \* what available() promised, less reads since

usart   == <<udr, shift, txc, ucsrb, rxFifo>>
txRing  == <<txHead, txTail, txBuf>>
rxRing  == <<rxHead, rxTail, rxBuf, rxQueue>>
sketch  == <<call, pc, todo, copy, reg, ret>>
credits == <<txCredit, rxCredit>>
vars == <<usart, ie, written, txRing, rxRing, sketch, cur, line, arrived,
          credits>>

-----------------------------------------------------------------------------
(* Ring arithmetic.                                                        *)

\* Mutants, here and below (named _No..., _Off...): plausible mistakes, used
\* only to show that the properties notice them.
Succ_NoWrap(i, size) == i + 1
Fill_OffByOne(head, tail, size) == (size + head - tail + 1) % size

Succ(i, size) == (i + 1) % size
Fill(head, tail, size) == (size + head - tail) % size

TxCount == Fill(txHead, txTail, TxSize)
RxCount == Fill(rxHead, rxTail, RxSize)
LowerBy1(n) == IF n > 0 THEN n - 1 ELSE 0

-----------------------------------------------------------------------------
(* The USART, as the code relies on it.                                    *)

FifoDepth == 2
EnableBits == {"rxen", "txen", "rxcie", "udrie"}
UdrEmpty == udr = 0                                    \* UCSRA.UDRE
Open == ucsrb.txen

\* A store to UDR while UDRE is clear is lost.
StoreUdr(b) == udr' = IF UdrEmpty THEN b ELSE udr

\* The shift register takes the byte waiting in UDR.
LoadShift ==
  /\ shift = 0 /\ ~UdrEmpty
  /\ shift' = udr /\ udr' = 0
  /\ UNCHANGED <<txc, ucsrb, rxFifo, ie, written, txRing, rxRing, sketch, cur,
                 line, arrived, credits>>

\* Between the two stores of write()'s shortcut nothing but the hardware can
\* run, and a frame takes far longer than the few cycles between them.
AtomicSection_NoFast == {"udrie"}
AtomicSection == {"fastTxc", "udrie"}
Masked == ~ie \/ pc \in AtomicSection
JustLoaded == pc = "fastTxc" /\ Masked /\ shift = cur

\* The frame in the shift register has gone out.  TXC is set unless the next
\* byte is already there.
ShiftOut ==
  /\ shift # 0 /\ ~JustLoaded
  /\ line' = Append(line, shift)
  /\ shift' = udr /\ udr' = 0
  /\ txc' = (txc \/ UdrEmpty)
  /\ UNCHANGED <<ucsrb, rxFifo, ie, written, txRing, rxRing, sketch, cur,
                 arrived, credits>>

\* A frame arrives, with a parity error (upe) or not.  With the FIFO full it
\* is lost (data overrun).
Arrive ==
  /\ arrived < MaxArrivals /\ ucsrb.rxen
  /\ arrived' = arrived + 1
  /\ \E upe \in BOOLEAN :
       rxFifo' = IF Len(rxFifo) < FifoDepth
                 THEN Append(rxFifo, [byte |-> arrived', upe |-> upe])
                 ELSE rxFifo
  /\ UNCHANGED <<udr, shift, txc, ucsrb, ie, written, txRing, rxRing, sketch,
                 cur, line, credits>>

-----------------------------------------------------------------------------
(* The interrupt handlers.                                                 *)

TxUdrEmptyIrq_NoRetrigger ==
  /\ StoreUdr(txBuf[txTail])
  /\ txTail' = Succ(txTail, TxSize)
  /\ txc' = FALSE
  /\ ucsrb' = [ucsrb EXCEPT !.udrie = FALSE]
  /\ UNCHANGED <<shift, rxFifo, txHead, txBuf>>

\* _tx_udr_empty_irq(), which write() and flush() also call.
TxUdrEmptyIrq ==
  /\ StoreUdr(txBuf[txTail])
  /\ txTail' = Succ(txTail, TxSize)
  /\ txc' = FALSE
  /\ ucsrb' = [ucsrb EXCEPT !.udrie = @ /\ txHead # txTail']
  /\ UNCHANGED <<shift, rxFifo, txHead, txBuf>>

\* ISR(USART_UDRE_vect).
UdrEmptyInterrupt ==
  /\ ~Masked /\ ucsrb.udrie /\ UdrEmpty
  /\ TxUdrEmptyIrq
  /\ UNCHANGED <<ie, written, rxRing, sketch, cur, line, arrived, credits>>

RxCompleteInterrupt_NoFullTest ==
  /\ ~Masked /\ ucsrb.rxcie /\ rxFifo # <<>>
  /\ rxFifo' = Tail(rxFifo)
  /\ LET frame == Head(rxFifo)
     IN  IF ~frame.upe
         THEN /\ rxBuf' = [rxBuf EXCEPT ![rxHead] = frame.byte]
              /\ rxHead' = Succ(rxHead, RxSize)
              /\ rxQueue' = Append(rxQueue, frame.byte)
         ELSE UNCHANGED <<rxBuf, rxHead, rxQueue>>
  /\ UNCHANGED <<udr, shift, txc, ucsrb, ie, written, txRing, rxTail, sketch,
                 cur, line, arrived, credits>>
RxCompleteInterrupt_OffByOne ==
  /\ ~Masked /\ ucsrb.rxcie /\ rxFifo # <<>>
  /\ rxFifo' = Tail(rxFifo)
  /\ LET frame == Head(rxFifo)
         i == Succ(rxHead, RxSize)
     IN  IF ~frame.upe /\ Succ(i, RxSize) # rxTail
         THEN /\ rxBuf' = [rxBuf EXCEPT ![rxHead] = frame.byte]
              /\ rxHead' = i
              /\ rxQueue' = Append(rxQueue, frame.byte)
         ELSE UNCHANGED <<rxBuf, rxHead, rxQueue>>
  /\ UNCHANGED <<udr, shift, txc, ucsrb, ie, written, txRing, rxTail, sketch,
                 cur, line, arrived, credits>>

\* ISR(USART_RX_vect), _rx_complete_irq(): a byte with a parity error, or for
\* which the ring has no room, is dropped.
RxCompleteInterrupt ==
  /\ ~Masked /\ ucsrb.rxcie /\ rxFifo # <<>>
  /\ rxFifo' = Tail(rxFifo)
  /\ LET frame == Head(rxFifo)
         i == Succ(rxHead, RxSize)
     IN  IF ~frame.upe /\ i # rxTail
         THEN /\ rxBuf' = [rxBuf EXCEPT ![rxHead] = frame.byte]
              /\ rxHead' = i
              /\ rxQueue' = Append(rxQueue, frame.byte)
         ELSE UNCHANGED <<rxBuf, rxHead, rxQueue>>
  /\ UNCHANGED <<udr, shift, txc, ucsrb, ie, written, txRing, rxTail, sketch,
                 cur, line, arrived, credits>>

-----------------------------------------------------------------------------
(* The sketch.  It calls one method at a time, and none but begin() on a   *)
(* port that is not open.                                                  *)

Idle == pc = "idle"
Goto(p) == pc' = p /\ UNCHANGED <<call, todo, copy, reg, ret>>
Return(v) == pc' = "idle" /\ ret' = v /\ UNCHANGED <<call, todo, copy, reg>>

EntryPoint(op) ==
  CASE op \in {"end", "flush"}  -> "flushU0"
    [] op = "availableForWrite" -> "afwTail"
    [] op = "available"         -> "availHead"
    [] OTHER                    -> op

StartCall(op) ==
  /\ Idle
  /\ IF op = "begin" THEN ReBegin \/ ~Open ELSE Open
  /\ op = "write" => cur < MaxWrites
  /\ cur' = IF op = "write" THEN cur + 1 ELSE cur
  /\ call' = op /\ pc' = EntryPoint(op)
  /\ UNCHANGED <<usart, ie, written, txRing, rxRing, todo, copy, reg, ret,
                 line, arrived, credits>>

\* noInterrupts() and interrupts().
SetI(b) ==
  /\ Idle
  /\ ie' = b
  /\ UNCHANGED <<usart, written, txRing, rxRing, sketch, cur, line, arrived,
                 credits>>

BeginEdits == << <<"rxen", TRUE>>, <<"txen", TRUE>>,
                 <<"rxcie", TRUE>>, <<"udrie", FALSE>> >>
EndEdits == << <<"rxen", FALSE>>, <<"txen", FALSE>>,
               <<"rxcie", FALSE>>, <<"udrie", FALSE>> >>

\* begin() up to its edits of UCSRB; a zero stored to TXC leaves TXC alone.
Begin ==
  /\ pc = "begin"
  /\ written' = FALSE
  /\ pc' = "rmwLoad"
  /\ todo' = BeginEdits
  /\ UNCHANGED <<usart, ie, txRing, rxRing, call, copy, reg, ret, cur, line,
                 arrived, credits>>

\* sbi and cbi on UCSRB, through a pointer: a load, then a store of the whole
\* register with one bit changed.
RmwLoad ==
  /\ pc = "rmwLoad"
  /\ copy' = ucsrb
  /\ pc' = "rmwStore"
  /\ UNCHANGED <<usart, ie, written, txRing, rxRing, call, todo, reg, ret,
                 cur, line, arrived, credits>>

\* Disabling the receiver flushes its FIFO.
RmwStore ==
  /\ pc = "rmwStore"
  /\ ucsrb' = [copy EXCEPT ![Head(todo)[1]] = Head(todo)[2]]
  /\ rxFifo' = IF ucsrb'.rxen THEN rxFifo ELSE <<>>
  /\ todo' = Tail(todo)
  /\ pc' = IF todo' # <<>> THEN "rmwLoad"
           ELSE IF call = "begin" THEN "idle" ELSE "clearRx"
  /\ UNCHANGED <<udr, shift, txc, ie, written, txRing, rxRing, call, copy, reg,
                 ret, cur, line, arrived, credits>>

\* end(): discard what was received.
ClearRx ==
  /\ pc = "clearRx"
  /\ rxHead' = rxTail /\ rxQueue' = <<>> /\ rxCredit' = 0
  /\ Goto("idle")
  /\ UNCHANGED <<usart, ie, written, txRing, rxTail, rxBuf, cur, line, arrived,
                 txCredit>>

\* flush(), also the first thing end() does.
FlushDone ==
  IF call = "end"
  THEN /\ pc' = "rmwLoad"
       /\ todo' = EndEdits
       /\ UNCHANGED <<call, copy, reg, ret>>
  ELSE Goto("idle")

FlushTest ==
  /\ \/ pc = "flushU0" /\ (IF written THEN Goto("flushU") ELSE FlushDone)
     \/ pc = "flushU"  /\ Goto(IF ucsrb.udrie THEN "flushBody" ELSE "flushT")
     \/ pc = "flushT"  /\ (IF txc THEN FlushDone ELSE Goto("flushBody"))
  /\ UNCHANGED <<usart, ie, written, txRing, rxRing, cur, line, arrived,
                 credits>>

\* With interrupts off, poll UDRE in the handler's place.
FlushBody ==
  /\ pc = "flushBody"
  /\ IF ~ie /\ ucsrb.udrie /\ UdrEmpty
     THEN TxUdrEmptyIrq
     ELSE UNCHANGED <<usart, txRing>>
  /\ Goto("flushU")
  /\ UNCHANGED <<ie, written, rxRing, cur, line, arrived, credits>>

\* write(c): the shortcut is taken when the ring and UDR are both empty.
WriteTest ==
  /\ pc = "write"
  /\ written' = TRUE
  /\ Goto(IF txHead = txTail /\ UdrEmpty THEN "fastUdr" ELSE "wait")
  /\ UNCHANGED <<usart, ie, txRing, rxRing, cur, line, arrived, credits>>

WriteReturn ==
  /\ Return(1)
  /\ txCredit' = LowerBy1(txCredit)
  /\ UNCHANGED <<ie, written, rxRing, cur, line, arrived, rxCredit>>

FastUdr ==
  /\ pc = "fastUdr"
  /\ StoreUdr(cur)
  /\ Goto("fastTxc")
  /\ UNCHANGED <<shift, txc, ucsrb, rxFifo, ie, written, txRing, rxRing, cur,
                 line, arrived, credits>>

FastTxc ==
  /\ pc = "fastTxc"
  /\ txc' = FALSE
  /\ WriteReturn
  /\ UNCHANGED <<udr, shift, ucsrb, rxFifo, txRing>>

\* With the ring full and interrupts off, poll UDRE in the handler's place;
\* with interrupts on, spin.
TxFull == Succ(txHead, TxSize) = txTail

WriteWait ==
  /\ pc = "wait"
  /\ \/ ~TxFull /\ Goto("store") /\ UNCHANGED <<usart, txRing>>
     \/ TxFull /\ ~ie /\ UdrEmpty /\ TxUdrEmptyIrq /\ UNCHANGED sketch
     \/ TxFull /\ (ie \/ ~UdrEmpty) /\ UNCHANGED <<usart, txRing, sketch>>
  /\ UNCHANGED <<ie, written, rxRing, cur, line, arrived, credits>>

WriteStore ==
  /\ pc = "store"
  /\ txBuf' = [txBuf EXCEPT ![txHead] = cur]
  /\ Goto("head")
  /\ UNCHANGED <<usart, ie, written, txHead, txTail, rxRing, cur, line,
                 arrived, credits>>

WriteHead ==
  /\ pc = "head"
  /\ txHead' = Succ(txHead, TxSize)
  /\ Goto("udrie")
  /\ UNCHANGED <<usart, ie, written, txTail, txBuf, rxRing, cur, line, arrived,
                 credits>>

WriteUdrie ==
  /\ pc = "udrie"
  /\ ucsrb' = [ucsrb EXCEPT !.udrie = TRUE]
  /\ WriteReturn
  /\ UNCHANGED <<udr, shift, txc, rxFifo, txRing>>

\* availableForWrite(): the handler may move the tail once it has been read.
FreeSlots_OffByOne(head, tail) ==
  IF head >= tail THEN TxSize - head + tail ELSE tail - head

FreeSlots(head, tail) ==
  IF head >= tail THEN TxSize - 1 - head + tail ELSE tail - head - 1

AvailableForWrite ==
  /\ \/ /\ pc = "afwTail" /\ pc' = "afw" /\ reg' = txTail
        /\ UNCHANGED <<call, todo, copy, ret, txCredit>>
     \/ /\ pc = "afw"
        /\ Return(FreeSlots(txHead, reg)) /\ txCredit' = ret'
  /\ UNCHANGED <<usart, ie, written, txRing, rxRing, cur, line, arrived,
                 rxCredit>>

\* available(): the handler may move the head once it has been read.
Available ==
  /\ \/ /\ pc = "availHead" /\ pc' = "avail" /\ reg' = rxHead
        /\ UNCHANGED <<call, todo, copy, ret, rxCredit>>
     \/ /\ pc = "avail"
        /\ Return(Fill(reg, rxTail, RxSize)) /\ rxCredit' = ret'
  /\ UNCHANGED <<usart, ie, written, txRing, rxRing, cur, line, arrived,
                 txCredit>>

Peek ==
  /\ \/ pc = "peek" /\ (IF rxHead = rxTail THEN Return(-1) ELSE Goto("peekSlot"))
     \/ pc = "peekSlot" /\ Return(rxBuf[rxTail])
  /\ UNCHANGED <<usart, ie, written, txRing, rxRing, cur, line, arrived,
                 credits>>

\* read(): test, load the byte, advance the tail.
Read ==
  /\ \/ pc = "read" /\ (IF rxHead = rxTail THEN Return(-1) ELSE Goto("readSlot"))
     \/ /\ pc = "readSlot" /\ pc' = "readTail" /\ reg' = rxBuf[rxTail]
        /\ UNCHANGED <<call, todo, copy, ret>>
  /\ UNCHANGED <<usart, ie, written, txRing, rxRing, cur, line, arrived,
                 credits>>

ReadTail ==
  /\ pc = "readTail"
  /\ rxTail' = Succ(rxTail, RxSize)
  /\ rxQueue' = Tail(rxQueue)
  /\ rxCredit' = LowerBy1(rxCredit)
  /\ Return(reg)
  /\ UNCHANGED <<usart, ie, written, txRing, rxHead, rxBuf, cur, line, arrived,
                 txCredit>>

-----------------------------------------------------------------------------
(* Power-on: the constructor has run, the port is closed.                  *)

Init ==
  /\ udr = 0 /\ shift = 0 /\ txc = FALSE /\ rxFifo = <<>> /\ ie = TRUE
  /\ ucsrb = [b \in EnableBits |-> FALSE]
  /\ written = FALSE
  /\ txHead = 0 /\ txTail = 0 /\ txBuf = [k \in 0 .. TxSize - 1 |-> 0]
  /\ rxHead = 0 /\ rxTail = 0 /\ rxBuf = [k \in 0 .. RxSize - 1 |-> 0]
  /\ call = "end" /\ pc = "idle" /\ todo = <<>> /\ copy = ucsrb
  /\ reg = 0 /\ ret = 0
  /\ cur = 0 /\ line = <<>> /\ arrived = 0 /\ rxQueue = <<>>
  /\ txCredit = 0 /\ rxCredit = 0

SketchStep ==
  \/ Begin \/ RmwLoad \/ RmwStore \/ ClearRx
  \/ FlushTest \/ FlushBody
  \/ WriteTest \/ FastUdr \/ FastTxc
  \/ WriteWait \/ WriteStore \/ WriteHead \/ WriteUdrie
  \/ AvailableForWrite \/ Available \/ Peek \/ Read \/ ReadTail

StartAny ==
  \/ \E op \in Calls \ {"noInterrupts", "interrupts"} : StartCall(op)
  \/ "noInterrupts" \in Calls /\ SetI(FALSE)
  \/ "interrupts" \in Calls /\ SetI(TRUE)

Hardware == LoadShift \/ ShiftOut \/ Arrive

Next ==
  \/ StartAny \/ SketchStep
  \/ UdrEmptyInterrupt \/ RxCompleteInterrupt
  \/ LoadShift \/ ShiftOut \/ Arrive

Spec == Init /\ [][Next]_vars

\* The processor keeps running a call it has started, pending interrupts are
\* taken and the USART keeps shifting.  Nothing makes the sketch start a call
\* or the peer send.
FairSpec ==
  /\ Spec
  /\ WF_vars(SketchStep)
  /\ WF_vars(UdrEmptyInterrupt) /\ WF_vars(RxCompleteInterrupt)
  /\ WF_vars(LoadShift) /\ WF_vars(ShiftOut)

-----------------------------------------------------------------------------
(* Properties.                                                             *)

PcNames == {"idle", "begin", "rmwLoad", "rmwStore", "clearRx",
            "flushU0", "flushU", "flushT", "flushBody",
            "write", "fastUdr", "fastTxc", "wait", "store", "head", "udrie",
            "afwTail", "afw", "availHead", "avail",
            "peek", "peekSlot", "read", "readSlot", "readTail"}
Edits == EnableBits \X BOOLEAN

UsartType ==
  /\ udr \in 0 .. MaxWrites /\ shift \in 0 .. MaxWrites /\ txc \in BOOLEAN
  /\ ucsrb \in [EnableBits -> BOOLEAN] /\ ie \in BOOLEAN
  /\ rxFifo \in Seq([byte : 1 .. MaxArrivals, upe : BOOLEAN])
ObjectType ==
  /\ written \in BOOLEAN
  /\ txHead \in 0 .. TxSize - 1 /\ txTail \in 0 .. TxSize - 1
  /\ txBuf \in [0 .. TxSize - 1 -> 0 .. MaxWrites]
  /\ rxHead \in 0 .. RxSize - 1 /\ rxTail \in 0 .. RxSize - 1
  /\ rxBuf \in [0 .. RxSize - 1 -> 0 .. MaxArrivals]
SketchType ==
  /\ call \in CallNames /\ pc \in PcNames
  /\ todo \in Seq(Edits) /\ copy \in [EnableBits -> BOOLEAN]
  /\ reg \in Nat /\ ret \in Int
HistoryType ==
  /\ cur \in 0 .. MaxWrites /\ line \in Seq(0 .. MaxWrites)
  /\ arrived \in 0 .. MaxArrivals /\ rxQueue \in Seq(1 .. MaxArrivals)
  /\ txCredit \in 0 .. TxSize - 1 /\ rxCredit \in 0 .. RxSize - 1

\* Every variable has its type: the ring indexes stay inside the buffers, the
\* promises of the two available calls never exceed what a ring can hold.
TypeOK == UsartType /\ ObjectType /\ SketchType /\ HistoryType

\* How many bytes write() has handed over to the handler or the USART: all of
\* them but the one it is still working on.
Published ==
  IF call = "write" /\ pc \in {"write", "fastUdr", "wait", "store", "head"}
  THEN cur - 1 ELSE cur

\* The bytes on their way, the oldest first: in the shift register, in UDR, in
\* the ring.
Slot(tail, k, size) == IF tail + k < size THEN tail + k ELSE tail + k - size
Register(b) == IF b = 0 THEN <<>> ELSE <<b>>
InFlight ==
  Register(shift) \o Register(udr)
    \o [k \in 1 .. TxCount |-> txBuf[Slot(txTail, k - 1, TxSize)]]

\* The line carries the bytes given to write(), each exactly once and in the
\* order of the calls, whatever the interleaving of write(), the handler and
\* the shift register: shortcut, ring and polled bytes never overtake, drop
\* or repeat each other.
TransmitInOrder == line \o InFlight = [n \in 1 .. Published |-> n]

\* "If interrupts are enabled, there must be more data in the output buffer":
\* the data-register-empty interrupt is never enabled over an empty ring,
\* where the handler would send a stale slot and wrap the tail past the head.
UdrieMeansData == ucsrb.udrie => txHead # txTail

\* A sketch that writes no more bytes than availableForWrite() promised is
\* never held in write()'s wait for room, even though the handler moved the
\* tail after it had been read.
PromisedRoomIsThere == pc = "wait" /\ TxFull => txCredit = 0

\* The three together: what the transmit side owes the sketch in every state.
TransmitSafe == TransmitInOrder /\ UdrieMeansData /\ PromisedRoomIsThere

\* read() returns -1 only if available() has not promised a byte, although
\* the handler moved the head after it had been read.
PromisedBytesAreThere ==
  Idle /\ call = "read" /\ ret = -1 => rxCredit = 0

\* The byte read() takes and the one peek() shows are the oldest byte stored
\* and not read, while the receive handler keeps storing into the same ring.
ReceiveInOrder ==
  /\ pc = "readTail" => rxQueue # <<>> /\ reg = Head(rxQueue)
  /\ Idle /\ call = "peek" /\ ret # -1 => rxQueue # <<>> /\ ret = Head(rxQueue)

\* The receive handler drops a good byte only over RxSize - 1 unread ones: the
\* sketch never loses input while it has room.
DropOnlyWhenFull ==
  [][ rxFifo # <<>> /\ rxFifo' = Tail(rxFifo) /\ ~Head(rxFifo).upe /\ rxQueue' = rxQueue
      => Len(rxQueue) = RxSize - 1 \/ ~ucsrb'.rxen ]_vars

\* Every byte given to write() reaches the line if the sketch leaves
\* interrupts on: no byte is stranded in the ring with its interrupt disabled.
AllBytesSent ==
  <>[]ie => \A n \in 1 .. MaxWrites : cur >= n ~> Len(line) >= n
=============================================================================

----------------------------- MODULE Wire_proofs -----------------------------
(***************************************************************************)
(* Proofs about module Wire, for every length of the buffers: what read()  *)
(* returns and what endTransmission() hands over, whatever the driver's    *)
(* handler calls in between.                                               *)
(***************************************************************************)
EXTENDS Wire, SequenceTheorems, TLAPS

-----------------------------------------------------------------------------
(* The inductive invariant.                                                *)

Bytes == Turns \X {"own", "reply", "device", "other"} \X Nat

\* expected is what rxBuffer holds from the index to the length.
RxInv ==
  /\ DOMAIN rxBuffer = Index /\ expected \in Seq(Bytes)
  /\ ~(pc = "received" /\ reg > 0) =>
       /\ Len(expected) = rxBufferLength - rxBufferIndex
       /\ \A k \in 1 .. Len(expected) : rxBuffer[rxBufferIndex + k - 1] = expected[k]
  /\ pc \in {"readFrom", "received"} => reg \in 0 .. BufLen
  /\ pc = "received" /\ reg > 0 =>
       Len(expected) = reg /\ \A k \in 1 .. reg : rxBuffer[k - 1] = expected[k]
  /\ pc \in {"load", "advance"} => reg = rxBufferIndex /\ Unread
  /\ pc = "advance" => ret = Head(expected)

\* The steps that may find the index, or the length, as another left it; those
\* of beginTransmission() and of endTransmission() after the copy; all three.
Storing == {"store", "storeIndex", "storeLength"}
Beginning == {"begun", "begunIndex"}
Ending == {"sent", "sentIndex", "sentLength"}
Sending == Storing \cup Beginning \cup Ending \cup {"writeTo"}
USE DEF Storing, Beginning, Ending, Sending

TxRangeInv ==
  /\ DOMAIN txBuffer = Index
  /\ pc = "store" => reg \in 0 .. BufLen
  /\ pc \in {"storeIndex", "storeLength"} => reg \in 0 .. BufLen - 1
  /\ pc = "writeTo" => reg \in 0 .. BufLen
  /\ pc \in Sending => transmitting
  /\ pc = "store" => writes < MaxQuantity

\* Below the index, the length and the register there are bytes of this
\* transmission only.
TurnInv ==
  /\ pc # "begun" => \A j \in Index : j < txBufferIndex => txBuffer[j][1] = turn
  /\ pc \notin Beginning =>
       \A j \in Index : j < txBufferLength => txBuffer[j][1] = turn
  /\ pc \in {"store", "writeTo"} => \A j \in Index : j < reg => txBuffer[j][1] = turn
  /\ pc \in {"storeIndex", "storeLength"} =>
       \A j \in Index : j <= reg => txBuffer[j][1] = turn
  /\ pc = "sent" => \A k \in 1 .. Len(handed) : handed[k][1] = turn

\* Undisturbed, they are the bytes that write() accepted.
OwnInv ==
  /\ pc \in Beginning => writes = 0
  /\ pc = "begunIndex" /\ ~disturbed => txBufferIndex = 0
  /\ transmitting /\ ~disturbed /\ pc \notin Beginning =>
    /\ writes <= BufLen
    /\ \A j \in Index : j < writes => txBuffer[j] = Own(j + 1)
    /\ pc \notin Ending =>
         /\ txBufferIndex = IF pc = "storeIndex" THEN writes - 1 ELSE writes
         /\ txBufferLength = IF pc \in {"storeIndex", "storeLength"}
                             THEN writes - 1 ELSE writes
    /\ pc = "store" => reg = writes /\ writes < BufLen
    /\ pc \in {"storeIndex", "storeLength"} => reg = writes - 1 /\ writes > 0
    /\ pc = "writeTo" => reg = writes
    /\ pc = "sent" => handed = [k \in 1 .. writes |-> Own(k)]

WireInv == TypeOK /\ RxInv /\ TxRangeInv /\ TurnInv /\ OwnInv

-----------------------------------------------------------------------------
(* Sequences of bytes, and buffers they are stored in.                     *)

LEMMA FlipForm == \A t \in Turns : Flip(t) \in Turns
BY DEF Turns, Flip

LEMMA DeviceForm ==
  ASSUME NEW n \in Nat, rxTurn \in Turns
  PROVE  LET s == Fresh(n, Device) IN s \in Seq(Bytes) /\ Len(s) = n /\ DOMAIN s = 1 .. n
<1>1. Flip(rxTurn) \in Turns
  BY FlipForm
<1>2. \A k \in 1 .. n : Device(Flip(rxTurn), k) \in Bytes
  BY <1>1 DEF Device, Bytes
<1>. DEFINE s == [k \in 1 .. n |-> Device(Flip(rxTurn), k)]
<1>3. s \in [1 .. n -> Bytes]
  BY <1>2
<1>4. s \in Seq(Bytes) /\ Len(s) = n /\ DOMAIN s = 1 .. n
  BY <1>3
<1>. QED
  BY <1>4 DEF Fresh

LEMMA OtherForm ==
  ASSUME NEW n \in Nat, rxTurn \in Turns
  PROVE  LET s == Fresh(n, Other) IN s \in Seq(Bytes) /\ Len(s) = n /\ DOMAIN s = 1 .. n
<1>1. Flip(rxTurn) \in Turns
  BY FlipForm
<1>2. \A k \in 1 .. n : Other(Flip(rxTurn), k) \in Bytes
  BY <1>1 DEF Other, Bytes
<1>. DEFINE s == [k \in 1 .. n |-> Other(Flip(rxTurn), k)]
<1>3. s \in [1 .. n -> Bytes]
  BY <1>2
<1>4. s \in Seq(Bytes) /\ Len(s) = n /\ DOMAIN s = 1 .. n
  BY <1>3
<1>. QED
  BY <1>4 DEF Fresh

LEMMA FilledForm ==
  ASSUME NEW buffer, NEW s, NEW n \in Nat, Len(s) = n
  PROVE  /\ DOMAIN Filled(buffer, s) = Index
         /\ \A j \in Index : Filled(buffer, s)[j] = IF j < n THEN s[j + 1] ELSE buffer[j]
BY DEF Filled

LEMMA LeastForm ==
  ASSUME NEW a \in Nat, NEW b \in Nat
  PROVE  LeastOf(a, b) \in 0 .. a /\ LeastOf(a, b) \in 0 .. b
BY DEF LeastOf

-----------------------------------------------------------------------------
(* Each step keeps the invariant.                                          *)

\* Receiving is not touched by the calls that send.
LEMMA RxFrame ==
  ASSUME RxInv, UNCHANGED <<rxBuffer, rxBufferIndex, rxBufferLength, expected>>,
         pc' \notin {"readFrom", "received", "load", "advance"},
         pc \notin {"readFrom", "received", "load", "advance"}
  PROVE  RxInv'
BY DEF RxInv

\* Nor sending by those that receive.
LEMMA TxFrame ==
  ASSUME TxRangeInv, TurnInv, OwnInv,
         UNCHANGED <<txBuffer, txBufferIndex, txBufferLength, transmitting, turn,
                     writes, disturbed>>,
         pc \notin Sending, pc' \notin Sending
  PROVE  TxRangeInv' /\ TurnInv' /\ OwnInv'
<1>1. TxRangeInv'
  BY DEF TxRangeInv
<1>2. TurnInv'
  BY DEF TurnInv
<1>3. OwnInv'
  BY DEF OwnInv, Own
<1>. QED
  BY <1>1, <1>2, <1>3

LEMMA Initial == Init => WireInv
<1>. SUFFICES ASSUME Init
              PROVE  WireInv
  OBVIOUS
<1>. BufLen \in Nat \ {0} /\ MaxQuantity \in Nat \ {0}
  BY WireAssumption
<1>1. TypeOK
  <2>1. transmitting \in BOOLEAN /\ disturbed \in BOOLEAN
    BY DEF Init
  <2>. QED
    BY <2>1 DEF Init, TypeOK, Turns
<1>2. RxInv
  <2>1. expected \in Seq(Bytes) /\ Len(expected) = 0
    BY DEF Init
  <2>. QED
    BY <2>1 DEF Init, RxInv
<1>3. TxRangeInv /\ TurnInv /\ OwnInv
  BY DEF Init, TxRangeInv, TurnInv, OwnInv, Index
<1>. QED
  BY <1>1, <1>2, <1>3 DEF WireInv

\* begin(), end() and the registration of the callbacks.
LEMMA SetupStep ==
  ASSUME WireInv,
         Begin \/ End \/ \E receive, request \in BOOLEAN : Register(receive, request)
  PROVE  WireInv'
<1>. BufLen \in Nat \ {0} /\ MaxQuantity \in Nat \ {0}
  BY WireAssumption
<1>0. TypeOK /\ RxInv /\ TxRangeInv /\ TurnInv /\ OwnInv
  BY DEF WireInv
<1>1. /\ pc = "idle" /\ UNCHANGED <<pc, reg, ret, rxBuffer, rxTurn, txBuffer,
                                    transmitting, turn, disturbed, handed>>
  BY DEF Begin, End, Register, Idle, sketch, rx, tx
<1>2. CASE Begin
  <2>1. /\ rxBufferIndex' = 0 /\ rxBufferLength' = 0 /\ expected' = <<>>
        /\ txBufferIndex' = 0 /\ txBufferLength' = 0 /\ writes' = 0
    BY <1>2 DEF Begin
  <2>2. expected' \in Seq(Bytes) /\ Len(expected') = 0
    BY <2>1
  <2>3. TypeOK'
    BY <1>0, <1>1, <2>1 DEF TypeOK
  <2>4. RxInv'
    BY <1>0, <1>1, <2>1, <2>2 DEF RxInv
  <2>5. TxRangeInv' /\ TurnInv' /\ OwnInv'
    BY <1>0, <1>1, <2>1 DEF TxRangeInv, TurnInv, OwnInv, Index
  <2>. QED
    BY <2>3, <2>4, <2>5 DEF WireInv
<1>3. CASE End \/ \E receive, request \in BOOLEAN : Register(receive, request)
  <2>1. UNCHANGED <<rx, tx>>
    BY <1>3 DEF End, Register
  <2>2. TypeOK'
    BY <1>0, <1>1, <2>1 DEF TypeOK, rx, tx
  <2>3. RxInv'
    BY <1>0, <1>1, <2>1, RxFrame DEF rx
  <2>4. TxRangeInv' /\ TurnInv' /\ OwnInv'
    BY <1>0, <1>1, <2>1, TxFrame DEF tx
  <2>. QED
    BY <2>2, <2>3, <2>4 DEF WireInv
<1>. QED
  BY <1>2, <1>3

LEMMA BeginTransmissionStep ==
  ASSUME WireInv, BeginTransmission \/ ResetTxIndex \/ ResetTxLength
  PROVE  WireInv'
<1>. BufLen \in Nat \ {0} /\ MaxQuantity \in Nat \ {0}
  BY WireAssumption
<1>0. TypeOK /\ RxInv /\ TxRangeInv /\ TurnInv /\ OwnInv
  BY DEF WireInv
<1>1. UNCHANGED <<rxBuffer, rxBufferIndex, rxBufferLength, rxTurn, expected,
                  txBuffer, handed>>
  BY DEF BeginTransmission, ResetTxIndex, ResetTxLength, rx
<1>2. CASE BeginTransmission
  <2>1. /\ pc = "idle" /\ pc' = "begun" /\ transmitting' = TRUE
        /\ turn' = Flip(turn) /\ writes' = 0 /\ disturbed' = FALSE
        /\ UNCHANGED <<txBufferIndex, txBufferLength>>
    BY <1>2 DEF BeginTransmission, Idle, Goto
  <2>2. turn' \in Turns
    BY <1>0, <2>1, FlipForm DEF TypeOK
  <2>3. TypeOK'
    <3>1. transmitting' \in BOOLEAN /\ disturbed' \in BOOLEAN
      BY <2>1
    <3>. QED
      BY <1>0, <1>1, <2>1, <2>2, <3>1 DEF TypeOK
  <2>4. RxInv'
    BY <1>0, <1>1, <2>1, RxFrame
  <2>5. TxRangeInv' /\ TurnInv' /\ OwnInv'
    BY <1>0, <1>1, <2>1 DEF TxRangeInv, TurnInv, OwnInv
  <2>. QED
    BY <2>3, <2>4, <2>5 DEF WireInv
<1>3. CASE ResetTxIndex
  <2>1. /\ pc = "begun" /\ pc' = "begunIndex" /\ txBufferIndex' = 0
        /\ UNCHANGED <<txBufferLength, transmitting, turn, writes, disturbed>>
    BY <1>3 DEF ResetTxIndex, Goto, Start
  <2>2. writes = 0 /\ transmitting
    BY <1>0, <2>1 DEF OwnInv, TxRangeInv
  <2>3. TypeOK'
    BY <1>0, <1>1, <2>1 DEF TypeOK
  <2>4. RxInv'
    BY <1>0, <1>1, <2>1, RxFrame
  <2>5. TxRangeInv' /\ TurnInv' /\ OwnInv'
    BY <1>0, <1>1, <2>1, <2>2
    DEF TxRangeInv, TurnInv, OwnInv, Index
  <2>. QED
    BY <2>3, <2>4, <2>5 DEF WireInv
<1>4. CASE ResetTxLength
  <2>1. /\ pc = "begunIndex" /\ pc' = "idle" /\ txBufferLength' = 0
        /\ UNCHANGED <<txBufferIndex, transmitting, turn, writes, disturbed>>
    BY <1>4 DEF ResetTxLength, Goto
  <2>2. writes = 0 /\ transmitting
    BY <1>0, <2>1 DEF OwnInv, TxRangeInv
  <2>3. TypeOK'
    BY <1>0, <1>1, <2>1 DEF TypeOK
  <2>4. RxInv'
    BY <1>0, <1>1, <2>1, RxFrame
  <2>5. TxRangeInv'
    BY <1>0, <1>1, <2>1, <2>2
    DEF TxRangeInv
  <2>6. TurnInv' /\ OwnInv'
    BY <1>0, <1>1, <2>1, <2>2
    DEF TurnInv, OwnInv, Index
  <2>. QED
    BY <2>3, <2>4, <2>5, <2>6 DEF WireInv
<1>. QED
  BY <1>2, <1>3, <1>4

\* write() takes the index, or nothing if the buffer is full.
LEMMA WriteStep == ASSUME WireInv, Write PROVE WireInv'
<1>. BufLen \in Nat \ {0} /\ MaxQuantity \in Nat \ {0}
  BY WireAssumption
<1>0. TypeOK /\ RxInv /\ TxRangeInv /\ TurnInv /\ OwnInv
  BY DEF WireInv
<1>1. /\ pc = "idle" /\ transmitting /\ writes < MaxQuantity
      /\ \/ pc' = "idle"
         \/ pc' = "store" /\ reg' = txBufferIndex /\ txBufferLength < BufLen
      /\ UNCHANGED <<rxBuffer, rxBufferIndex, rxBufferLength, rxTurn, expected,
                     txBuffer, txBufferIndex, txBufferLength, transmitting, turn,
                     writes, disturbed, handed>>
  <2>1. IF txBufferLength >= BufLen THEN Return(0) ELSE Goto("store", txBufferIndex)
    BY DEF Write, Full
  <2>2. BufLen \in Nat /\ txBufferLength \in Nat
    BY <1>0 DEF TypeOK
  <2>3. \/ pc' = "idle"
        \/ pc' = "store" /\ reg' = txBufferIndex /\ txBufferLength < BufLen
    BY <2>1, <2>2 DEF Return, Goto
  <2>. QED
    BY <2>3 DEF Write, Idle, rx, tx
<1>2. txBufferIndex \in 0 .. BufLen /\ txBufferLength \in 0 .. BufLen
  BY <1>0 DEF TypeOK
<1>3. TypeOK'
  BY <1>0, <1>1 DEF TypeOK
<1>4. RxInv'
  BY <1>0, <1>1, RxFrame
<1>5. CASE pc' = "idle"
  <2>1. TxRangeInv' /\ TurnInv' /\ OwnInv'
    BY <1>0, <1>1, <1>5, TxFrame
  <2>. QED
    BY <1>3, <1>4, <2>1 DEF WireInv
<1>6. CASE pc' = "store" /\ reg' = txBufferIndex /\ txBufferLength < BufLen
  <2>1. txBufferIndex \in 0 .. BufLen
    BY <1>0, <1>1, <1>2, <1>6 DEF TxRangeInv
  <2>2. TxRangeInv'
    BY <1>0, <1>1, <1>6, <2>1 DEF TxRangeInv
  <2>3. TurnInv'
    BY <1>0, <1>1, <1>6 DEF TurnInv
  <2>4. OwnInv'
    BY <1>0, <1>1, <1>6 DEF OwnInv, Own
  <2>. QED
    BY <1>3, <1>4, <2>2, <2>3, <2>4 DEF WireInv
<1>. QED
  BY <1>1, <1>5, <1>6

\* The byte, then the index, then the length.
LEMMA StoreStep ==
  ASSUME WireInv, ~PastEnd, StoreByte \/ StoreIndex \/ StoreLength
  PROVE  WireInv'
<1>. BufLen \in Nat \ {0} /\ MaxQuantity \in Nat \ {0}
  BY WireAssumption
<1>0. TypeOK /\ RxInv /\ TxRangeInv /\ TurnInv /\ OwnInv
  BY DEF WireInv
<1>1. /\ UNCHANGED <<rxBuffer, rxBufferIndex, rxBufferLength, rxTurn, expected,
                     transmitting, turn, disturbed, handed>>
      /\ pc \in Storing /\ pc' \in {"storeIndex", "storeLength", "idle"}
  BY DEF StoreByte, StoreIndex, StoreLength, rx, Goto, Return
<1>2. reg \in 0 .. BufLen - 1 /\ transmitting
  BY <1>0, <1>1 DEF TxRangeInv, PastEnd, Index
<1>3. RxInv'
  BY <1>0, <1>1, RxFrame
<1>4. CASE StoreByte
  <2>1. /\ pc = "store" /\ pc' = "storeIndex" /\ reg' = reg /\ writes' = writes + 1
        /\ txBuffer' = [j \in Index |-> IF j = reg THEN Own(writes + 1) ELSE txBuffer[j]]
        /\ UNCHANGED <<txBufferIndex, txBufferLength>>
    BY <1>4 DEF StoreByte, Goto
  <2>2. writes \in Nat /\ writes < MaxQuantity
    BY <1>0, <2>1 DEF TypeOK, TxRangeInv
  <2>3. DOMAIN txBuffer' = Index /\ \A j \in Index :
          txBuffer'[j] = IF j = reg THEN Own(writes + 1) ELSE txBuffer[j]
    BY <2>1
  <2>4. TypeOK'
    BY <1>0, <1>1, <2>1, <2>2 DEF TypeOK
  <2>5. TxRangeInv'
    BY <1>0, <1>1, <1>2, <2>1, <2>3 DEF TxRangeInv
  <2>6. TurnInv'
    <3>1. Own(writes + 1)[1] = turn
      BY DEF Own
    <3>2. \A j \in Index : j <= reg => j = reg \/ j < reg
      BY <1>2 DEF Index
    <3>. QED
      BY <1>0, <1>1, <2>1, <2>3, <3>1, <3>2 DEF TurnInv
  <2>7. OwnInv'
    <3>. SUFFICES ASSUME ~disturbed
                  PROVE  OwnInv'
      BY <1>1, <2>1 DEF OwnInv
    <3>1. /\ writes < BufLen /\ reg = writes /\ txBufferIndex = writes
          /\ txBufferLength = writes
          /\ \A j \in Index : j < writes => txBuffer[j] = Own(j + 1)
      BY <1>0, <1>2, <2>1 DEF OwnInv
    <3>2. \A j \in Index : j < writes + 1 => j = writes \/ j < writes
      BY <2>2 DEF Index
    <3>3. \A j \in Index : j < writes + 1 => txBuffer'[j] = Own(j + 1)
      BY <2>3, <3>1, <3>2
    <3>4. writes + 1 - 1 = writes /\ writes + 1 <= BufLen /\ writes + 1 > 0
      BY <2>2, <3>1
    <3>5. /\ writes' <= BufLen /\ writes' > 0 /\ reg' = writes' - 1
          /\ txBufferIndex' = writes' - 1 /\ txBufferLength' = writes' - 1
          /\ pc' = "storeIndex"
      BY <2>1, <2>2, <3>1, <3>4
    <3>6. \A j \in Index : j < writes' => txBuffer'[j] = Own(j + 1)
      BY <2>1, <3>3
    <3>. QED
      BY <1>1, <3>5, <3>6 DEF OwnInv, Own
  <2>. QED
    BY <1>3, <2>4, <2>5, <2>6, <2>7 DEF WireInv
<1>5. CASE StoreIndex
  <2>1. /\ pc = "storeIndex" /\ pc' = "storeLength" /\ reg' = reg
        /\ txBufferIndex' = reg + 1
        /\ UNCHANGED <<txBuffer, txBufferLength, writes>>
    BY <1>5 DEF StoreIndex, Goto
  <2>2. TypeOK'
    BY <1>0, <1>1, <1>2, <2>1 DEF TypeOK
  <2>3. TxRangeInv'
    BY <1>0, <1>1, <1>2, <2>1 DEF TxRangeInv
  <2>4. TurnInv'
    <3>1. \A j \in Index : j < reg + 1 => j <= reg
      BY <1>2 DEF Index
    <3>. QED
      BY <1>0, <1>1, <2>1, <3>1 DEF TurnInv
  <2>5. OwnInv'
    <3>1. writes \in Nat
      BY <1>0 DEF TypeOK
    <3>. QED
      BY <1>0, <1>1, <1>2, <2>1, <3>1 DEF OwnInv, Own
  <2>. QED
    BY <1>3, <2>2, <2>3, <2>4, <2>5 DEF WireInv
<1>6. CASE StoreLength
  <2>1. /\ pc = "storeLength" /\ pc' = "idle" /\ txBufferLength' = reg + 1
        /\ UNCHANGED <<txBuffer, txBufferIndex, writes>>
    BY <1>6 DEF StoreLength, Return
  <2>2. TypeOK'
    BY <1>0, <1>1, <1>2, <2>1 DEF TypeOK
  <2>3. TxRangeInv'
    BY <1>0, <1>1, <1>2, <2>1 DEF TxRangeInv
  <2>4. TurnInv'
    <3>1. \A j \in Index : j < reg + 1 => j <= reg
      BY <1>2 DEF Index
    <3>. QED
      BY <1>0, <1>1, <2>1, <3>1 DEF TurnInv
  <2>5. OwnInv'
    <3>1. writes \in Nat
      BY <1>0 DEF TypeOK
    <3>. QED
      BY <1>0, <1>1, <1>2, <2>1, <3>1 DEF OwnInv, Own
  <2>. QED
    BY <1>3, <2>2, <2>3, <2>4, <2>5 DEF WireInv
<1>. QED
  BY <1>4, <1>5, <1>6

\* endTransmission() and the driver's copy of the bytes.
LEMMA EndTransmissionStep ==
  ASSUME WireInv,
         EndTransmission \/ WriteTo \/ SentIndex \/ SentLength \/ Sent
  PROVE  WireInv'
<1>. BufLen \in Nat \ {0} /\ MaxQuantity \in Nat \ {0}
  BY WireAssumption
<1>0. TypeOK /\ RxInv /\ TxRangeInv /\ TurnInv /\ OwnInv
  BY DEF WireInv
<1>1. /\ UNCHANGED <<rxBuffer, rxBufferIndex, rxBufferLength, rxTurn, expected,
                     txBuffer, turn, writes, disturbed>>
      /\ pc \in {"idle", "writeTo"} \cup Ending
      /\ pc' \in {"idle", "writeTo"} \cup Ending
      /\ transmitting
  BY <1>0
  DEF EndTransmission, WriteTo, SentIndex, SentLength, Sent, rx, tx, Idle, Goto,
      Return, TxRangeInv
<1>2. writes \in Nat /\ txBufferLength \in 0 .. BufLen
  BY <1>0 DEF TypeOK
<1>3. RxInv'
  BY <1>0, <1>1, RxFrame
<1>4. CASE EndTransmission
  <2>1. /\ pc = "idle" /\ pc' = "writeTo" /\ reg' = txBufferLength
        /\ UNCHANGED <<txBufferIndex, txBufferLength, transmitting, handed>>
    BY <1>4 DEF EndTransmission, Goto, Idle, tx
  <2>2. TypeOK'
    BY <1>0, <1>1, <2>1 DEF TypeOK
  <2>3. TxRangeInv'
    BY <1>0, <1>1, <1>2, <2>1 DEF TxRangeInv
  <2>4. TurnInv' /\ OwnInv'
    BY <1>0, <1>1, <2>1 DEF TurnInv, OwnInv, Own
  <2>. QED
    BY <1>3, <2>2, <2>3, <2>4 DEF WireInv
<1>5. CASE WriteTo
  <2>1. /\ pc = "writeTo" /\ pc' = "sent"
        /\ handed' = IF reg > BufLen THEN <<>> ELSE [k \in 1 .. reg |-> txBuffer[k - 1]]
        /\ UNCHANGED <<txBufferIndex, txBufferLength, transmitting>>
    BY <1>5 DEF WriteTo, Goto
  <2>2. reg \in 0 .. BufLen
    BY <1>0, <2>1 DEF TxRangeInv
  <2>3. TypeOK' /\ TxRangeInv'
    BY <1>0, <1>1, <2>1 DEF TypeOK, TxRangeInv
  <2>4. \A k \in 1 .. Len(handed') : handed'[k][1] = turn
    <3>1. CASE reg > BufLen
      <4>1. Len(handed') = 0
        BY <2>1, <3>1
      <4>. QED
        BY <4>1
    <3>2. CASE reg <= BufLen
      <4>1. handed' = [k \in 1 .. reg |-> txBuffer[k - 1]] /\ reg \in Nat
        BY <2>1, <2>2, <3>2
      <4>2. Len(handed') = reg
        BY <4>1
      <4>3. \A k \in 1 .. reg : k - 1 \in Index /\ k - 1 < reg
        BY <2>2, <3>2 DEF Index
      <4>. QED
        BY <1>0, <2>1, <4>1, <4>2, <4>3 DEF TurnInv
    <3>. QED
      BY <2>2, <3>1, <3>2
  <2>5. TurnInv'
    BY <1>0, <1>1, <2>1, <2>4 DEF TurnInv
  <2>6. OwnInv'
    <3>. SUFFICES ASSUME ~disturbed
                  PROVE  OwnInv'
      BY <1>1, <2>1 DEF OwnInv
    <3>1. /\ reg = writes /\ writes <= BufLen
          /\ \A j \in Index : j < writes => txBuffer[j] = Own(j + 1)
      BY <1>0, <1>1, <2>1 DEF OwnInv
    <3>2. \A k \in 1 .. writes : k - 1 \in Index /\ k - 1 < writes /\ k - 1 + 1 = k
      BY <1>2, <3>1 DEF Index
    <3>3. \A k \in 1 .. writes : txBuffer[k - 1] = Own(k)
      BY <3>1, <3>2
    <3>4. handed' = [k \in 1 .. writes |-> txBuffer[k - 1]]
      BY <1>2, <2>1, <3>1
    <3>5. handed' = [k \in 1 .. writes |-> Own(k)]
      BY <3>3, <3>4
    <3>. QED
      BY <1>1, <2>1, <3>1, <3>5 DEF OwnInv, Own
  <2>. QED
    BY <1>3, <2>3, <2>5, <2>6 DEF WireInv
<1>6. CASE SentIndex
  <2>1. /\ pc = "sent" /\ pc' = "sentIndex" /\ txBufferIndex' = 0
        /\ UNCHANGED <<txBufferLength, transmitting>>
    BY <1>6 DEF SentIndex, Goto
  <2>2. TypeOK'
    BY <1>0, <1>1, <2>1 DEF TypeOK
  <2>3. TxRangeInv'
    BY <1>0, <1>1, <2>1 DEF TxRangeInv
  <2>4. TurnInv'
    BY <1>0, <1>1, <2>1 DEF TurnInv, Index
  <2>5. OwnInv'
    BY <1>0, <1>1, <2>1 DEF OwnInv, Own
  <2>. QED
    BY <1>3, <2>2, <2>3, <2>4, <2>5 DEF WireInv
<1>7. CASE SentLength
  <2>1. /\ pc = "sentIndex" /\ pc' = "sentLength" /\ txBufferLength' = 0
        /\ UNCHANGED <<txBufferIndex, transmitting>>
    BY <1>7 DEF SentLength, Goto
  <2>2. TypeOK'
    BY <1>0, <1>1, <2>1 DEF TypeOK
  <2>3. TxRangeInv'
    BY <1>0, <1>1, <2>1 DEF TxRangeInv
  <2>4. TurnInv'
    BY <1>0, <1>1, <2>1 DEF TurnInv, Index
  <2>5. OwnInv'
    BY <1>0, <1>1, <2>1 DEF OwnInv, Own
  <2>. QED
    BY <1>3, <2>2, <2>3, <2>4, <2>5 DEF WireInv
<1>8. CASE Sent
  <2>1. /\ pc = "sentLength" /\ pc' = "idle" /\ transmitting' = FALSE
        /\ UNCHANGED <<txBufferIndex, txBufferLength>>
    BY <1>8 DEF Sent, Return
  <2>2. TypeOK'
    <3>1. transmitting' \in BOOLEAN
      BY <2>1
    <3>. QED
      BY <1>0, <1>1, <2>1, <3>1 DEF TypeOK
  <2>3. TxRangeInv'
    BY <1>0, <1>1, <2>1 DEF TxRangeInv
  <2>4. TurnInv'
    BY <1>0, <1>1, <2>1 DEF TurnInv, Index
  <2>5. OwnInv'
    BY <1>0, <1>1, <2>1 DEF OwnInv, Own
  <2>. QED
    BY <1>3, <2>2, <2>3, <2>4, <2>5 DEF WireInv
<1>. QED
  BY <1>4, <1>5, <1>6, <1>7, <1>8


\* requestFrom(): the bytes of the device, then the index and the length.
LEMMA RequestFromStep ==
  ASSUME WireInv,
         (\E quantity \in 1 .. MaxQuantity : RequestFrom(quantity)) \/ ReadFrom \/ ResetRx
  PROVE  WireInv'
<1>. BufLen \in Nat \ {0} /\ MaxQuantity \in Nat \ {0}
  BY WireAssumption
<1>0. TypeOK /\ RxInv /\ TxRangeInv /\ TurnInv /\ OwnInv
  BY DEF WireInv
<1>1. /\ UNCHANGED <<txBuffer, txBufferIndex, txBufferLength, transmitting, turn,
                     writes, disturbed, handed>>
      /\ pc \in {"idle", "readFrom", "received"}
      /\ pc' \in {"idle", "readFrom", "received"}
  BY DEF RequestFrom, ReadFrom, ResetRx, tx, Idle, Goto, Return
<1>2. TxRangeInv' /\ TurnInv' /\ OwnInv'
  BY <1>0, <1>1, TxFrame
<1>3. CASE \E quantity \in 1 .. MaxQuantity : RequestFrom(quantity)
  <2>1. PICK quantity \in 1 .. MaxQuantity : RequestFrom(quantity)
    BY <1>3
  <2>2. /\ pc = "idle" /\ pc' = "readFrom" /\ reg' = LeastOf(quantity, BufLen)
        /\ UNCHANGED <<rxBuffer, rxBufferIndex, rxBufferLength, rxTurn, expected>>
    BY <2>1 DEF RequestFrom, Idle, Goto, Clamped, rx
  <2>3. reg' \in 0 .. BufLen
    BY <2>2, LeastForm
  <2>4. TypeOK'
    BY <1>0, <1>1, <2>2 DEF TypeOK
  <2>5. RxInv'
    BY <1>0, <2>2, <2>3 DEF RxInv
  <2>. QED
    BY <1>2, <2>4, <2>5 DEF WireInv
<1>4. CASE ReadFrom
  <2>1. PICK n \in 0 .. reg :
          /\ Goto("received", n)
          /\ rxBuffer' = Filled(rxBuffer, Fresh(n, Device))
          /\ rxTurn' = IF n = 0 THEN rxTurn ELSE Flip(rxTurn)
          /\ expected' = IF n = 0 THEN expected ELSE Fresh(n, Device)
    BY <1>4 DEF ReadFrom
  <2>2. /\ pc = "readFrom" /\ pc' = "received" /\ reg' = n
        /\ UNCHANGED <<rxBufferIndex, rxBufferLength>>
    BY <1>4, <2>1 DEF ReadFrom, Goto
  <2>3. n \in 0 .. BufLen /\ n \in Nat
    BY <1>0, <2>2 DEF RxInv
  <2>4. rxTurn \in Turns /\ rxTurn' \in Turns
    BY <1>0, <2>1, FlipForm DEF TypeOK
  <2>. DEFINE new == Fresh(n, Device)
  <2>5. new \in Seq(Bytes) /\ Len(new) = n
    BY <2>3, <2>4, DeviceForm
  <2>6. /\ rxBuffer' = Filled(rxBuffer, new)
        /\ expected' = IF n = 0 THEN expected ELSE new
    BY <2>1
  <2>. HIDE DEF new
  <2>7. /\ DOMAIN rxBuffer' = Index
        /\ \A j \in Index : rxBuffer'[j] = IF j < n THEN new[j + 1] ELSE rxBuffer[j]
    BY <2>3, <2>5, <2>6, FilledForm
  <2>8. TypeOK'
    BY <1>0, <1>1, <2>2, <2>4 DEF TypeOK
  <2>9. CASE n = 0
    <3>1. \A j \in Index : rxBuffer'[j] = rxBuffer[j]
      BY <2>7, <2>9 DEF Index
    <3>2. \A k \in 1 .. Len(expected) : rxBufferIndex + k - 1 \in Index
      BY <1>0, <2>2 DEF RxInv, TypeOK, Index
    <3>3. RxInv'
      BY <1>0, <2>2, <2>3, <2>6, <2>7, <2>9, <3>1, <3>2 DEF RxInv
    <3>. QED
      BY <1>2, <2>8, <3>3 DEF WireInv
  <2>10. CASE n # 0
    <3>1. \A k \in 1 .. n : k - 1 \in Index /\ k - 1 < n /\ k - 1 + 1 = k
      BY <2>3 DEF Index
    <3>2. \A k \in 1 .. n : rxBuffer'[k - 1] = new[k]
      BY <2>7, <3>1
    <3>3. expected' = new
      BY <2>6, <2>10
    <3>4. DOMAIN rxBuffer' = Index /\ expected' \in Seq(Bytes)
      BY <2>5, <2>7, <3>3
    <3>5. pc' = "received" /\ reg' = n /\ reg' > 0 /\ reg' \in 0 .. BufLen
      BY <2>2, <2>3, <2>10
    <3>6. Len(expected') = n /\ \A k \in 1 .. n : rxBuffer'[k - 1] = expected'[k]
      BY <2>5, <3>2, <3>3
    <3>7. RxInv'
      BY <3>4, <3>5, <3>6 DEF RxInv
    <3>. QED
      BY <1>2, <2>8, <3>7 DEF WireInv
  <2>. QED
    BY <2>9, <2>10
<1>5. CASE ResetRx
  <2>1. /\ pc = "received" /\ pc' = "idle" /\ rxBufferIndex' = 0
        /\ rxBufferLength' = reg
        /\ expected' = IF reg = 0 THEN <<>> ELSE expected
        /\ UNCHANGED <<rxBuffer, rxTurn>>
    BY <1>5 DEF ResetRx, Return
  <2>2. reg \in 0 .. BufLen
    BY <1>0, <2>1 DEF RxInv
  <2>3. TypeOK'
    BY <1>0, <1>1, <2>1, <2>2 DEF TypeOK
  <2>4. CASE reg = 0
    <3>1. expected' \in Seq(Bytes) /\ Len(expected') = 0
      BY <2>1, <2>4
    <3>2. RxInv'
      BY <1>0, <2>1, <2>4, <3>1 DEF RxInv
    <3>. QED
      BY <1>2, <2>3, <3>2 DEF WireInv
  <2>5. CASE reg > 0
    <3>1. /\ expected' = expected /\ Len(expected) = reg
          /\ \A k \in 1 .. reg : rxBuffer[k - 1] = expected[k]
          /\ \A k \in 1 .. reg : 0 + k - 1 = k - 1
      BY <1>0, <2>1, <2>2, <2>5 DEF RxInv
    <3>2. RxInv'
      BY <1>0, <2>1, <2>2, <3>1 DEF RxInv
    <3>. QED
      BY <1>2, <2>3, <3>2 DEF WireInv
  <2>. QED
    BY <2>2, <2>4, <2>5
<1>. QED
  BY <1>3, <1>4, <1>5

\* read(): what is loaded is the next byte still, although a handler may have
\* run, because no reception is stored over bytes not yet read.
LEMMA ReadStep == ASSUME WireInv, Read \/ Load \/ Advance PROVE WireInv'
<1>. BufLen \in Nat \ {0} /\ MaxQuantity \in Nat \ {0}
  BY WireAssumption
<1>0. TypeOK /\ RxInv /\ TxRangeInv /\ TurnInv /\ OwnInv
  BY DEF WireInv
<1>1. /\ UNCHANGED <<rxBuffer, rxBufferLength, rxTurn, txBuffer, txBufferIndex,
                     txBufferLength, transmitting, turn, writes, disturbed, handed>>
      /\ pc \in {"idle", "load", "advance"} /\ pc' \in {"idle", "load", "advance"}
  BY DEF Read, Load, Advance, rx, tx, Idle, Goto, Return
<1>2. TxRangeInv' /\ TurnInv' /\ OwnInv'
  BY <1>0, <1>1, TxFrame
<1>3. /\ expected \in Seq(Bytes) /\ Len(expected) = rxBufferLength - rxBufferIndex
      /\ \A k \in 1 .. Len(expected) : rxBuffer[rxBufferIndex + k - 1] = expected[k]
      /\ rxBufferIndex \in 0 .. BufLen /\ rxBufferLength \in 0 .. BufLen
  BY <1>0, <1>1 DEF RxInv, TypeOK
<1>4. CASE Read
  <2>1. /\ pc = "idle" /\ UNCHANGED <<rxBufferIndex, expected>>
        /\ pc' = "idle" \/ (pc' = "load" /\ reg' = rxBufferIndex /\ Unread)
    BY <1>4 DEF Read, Idle, Goto, Return, rx
  <2>2. TypeOK'
    BY <1>0, <1>1, <2>1 DEF TypeOK
  <2>3. RxInv'
    BY <1>0, <1>1, <2>1 DEF RxInv, Unread
  <2>. QED
    BY <1>2, <2>2, <2>3 DEF WireInv
<1>5. CASE Load
  <2>1. /\ pc = "load" /\ pc' = "advance" /\ reg' = reg /\ ret' = rxBuffer[reg]
        /\ UNCHANGED <<rxBufferIndex, expected>>
    BY <1>5 DEF Load, rx
  <2>2. reg = rxBufferIndex /\ rxBufferIndex < rxBufferLength
    BY <1>0, <2>1 DEF RxInv, Unread
  <2>3. 1 \in 1 .. Len(expected) /\ rxBufferIndex + 1 - 1 = rxBufferIndex
    BY <1>3, <2>2
  <2>4. ret' = Head(expected)
    <3>1. Head(expected) = expected[1]
      BY <1>3
    <3>. QED
      BY <1>3, <2>1, <2>2, <2>3, <3>1
  <2>5. TypeOK'
    BY <1>0, <1>1, <2>1 DEF TypeOK
  <2>6. RxInv'
    BY <1>0, <1>1, <2>1, <2>4 DEF RxInv, Unread
  <2>. QED
    BY <1>2, <2>5, <2>6 DEF WireInv
<1>6. CASE Advance
  <2>1. /\ pc = "advance" /\ pc' = "idle" /\ rxBufferIndex' = reg + 1
        /\ expected' = Tail(expected)
    BY <1>6 DEF Advance, Return
  <2>2. reg = rxBufferIndex /\ rxBufferIndex < rxBufferLength
    BY <1>0, <2>1 DEF RxInv, Unread
  <2>3. expected # <<>>
    BY <1>3, <2>2
  <2>4. /\ expected' \in Seq(Bytes) /\ Len(expected') = Len(expected) - 1
        /\ \A k \in 1 .. Len(expected) - 1 : expected'[k] = expected[k + 1]
    BY <1>3, <2>1, <2>3
  <2>5. TypeOK'
    BY <1>0, <1>1, <1>3, <2>1, <2>2 DEF TypeOK
  <2>6. Len(expected') = rxBufferLength' - rxBufferIndex'
    BY <1>1, <1>3, <2>1, <2>2, <2>4
  <2>7. \A k \in 1 .. Len(expected') : rxBuffer[rxBufferIndex + 1 + k - 1] = expected'[k]
    <3>1. \A k \in 1 .. Len(expected') :
            /\ k \in 1 .. Len(expected) - 1 /\ k + 1 \in 1 .. Len(expected)
            /\ rxBufferIndex + 1 + k - 1 = rxBufferIndex + (k + 1) - 1
      BY <1>3, <2>4
    <3>. QED
      BY <1>3, <2>4, <3>1
  <2>8. RxInv'
    BY <1>0, <1>1, <2>1, <2>2, <2>4, <2>6, <2>7 DEF RxInv
  <2>. QED
    BY <1>2, <2>5, <2>8 DEF WireInv
<1>. QED
  BY <1>4, <1>5, <1>6

\* The other master sends, and the callback reads some of it.
LEMMA OnReceiveServiceStep ==
  ASSUME WireInv, NEW n \in 0 .. BufLen, NEW k \in 0 .. n, OnReceiveService(n, k)
  PROVE  WireInv'
<1>. BufLen \in Nat \ {0} /\ MaxQuantity \in Nat \ {0}
  BY WireAssumption
<1>0. TypeOK /\ RxInv /\ TxRangeInv /\ TurnInv /\ OwnInv
  BY DEF WireInv
<1>1. /\ UNCHANGED <<txBuffer, txBufferIndex, txBufferLength, transmitting, turn,
                     writes, disturbed, handed, pc, reg, ret>>
      /\ rxBufferLength' = n /\ rxBufferIndex' = k /\ ~Unread
      /\ pc = "received" => reg = 0
      /\ rxTurn' = Flip(rxTurn) /\ n \in Nat /\ k \in Nat
  BY DEF OnReceiveService, tx, sketch, InUse, MayEnd
<1>. DEFINE new == Fresh(n, Other)
<1>2. /\ rxBuffer' = Filled(rxBuffer, new)
      /\ expected' = SubSeq(new, k + 1, n)
  BY DEF OnReceiveService
<1>3. new \in Seq(Bytes) /\ Len(new) = n
  BY <1>0, <1>1, OtherForm DEF TypeOK
<1>. HIDE DEF new
<1>4. /\ DOMAIN rxBuffer' = Index
      /\ \A j \in Index : rxBuffer'[j] = IF j < n THEN new[j + 1] ELSE rxBuffer[j]
  BY <1>1, <1>2, <1>3, FilledForm
<1>5. /\ expected' \in Seq(Bytes) /\ Len(expected') = n - k
      /\ \A j \in 1 .. n - k : expected'[j] = new[k + j]
  <2>1. k + 1 \in 1 .. n + 1 /\ n \in 0 .. Len(new)
    BY <1>3
  <2>. DEFINE from == k + 1
  <2>2. from \in 1 .. n + 1
    BY <2>1
  <2>3. expected' = SubSeq(new, from, n)
    BY <1>2
  <2>4. from = k + 1
    OBVIOUS
  <2>. HIDE DEF from
  <2>5. /\ expected' \in Seq(Bytes)
        /\ Len(expected') = IF from <= n THEN n - from + 1 ELSE 0
        /\ \A j \in 1 .. n - from + 1 : expected'[j] = new[from + j - 1]
    BY <1>1, <1>3, <2>1, <2>2, <2>3, SubSeqProperties
  <2>6. n - from + 1 = n - k /\ \A j \in 1 .. n - k : from + j - 1 = k + j
    BY <2>4
  <2>. QED
    BY <2>2, <2>4, <2>5, <2>6
<1>6. \A j \in 1 .. n - k : rxBuffer'[k + j - 1] = expected'[j]
  <2>1. \A j \in 1 .. n - k :
          k + j - 1 \in Index /\ k + j - 1 < n /\ k + j - 1 + 1 = k + j
    BY DEF Index
  <2>. QED
    BY <1>4, <1>5, <2>1
<1>7. TypeOK'
  <2>1. rxTurn' \in Turns
    BY <1>0, <1>1, FlipForm DEF TypeOK
  <2>. QED
    BY <1>0, <1>1, <2>1 DEF TypeOK
<1>8. RxInv'
  <2>1. pc \notin {"load", "advance"}
    BY <1>0, <1>1 DEF RxInv
  <2>. QED
    BY <1>0, <1>1, <1>4, <1>5, <1>6, <2>1 DEF RxInv
<1>9. TxRangeInv' /\ TurnInv' /\ OwnInv'
  BY <1>0, <1>1 DEF TxRangeInv, TurnInv, OwnInv, Own
<1>. QED
  BY <1>7, <1>8, <1>9 DEF WireInv

\* The other master asks, and what the callback writes goes into txBuffer.
LEMMA OnRequestServiceStep ==
  ASSUME WireInv, NEW n \in 0 .. MaxQuantity, OnRequestService(n)
  PROVE  WireInv'
<1>. BufLen \in Nat \ {0} /\ MaxQuantity \in Nat \ {0}
  BY WireAssumption
<1>0. TypeOK /\ RxInv /\ TxRangeInv /\ TurnInv /\ OwnInv
  BY DEF WireInv
<1>. DEFINE stored == IF transmitting THEN LeastOf(n, BufLen) ELSE 0
            new == [k \in 1 .. stored |-> Reply(k)]
<1>1. /\ UNCHANGED <<rxBuffer, rxBufferIndex, rxBufferLength, rxTurn, expected,
                     transmitting, turn, writes, handed, pc, reg, ret>>
      /\ txBuffer' = Filled(txBuffer, new)
      /\ txBufferIndex' = stored /\ txBufferLength' = stored /\ disturbed' = TRUE
  BY DEF OnRequestService, rx, sketch
<1>2. stored \in 0 .. BufLen /\ stored \in Nat
  BY LeastForm
<1>. HIDE DEF stored
<1>3. Len(new) = stored /\ \A k \in 1 .. stored : new[k][1] = turn
  BY <1>2 DEF Reply
<1>. HIDE DEF new
<1>4. /\ DOMAIN txBuffer' = Index
      /\ \A j \in Index : txBuffer'[j] = IF j < stored THEN new[j + 1] ELSE txBuffer[j]
  BY <1>1, <1>2, <1>3, FilledForm
<1>5. \A j \in Index : IF j < stored THEN txBuffer'[j][1] = turn
                                     ELSE txBuffer'[j] = txBuffer[j]
  <2>1. \A j \in Index : j < stored => j + 1 \in 1 .. stored
    BY <1>2 DEF Index
  <2>. QED
    BY <1>3, <1>4, <2>1
<1>6. TypeOK'
  <2>1. disturbed' \in BOOLEAN
    BY <1>1
  <2>. QED
    BY <1>0, <1>1, <1>2, <2>1 DEF TypeOK
<1>7. RxInv'
  BY <1>0, <1>1 DEF RxInv, Unread
<1>8. TxRangeInv'
  BY <1>0, <1>1, <1>2, <1>4 DEF TxRangeInv
<1>9. TurnInv' /\ OwnInv'
  BY <1>0, <1>1, <1>5 DEF TurnInv, OwnInv
<1>. QED
  BY <1>6, <1>7, <1>8, <1>9 DEF WireInv

LEMMA Invariant == WireInv /\ [Next]_vars => WireInv'
<1>. SUFFICES ASSUME WireInv, [Next]_vars
              PROVE  WireInv'
  OBVIOUS
<1>1. CASE Begin \/ End \/ \E receive, request \in BOOLEAN : Register(receive, request)
  BY <1>1, SetupStep
<1>2. CASE BeginTransmission \/ ResetTxIndex \/ ResetTxLength
  BY <1>2, BeginTransmissionStep
<1>3. CASE Write
  BY <1>3, WriteStep
<1>4. CASE ~PastEnd /\ (StoreByte \/ StoreIndex \/ StoreLength)
  BY <1>4, StoreStep
<1>5. CASE EndTransmission \/ WriteTo \/ SentIndex \/ SentLength \/ Sent
  BY <1>5, EndTransmissionStep
<1>6. CASE (\E quantity \in 1 .. MaxQuantity : RequestFrom(quantity)) \/ ReadFrom
           \/ ResetRx
  BY <1>6, RequestFromStep
<1>7. CASE Read \/ Load \/ Advance
  BY <1>7, ReadStep
<1>8. CASE \E n \in 0 .. BufLen : \E k \in 0 .. n : OnReceiveService(n, k)
  BY <1>8, OnReceiveServiceStep
<1>9. CASE \E n \in 0 .. MaxQuantity : OnRequestService(n)
  BY <1>9, OnRequestServiceStep
<1>10. CASE UNCHANGED vars
  <2>1. UNCHANGED <<rx, tx, pc, reg, ret>>
    BY <1>10 DEF vars, sketch
  <2>2. TypeOK' /\ RxInv'
    BY <2>1 DEF rx, tx, WireInv, TypeOK, RxInv, Unread
  <2>3. TxRangeInv' /\ TurnInv' /\ OwnInv'
    BY <2>1 DEF tx, WireInv, TxRangeInv, TurnInv, OwnInv, Own
  <2>. QED
    BY <2>2, <2>3 DEF WireInv
<1>. QED
  BY <1>1, <1>2, <1>3, <1>4, <1>5, <1>6, <1>7, <1>8, <1>9, <1>10 DEF Next, Step

-----------------------------------------------------------------------------
(* The theorems.                                                           *)

\* read() returns the bytes of one transfer, each once and in order, for every
\* length of the buffer and whatever the services do in between, until a store
\* past the end of the other buffer.
THEOREM ReadCorrect == Spec => []ReadsFaithful
<1>. BufLen \in Nat \ {0}
  BY WireAssumption
<1>1. ASSUME WireInv
      PROVE  ReadsFaithful
  <2>1. TypeOK /\ RxInv /\ TxRangeInv /\ OwnInv
    BY <1>1 DEF WireInv
  <2>2. InBounds
    BY <2>1 DEF RxInv, TxRangeInv, OwnInv, InBounds, Unread, TypeOK, Index
  <2>3. pc \in {"idle", "load", "advance"} => Len(expected) = rxBufferLength - rxBufferIndex
    BY <2>1 DEF RxInv
  <2>4. pc = "advance" => expected # <<>> /\ ret = Head(expected)
    BY <2>1, <2>3 DEF RxInv, Unread, TypeOK
  <2>. QED
    BY <2>1, <2>2, <2>3, <2>4 DEF ReadsFaithful
<1>. QED
  BY Initial, Invariant, <1>1, PTL DEF Spec

\* What endTransmission() gives the driver was written since beginTransmission(),
\* and it is the bytes write() accepted, in order, if no request came between.
THEOREM TransmissionCorrect == Spec => []TransmissionFaithful
<1>1. ASSUME WireInv
      PROVE  TransmissionFaithful
  BY <1>1 DEF WireInv, TransmissionFaithful, TurnInv, OwnInv, TxRangeInv
<1>. QED
  BY Initial, Invariant, <1>1, PTL DEF Spec
=============================================================================

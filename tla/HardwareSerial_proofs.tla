------------------------ MODULE HardwareSerial_proofs ------------------------
(***************************************************************************)
(* Proofs about HardwareSerial, for every buffer size, every set of calls  *)
(* and every bound.  The transmit side, with its refinement of SerialPort, *)
(* is that of a sketch that does not call begin() on a port that is open.  *)
(***************************************************************************)
EXTENDS HardwareSerialPort, TLAPS, SequenceTheorems

-----------------------------------------------------------------------------
(* The inductive invariant of the receive side.                            *)

\* The position of the sketch belongs to the call it is making.
CallInv ==
  \/ pc = "idle"
  \/ call = "begin" /\ pc \in {"begin", "rmwLoad", "rmwStore"}
  \/ call = "end" /\ pc \in {"flushU0", "flushU", "flushT", "flushBody",
                             "rmwLoad", "rmwStore", "clearRx"}
  \/ call = "flush" /\ pc \in {"flushU0", "flushU", "flushT", "flushBody"}
  \/ call = "write" /\ pc \in {"write", "fastUdr", "fastTxc", "wait", "store",
                               "head", "udrie"}
  \/ call = "availableForWrite" /\ pc \in {"afwTail", "afw"}
  \/ call = "available" /\ pc \in {"availHead", "avail"}
  \/ call = "peek" /\ pc \in {"peek", "peekSlot"}
  \/ call = "read" /\ pc \in {"read", "readSlot", "readTail"}

\* Locals are only used where they have been set.
LocalInv ==
  /\ pc \in {"rmwLoad", "rmwStore"} => todo # <<>>
  /\ pc = "afw" => reg \in 0 .. TxSize - 1
  /\ pc = "avail" => reg \in 0 .. RxSize - 1

\* The ring holds the unread bytes, in order, from the tail on.
RxRingInv ==
  /\ Len(rxQueue) = RxCount
  /\ \A k \in 1 .. Len(rxQueue) :
       rxBuf[Slot(rxTail, k - 1, RxSize)] = rxQueue[k]

\* What a receive call found out before the handler ran again still holds.
RxCallInv ==
  /\ rxCredit <= RxCount
  /\ pc = "avail" => Fill(reg, rxTail, RxSize) <= RxCount
  /\ pc \in {"peekSlot", "readSlot", "readTail"} => rxQueue # <<>>
  /\ pc = "readTail" => reg = rxQueue[1]
  /\ pc = "idle" /\ call = "read" /\ ret = -1 => rxCredit = 0
  /\ pc = "idle" /\ call = "peek" /\ ret # -1 => rxQueue # <<>> /\ ret = rxQueue[1]

RxInv == TypeOK /\ CallInv /\ LocalInv /\ RxRingInv /\ RxCallInv

-----------------------------------------------------------------------------
(* Ring arithmetic without the modulus.                                    *)

\* The successor of a ring index is a ring index.
LEMMA SuccForm ==
  ASSUME NEW size \in Nat, size >= 2, NEW i \in 0 .. size - 1
  PROVE  /\ Succ(i, size) = IF i + 1 = size THEN 0 ELSE i + 1
         /\ Succ(i, size) \in 0 .. size - 1
  BY DEF Succ

\* How full a ring is, whichever of head and tail is ahead.
LEMMA FillForm ==
  ASSUME NEW size \in Nat, size >= 2,
         NEW head \in 0 .. size - 1, NEW tail \in 0 .. size - 1
  PROVE  /\ Fill(head, tail, size) =
              IF head >= tail THEN head - tail ELSE size + head - tail
         /\ Fill(head, tail, size) \in 0 .. size - 1
  BY DEF Fill

LEMMA FreeForm ==
  ASSUME NEW head \in 0 .. TxSize - 1, NEW tail \in 0 .. TxSize - 1
  PROVE  FreeSlots(head, tail) = TxSize - 1 - Fill(head, tail, TxSize)
<1>1. Fill(head, tail, TxSize) =
        IF head >= tail THEN head - tail ELSE TxSize + head - tail
  BY FillForm, SizeAssumption
<1>. QED
  BY <1>1, SizeAssumption DEF FreeSlots

\* A ring is empty when head and tail meet and full when the head is just
\* behind the tail; the k-th slot from the tail is inside the buffer.
LEMMA RingForm ==
  ASSUME NEW size \in Nat, size >= 2,
         NEW head \in 0 .. size - 1, NEW tail \in 0 .. size - 1
  PROVE  /\ Fill(head, tail, size) = 0 <=> head = tail
         /\ Fill(head, tail, size) = size - 1 <=> Succ(head, size) = tail
         /\ \A k \in 0 .. size - 1 : Slot(tail, k, size) \in 0 .. size - 1
         /\ Slot(tail, 0, size) = tail
<1>1. Succ(head, size) = IF head + 1 = size THEN 0 ELSE head + 1
  BY SuccForm
<1>2. Fill(head, tail, size) =
        IF head >= tail THEN head - tail ELSE size + head - tail
  BY FillForm
<1>. QED
  BY <1>1, <1>2 DEF Slot

\* Moving the head of a ring that is not full adds the slot at the head, which
\* no byte from the tail on occupies.
LEMMA PushForm ==
  ASSUME NEW size \in Nat, size >= 2,
         NEW head \in 0 .. size - 1, NEW tail \in 0 .. size - 1,
         Succ(head, size) # tail
  PROVE  /\ Fill(Succ(head, size), tail, size) = Fill(head, tail, size) + 1
         /\ Slot(tail, Fill(head, tail, size), size) = head
         /\ \A k \in 0 .. Fill(head, tail, size) - 1 : Slot(tail, k, size) # head
<1>1. /\ Succ(head, size) = IF head + 1 = size THEN 0 ELSE head + 1
      /\ Succ(head, size) \in 0 .. size - 1
  BY SuccForm
<1>2. Fill(head, tail, size) =
        IF head >= tail THEN head - tail ELSE size + head - tail
  BY FillForm
<1>3. Fill(Succ(head, size), tail, size) =
        IF Succ(head, size) >= tail THEN Succ(head, size) - tail
                                    ELSE size + Succ(head, size) - tail
  BY <1>1, FillForm
<1>. QED
  BY <1>1, <1>2, <1>3 DEF Slot

\* Moving the tail of a ring that is not empty drops the slot at the tail and
\* renumbers the others.
LEMMA PopForm ==
  ASSUME NEW size \in Nat, size >= 2,
         NEW head \in 0 .. size - 1, NEW tail \in 0 .. size - 1,
         head # tail
  PROVE  /\ Fill(head, Succ(tail, size), size) = Fill(head, tail, size) - 1
         /\ \A k \in 0 .. Fill(head, tail, size) - 2 :
              Slot(Succ(tail, size), k, size) = Slot(tail, k + 1, size)
<1>1. /\ Succ(tail, size) = IF tail + 1 = size THEN 0 ELSE tail + 1
      /\ Succ(tail, size) \in 0 .. size - 1
  BY SuccForm
<1>2. Fill(head, tail, size) =
        IF head >= tail THEN head - tail ELSE size + head - tail
  BY FillForm
<1>3. Fill(head, Succ(tail, size), size) =
        IF head >= Succ(tail, size) THEN head - Succ(tail, size)
                                    ELSE size + head - Succ(tail, size)
  BY <1>1, FillForm
<1>. QED
  BY <1>1, <1>2, <1>3 DEF Slot

\* Sequences keep their type at both ends.
LEMMA AppendType ==
  ASSUME NEW S, NEW s \in Seq(S), NEW e \in S
  PROVE  Append(s, e) \in Seq(S)
  OBVIOUS

LEMMA HeadTailType ==
  ASSUME NEW S, NEW s \in Seq(S), s # <<>>
  PROVE  /\ Head(s) \in S /\ Head(s) = s[1] /\ Tail(s) \in Seq(S)
         /\ Len(s) \in Nat /\ Len(s) > 0 /\ Len(Tail(s)) = Len(s) - 1
         /\ \A k \in 1 .. Len(s) - 1 : Tail(s)[k] = s[k + 1]
  OBVIOUS

\* The edits of UCSRB that begin() and end() make are lists of edits.
LEMMA EditsForm ==
  /\ BeginEdits \in Seq(Edits) /\ BeginEdits # <<>>
  /\ EndEdits \in Seq(Edits) /\ EndEdits # <<>>
<1>1. \A b \in EnableBits, v \in BOOLEAN : <<b, v>> \in Edits
  BY DEF Edits
<1>2. /\ <<"rxen", TRUE>> \in Edits /\ <<"rxen", FALSE>> \in Edits
      /\ <<"txen", TRUE>> \in Edits /\ <<"txen", FALSE>> \in Edits
      /\ <<"rxcie", TRUE>> \in Edits /\ <<"rxcie", FALSE>> \in Edits
      /\ <<"udrie", FALSE>> \in Edits
  BY <1>1 DEF EnableBits
<1>3. \A S, a, b, c, d : a \in S /\ b \in S /\ c \in S /\ d \in S
        => <<a, b, c, d>> \in Seq(S) /\ <<a, b, c, d>> # <<>>
  OBVIOUS
<1>. QED
  BY <1>2, <1>3, Zenon DEF BeginEdits, EndEdits

-----------------------------------------------------------------------------
(* Type correctness and the receive side.                                  *)

LEMMA RxInitial == Init => RxInv
<1>. SUFFICES ASSUME Init PROVE RxInv
  OBVIOUS
<1>1. Fill(0, 0, RxSize) = 0
  BY FillForm, SizeAssumption
<1>. QED
  BY <1>1, SizeAssumption, BoundAssumption
  DEF Init, RxInv, TypeOK, UsartType, ObjectType, SketchType, HistoryType,
      CallInv, LocalInv, RxRingInv, RxCallInv, RxCount,
      CallNames, PcNames, EnableBits, Edits

\* Five lemmas, one per part of the invariant.

\* The position belongs to the call.
LEMMA CallStep == CallInv /\ [Next]_vars => CallInv'
<1>. SUFFICES ASSUME CallInv, [Next]_vars PROVE CallInv'
  OBVIOUS
<1>. USE CallsAssumption DEF CallInv, CallNames, sketch
<1>1. ASSUME NEW op \in Calls \ {"noInterrupts", "interrupts"}, StartCall(op) PROVE CallInv'
  BY <1>1 DEF StartCall, EntryPoint, Idle
<1>2. ASSUME Begin PROVE CallInv'
  BY <1>2 DEF Begin
<1>3. ASSUME RmwLoad PROVE CallInv'
  BY <1>3 DEF RmwLoad
<1>4. ASSUME RmwStore PROVE CallInv'
  BY <1>4 DEF RmwStore
<1>5. ASSUME ClearRx PROVE CallInv'
  BY <1>5 DEF ClearRx, Goto
<1>6. ASSUME FlushTest PROVE CallInv'
  BY <1>6 DEF FlushTest, FlushDone, Goto
<1>7. ASSUME FlushBody PROVE CallInv'
  BY <1>7 DEF FlushBody, TxUdrEmptyIrq, StoreUdr, Goto
<1>8. ASSUME WriteTest PROVE CallInv'
  BY <1>8 DEF WriteTest, Goto
<1>9. ASSUME FastUdr PROVE CallInv'
  BY <1>9 DEF FastUdr, StoreUdr, Goto
<1>10. ASSUME FastTxc PROVE CallInv'
  BY <1>10 DEF FastTxc, WriteReturn, Return
<1>11. ASSUME WriteWait PROVE CallInv'
  BY <1>11 DEF WriteWait, TxUdrEmptyIrq, StoreUdr, Goto
<1>12. ASSUME WriteStore PROVE CallInv'
  BY <1>12 DEF WriteStore, Goto
<1>13. ASSUME WriteHead PROVE CallInv'
  BY <1>13 DEF WriteHead, Goto
<1>14. ASSUME WriteUdrie PROVE CallInv'
  BY <1>14 DEF WriteUdrie, WriteReturn, Return
<1>15. ASSUME AvailableForWrite PROVE CallInv'
  BY <1>15 DEF AvailableForWrite, Return
<1>16. ASSUME Available PROVE CallInv'
  BY <1>16 DEF Available, Return
<1>17. ASSUME Peek PROVE CallInv'
  BY <1>17 DEF Peek, Return, Goto
<1>18. ASSUME Read PROVE CallInv'
  BY <1>18 DEF Read, Return, Goto
<1>19. ASSUME ReadTail PROVE CallInv'
  BY <1>19 DEF ReadTail, Return
<1>20. ASSUME (\E b \in BOOLEAN : SetI(b))
       PROVE CallInv'
  BY <1>20 DEF SetI
<1>21. ASSUME UdrEmptyInterrupt \/ RxCompleteInterrupt \/ LoadShift \/ ShiftOut \/ Arrive
       PROVE CallInv'
  BY <1>21 DEF UdrEmptyInterrupt, TxUdrEmptyIrq, StoreUdr,
  RxCompleteInterrupt, LoadShift, ShiftOut, Arrive
<1>22. CASE UNCHANGED vars
  BY <1>22 DEF vars
<1>. QED
  BY <1>1, <1>2, <1>3, <1>4, <1>5, <1>6, <1>7, <1>8, <1>9, <1>10, <1>11,
     <1>12, <1>13, <1>14, <1>15, <1>16, <1>17, <1>18, <1>19, <1>20, <1>21,
     <1>22
  DEF Next, StartAny, SketchStep

\* Locals are set before they are used.
LEMMA LocalStep == RxInv /\ [Next]_vars => LocalInv'
<1>. SUFFICES ASSUME RxInv, [Next]_vars PROVE LocalInv'
  OBVIOUS
<1>. USE SizeAssumption, CallsAssumption, EditsForm DEF RxInv, TypeOK, SketchType, ObjectType, CallInv, LocalInv, CallNames, sketch, EnableBits, Edits
<1>1. ASSUME NEW op \in Calls \ {"noInterrupts", "interrupts"}, StartCall(op) PROVE LocalInv'
  BY <1>1 DEF StartCall, EntryPoint, Idle
<1>2. ASSUME Begin PROVE LocalInv'
  BY <1>2 DEF Begin
<1>3. ASSUME RmwLoad PROVE LocalInv'
  BY <1>3 DEF RmwLoad
<1>4. ASSUME RmwStore PROVE LocalInv'
  BY <1>4 DEF RmwStore
<1>5. ASSUME ClearRx PROVE LocalInv'
  BY <1>5 DEF ClearRx, Goto
<1>6. ASSUME FlushTest PROVE LocalInv'
  BY <1>6 DEF FlushTest, FlushDone, Goto
<1>7. ASSUME FlushBody PROVE LocalInv'
  BY <1>7 DEF FlushBody, TxUdrEmptyIrq, StoreUdr, Goto
<1>8. ASSUME WriteTest PROVE LocalInv'
  BY <1>8 DEF WriteTest, Goto
<1>9. ASSUME FastUdr PROVE LocalInv'
  BY <1>9 DEF FastUdr, StoreUdr, Goto
<1>10. ASSUME FastTxc PROVE LocalInv'
  BY <1>10 DEF FastTxc, WriteReturn, Return
<1>11. ASSUME WriteWait PROVE LocalInv'
  BY <1>11 DEF WriteWait, TxUdrEmptyIrq, StoreUdr, Goto
<1>12. ASSUME WriteStore PROVE LocalInv'
  BY <1>12 DEF WriteStore, Goto
<1>13. ASSUME WriteHead PROVE LocalInv'
  BY <1>13 DEF WriteHead, Goto
<1>14. ASSUME WriteUdrie PROVE LocalInv'
  BY <1>14 DEF WriteUdrie, WriteReturn, Return
<1>15. ASSUME AvailableForWrite PROVE LocalInv'
  BY <1>15 DEF AvailableForWrite, Return
<1>16. ASSUME Available PROVE LocalInv'
  BY <1>16 DEF Available, Return
<1>17. ASSUME Peek PROVE LocalInv'
  BY <1>17 DEF Peek, Return, Goto
<1>18. ASSUME Read PROVE LocalInv'
  BY <1>18 DEF Read, Return, Goto
<1>19. ASSUME ReadTail PROVE LocalInv'
  BY <1>19 DEF ReadTail, Return
<1>20. ASSUME (\E b \in BOOLEAN : SetI(b))
       PROVE LocalInv'
  BY <1>20 DEF SetI
<1>21. ASSUME UdrEmptyInterrupt \/ RxCompleteInterrupt \/ LoadShift \/ ShiftOut \/ Arrive
       PROVE LocalInv'
  BY <1>21 DEF UdrEmptyInterrupt, TxUdrEmptyIrq, StoreUdr,
  RxCompleteInterrupt, LoadShift, ShiftOut, Arrive
<1>22. CASE UNCHANGED vars
  BY <1>22 DEF vars
<1>. QED
  BY <1>1, <1>2, <1>3, <1>4, <1>5, <1>6, <1>7, <1>8, <1>9, <1>10, <1>11,
     <1>12, <1>13, <1>14, <1>15, <1>16, <1>17, <1>18, <1>19, <1>20, <1>21,
     <1>22
  DEF Next, StartAny, SketchStep

\* What the actions compute, when the invariant holds.
LEMMA StepValues ==
  ASSUME RxInv
  PROVE  /\ Succ(txHead, TxSize) \in 0 .. TxSize - 1
         /\ Succ(txTail, TxSize) \in 0 .. TxSize - 1
         /\ Succ(rxHead, RxSize) \in 0 .. RxSize - 1
         /\ Succ(rxTail, RxSize) \in 0 .. RxSize - 1
         /\ txTail \in Nat /\ rxHead \in Nat
         /\ txBuf[txTail] \in 0 .. MaxWrites
         /\ rxBuf[rxTail] \in 0 .. MaxArrivals
         /\ pc = "afw" => FreeSlots(txHead, reg) \in 0 .. TxSize - 1
         /\ pc = "avail" => Fill(reg, rxTail, RxSize) \in 0 .. RxSize - 1
         /\ LowerBy1(txCredit) \in 0 .. TxSize - 1
         /\ LowerBy1(rxCredit) \in 0 .. RxSize - 1
<1>0. /\ TxSize \in Nat /\ TxSize >= 2 /\ RxSize \in Nat /\ RxSize >= 2
      /\ txHead \in 0 .. TxSize - 1 /\ txTail \in 0 .. TxSize - 1
      /\ rxHead \in 0 .. RxSize - 1 /\ rxTail \in 0 .. RxSize - 1
      /\ txBuf \in [0 .. TxSize - 1 -> 0 .. MaxWrites]
      /\ rxBuf \in [0 .. RxSize - 1 -> 0 .. MaxArrivals]
      /\ txCredit \in 0 .. TxSize - 1 /\ rxCredit \in 0 .. RxSize - 1
      /\ pc = "afw" => reg \in 0 .. TxSize - 1
      /\ pc = "avail" => reg \in 0 .. RxSize - 1
  BY SizeAssumption
  DEF RxInv, TypeOK, ObjectType, HistoryType, LocalInv
<1>1. /\ Succ(txHead, TxSize) \in 0 .. TxSize - 1
      /\ Succ(txTail, TxSize) \in 0 .. TxSize - 1
      /\ Succ(rxHead, RxSize) \in 0 .. RxSize - 1
      /\ Succ(rxTail, RxSize) \in 0 .. RxSize - 1
  BY <1>0, SuccForm
<1>2. /\ txTail \in Nat /\ rxHead \in Nat
      /\ txBuf[txTail] \in 0 .. MaxWrites
      /\ rxBuf[rxTail] \in 0 .. MaxArrivals
  BY <1>0
<1>3. ASSUME pc = "afw" PROVE FreeSlots(txHead, reg) \in 0 .. TxSize - 1
  <2>1. txHead \in 0 .. TxSize - 1 /\ reg \in 0 .. TxSize - 1
    BY <1>0, <1>3
  <2>2. Fill(txHead, reg, TxSize) \in 0 .. TxSize - 1
    BY <2>1, FillForm, SizeAssumption
  <2>3. FreeSlots(txHead, reg) = TxSize - 1 - Fill(txHead, reg, TxSize)
    BY <2>1, FreeForm
  <2>. QED
    BY <2>2, <2>3, SizeAssumption
<1>4. pc = "avail" => Fill(reg, rxTail, RxSize) \in 0 .. RxSize - 1
  BY <1>0, FillForm
<1>5. /\ LowerBy1(txCredit) \in 0 .. TxSize - 1
      /\ LowerBy1(rxCredit) \in 0 .. RxSize - 1
  BY <1>0 DEF LowerBy1
<1>. QED
  BY <1>1, <1>2, <1>3, <1>4, <1>5

\* The list of edits and the receive FIFO hold what their types say.
LEMMA StepHeads ==
  ASSUME RxInv
  PROVE  /\ pc = "rmwStore" => /\ Head(todo)[1] \in EnableBits
                               /\ Head(todo)[2] \in BOOLEAN
                               /\ Tail(todo) \in Seq(Edits)
         /\ rxFifo # <<>> => /\ Head(rxFifo).byte \in 1 .. MaxArrivals
                             /\ Tail(rxFifo) \in Seq([byte : 1 .. MaxArrivals,
                                                      upe : BOOLEAN])
<1>. USE DEF RxInv, TypeOK, UsartType, SketchType, LocalInv
<1>1. ASSUME pc = "rmwStore"
      PROVE  Head(todo) \in Edits /\ Tail(todo) \in Seq(Edits)
  BY HeadTailType, <1>1
<1>2. ASSUME rxFifo # <<>>
      PROVE  /\ Head(rxFifo) \in [byte : 1 .. MaxArrivals, upe : BOOLEAN]
             /\ Tail(rxFifo) \in Seq([byte : 1 .. MaxArrivals, upe : BOOLEAN])
  BY HeadTailType, <1>2, Zenon
<1>3. \A e \in Edits : e[1] \in EnableBits /\ e[2] \in BOOLEAN
  BY DEF Edits
<1>. QED
  BY <1>1, <1>2, <1>3

\* The USART keeps its type.
LEMMA UsartTypeStep == RxInv /\ [Next]_vars => UsartType'
<1>. SUFFICES ASSUME RxInv, [Next]_vars PROVE UsartType'
  OBVIOUS
<1>0. /\ txBuf[txTail] \in 0 .. MaxWrites
      /\ pc = "rmwStore" => Head(todo)[1] \in EnableBits /\ Head(todo)[2] \in BOOLEAN
      /\ rxFifo # <<>> => /\ Head(rxFifo).byte \in 1 .. MaxArrivals
                        /\ Tail(rxFifo) \in Seq([byte : 1 .. MaxArrivals,
                                                 upe : BOOLEAN])
  BY StepValues, StepHeads
<1>. USE SizeAssumption, BoundAssumption DEF RxInv, TypeOK, UsartType, usart
<1>1. ASSUME RmwStore PROVE UsartType'
  <2>1. pc = "rmwStore" /\ ucsrb' = [copy EXCEPT ![Head(todo)[1]] = Head(todo)[2]]
    BY <1>1 DEF RmwStore
  <2>2. ucsrb' \in [EnableBits -> BOOLEAN]
    BY <2>1, <1>0 DEF SketchType
  <2>3. rxFifo' \in Seq([byte : 1 .. MaxArrivals, upe : BOOLEAN])
    BY <1>1 DEF RmwStore
  <2>. QED
    BY <1>1, <2>2, <2>3 DEF RmwStore
<1>2. ASSUME FlushBody PROVE UsartType'
  BY <1>2, <1>0 DEF FlushBody, TxUdrEmptyIrq, StoreUdr, Goto
<1>3. ASSUME FastUdr PROVE UsartType'
  BY <1>3 DEF HistoryType, FastUdr, StoreUdr, Goto
<1>4. ASSUME FastTxc PROVE UsartType'
  BY <1>4 DEF FastTxc, WriteReturn, Return
<1>5. ASSUME WriteWait PROVE UsartType'
  BY <1>5, <1>0 DEF WriteWait, TxUdrEmptyIrq, StoreUdr, Goto
<1>6. ASSUME WriteUdrie PROVE UsartType'
  BY <1>6 DEF WriteUdrie, WriteReturn, Return
<1>7. ASSUME UdrEmptyInterrupt PROVE UsartType'
  BY <1>7, <1>0 DEF UdrEmptyInterrupt, TxUdrEmptyIrq, StoreUdr
<1>8. ASSUME RxCompleteInterrupt PROVE UsartType'
  BY <1>8, <1>0 DEF RxCompleteInterrupt
<1>9. ASSUME LoadShift PROVE UsartType'
  BY <1>9 DEF LoadShift
<1>10. ASSUME ShiftOut PROVE UsartType'
  BY <1>10 DEF ShiftOut
<1>11. ASSUME Arrive PROVE UsartType'
  <2>1. PICK upe \in BOOLEAN :
          rxFifo' = IF Len(rxFifo) < FifoDepth
                    THEN Append(rxFifo, [byte |-> arrived', upe |-> upe])
                    ELSE rxFifo
    BY <1>11 DEF Arrive
  <2>2. arrived' \in 1 .. MaxArrivals
    BY <1>11 DEF Arrive, HistoryType
  <2>3. [byte |-> arrived', upe |-> upe] \in [byte : 1 .. MaxArrivals, upe : BOOLEAN]
    BY <2>2
  <2>5. Append(rxFifo, [byte |-> arrived', upe |-> upe])
          \in Seq([byte : 1 .. MaxArrivals, upe : BOOLEAN])
    BY <2>3, AppendType, Zenon
  <2>6. rxFifo' \in Seq([byte : 1 .. MaxArrivals, upe : BOOLEAN])
    BY <2>1, <2>5, Zenon
  <2>. QED
    BY <1>11, <2>6 DEF Arrive
<1>12. ASSUME (\E op \in Calls \ {"noInterrupts", "interrupts"} : StartCall(op)) \/ (\E b \in BOOLEAN : SetI(b))
       PROVE UsartType'
  BY <1>12 DEF StartCall, SetI
<1>13. ASSUME Begin \/ RmwLoad \/ ClearRx \/ FlushTest \/ WriteTest \/ WriteStore \/
              WriteHead
       PROVE UsartType'
  BY <1>13 DEF Begin, RmwLoad, ClearRx, Goto, FlushTest, FlushDone,
  WriteTest, WriteStore, WriteHead
<1>14. ASSUME AvailableForWrite \/ Available \/ Peek \/ Read \/ ReadTail
       PROVE UsartType'
  BY <1>14 DEF AvailableForWrite, Return, Available, Peek, Goto, Read,
  ReadTail
<1>15. CASE UNCHANGED vars
  BY <1>15 DEF vars
<1>. QED
  BY <1>1, <1>2, <1>3, <1>4, <1>5, <1>6, <1>7, <1>8, <1>9, <1>10, <1>11,
     <1>12, <1>13, <1>14, <1>15
  DEF Next, StartAny, SketchStep

\* The rings keep their type.
LEMMA ObjectTypeStep == RxInv /\ [Next]_vars => ObjectType'
<1>. SUFFICES ASSUME RxInv, [Next]_vars PROVE ObjectType'
  OBVIOUS
<1>0. /\ Succ(txHead, TxSize) \in 0 .. TxSize - 1
      /\ Succ(txTail, TxSize) \in 0 .. TxSize - 1
      /\ Succ(rxHead, RxSize) \in 0 .. RxSize - 1
      /\ Succ(rxTail, RxSize) \in 0 .. RxSize - 1
      /\ rxFifo # <<>> => Head(rxFifo).byte \in 1 .. MaxArrivals
  BY StepValues, StepHeads
<1>. USE SizeAssumption, BoundAssumption DEF RxInv, TypeOK, ObjectType, txRing, rxRing
<1>1. ASSUME Begin PROVE ObjectType'
  BY <1>1 DEF Begin
<1>2. ASSUME ClearRx PROVE ObjectType'
  BY <1>2 DEF ClearRx, Goto
<1>3. ASSUME FlushBody PROVE ObjectType'
  BY <1>3, <1>0 DEF FlushBody, TxUdrEmptyIrq, StoreUdr, Goto
<1>4. ASSUME WriteTest PROVE ObjectType'
  BY <1>4 DEF WriteTest, Goto
<1>5. ASSUME WriteWait PROVE ObjectType'
  BY <1>5, <1>0 DEF WriteWait, TxUdrEmptyIrq, StoreUdr, Goto
<1>6. ASSUME WriteStore PROVE ObjectType'
  BY <1>6 DEF HistoryType, WriteStore, Goto
<1>7. ASSUME WriteHead PROVE ObjectType'
  BY <1>7, <1>0 DEF WriteHead, Goto
<1>8. ASSUME ReadTail PROVE ObjectType'
  BY <1>8, <1>0 DEF ReadTail, Return
<1>9. ASSUME UdrEmptyInterrupt PROVE ObjectType'
  BY <1>9, <1>0 DEF UdrEmptyInterrupt, TxUdrEmptyIrq, StoreUdr
<1>10. ASSUME RxCompleteInterrupt PROVE ObjectType'
  <2>1. /\ UNCHANGED <<written, txRing, rxTail>>
        /\ \/ UNCHANGED <<rxHead, rxBuf>>
           \/ /\ rxHead' = Succ(rxHead, RxSize)
              /\ \E b \in 1 .. MaxArrivals : rxBuf' = [rxBuf EXCEPT ![rxHead] = b]
    BY <1>10, <1>0 DEF RxCompleteInterrupt
  <2>2. rxHead' \in 0 .. RxSize - 1
    BY <2>1, <1>0
  <2>3. rxBuf' \in [0 .. RxSize - 1 -> 0 .. MaxArrivals]
    BY <2>1, SMTT(20)
  <2>. QED
    BY <2>1, <2>2, <2>3
<1>11. ASSUME (\E op \in Calls \ {"noInterrupts", "interrupts"} : StartCall(op)) \/ (\E b \in BOOLEAN : SetI(b))
       PROVE ObjectType'
  BY <1>11 DEF StartCall, SetI
<1>12. ASSUME RmwLoad \/ RmwStore \/ FlushTest \/ FastUdr \/ FastTxc \/ WriteUdrie \/
              AvailableForWrite
       PROVE ObjectType'
  BY <1>12 DEF RmwLoad, RmwStore, FlushTest, FlushDone, Goto, FastUdr,
  StoreUdr, FastTxc, WriteReturn, Return, WriteUdrie, AvailableForWrite
<1>13. ASSUME Available \/ Peek \/ Read \/ LoadShift \/ ShiftOut \/ Arrive
       PROVE ObjectType'
  BY <1>13 DEF Available, Return, Peek, Goto, Read, LoadShift, ShiftOut,
  Arrive
<1>14. CASE UNCHANGED vars
  BY <1>14 DEF vars
<1>. QED
  BY <1>1, <1>2, <1>3, <1>4, <1>5, <1>6, <1>7, <1>8, <1>9, <1>10, <1>11,
     <1>12, <1>13, <1>14
  DEF Next, StartAny, SketchStep

\* The sketch's locals keep their type.
LEMMA SketchTypeStep == RxInv /\ [Next]_vars => SketchType'
<1>. SUFFICES ASSUME RxInv, [Next]_vars PROVE SketchType'
  OBVIOUS
<1>0. /\ txTail \in Nat /\ rxHead \in Nat
      /\ rxBuf[rxTail] \in 0 .. MaxArrivals
      /\ pc = "afw" => FreeSlots(txHead, reg) \in 0 .. TxSize - 1
      /\ pc = "avail" => Fill(reg, rxTail, RxSize) \in 0 .. RxSize - 1
      /\ pc = "rmwStore" => Tail(todo) \in Seq(Edits)
  BY StepValues, StepHeads
<1>. USE SizeAssumption, BoundAssumption, CallsAssumption, EditsForm DEF RxInv, TypeOK, SketchType, PcNames, sketch
<1>1. ASSUME NEW op \in Calls \ {"noInterrupts", "interrupts"}, StartCall(op) PROVE SketchType'
  BY <1>1 DEF CallNames, StartCall, EntryPoint, Idle
<1>2. ASSUME Begin PROVE SketchType'
  BY <1>2 DEF Begin
<1>3. ASSUME RmwLoad PROVE SketchType'
  BY <1>3 DEF UsartType, RmwLoad
<1>4. ASSUME RmwStore PROVE SketchType'
  BY <1>4, <1>0 DEF RmwStore
<1>5. ASSUME ClearRx PROVE SketchType'
  BY <1>5 DEF ClearRx, Goto
<1>6. ASSUME FlushTest PROVE SketchType'
  BY <1>6 DEF FlushTest, FlushDone, Goto
<1>7. ASSUME FlushBody PROVE SketchType'
  BY <1>7 DEF FlushBody, TxUdrEmptyIrq, StoreUdr, Goto
<1>8. ASSUME WriteTest PROVE SketchType'
  BY <1>8 DEF WriteTest, Goto
<1>9. ASSUME FastUdr PROVE SketchType'
  BY <1>9 DEF FastUdr, StoreUdr, Goto
<1>10. ASSUME FastTxc PROVE SketchType'
  BY <1>10 DEF FastTxc, WriteReturn, Return
<1>11. ASSUME WriteWait PROVE SketchType'
  BY <1>11 DEF WriteWait, TxUdrEmptyIrq, StoreUdr, Goto
<1>12. ASSUME WriteStore PROVE SketchType'
  BY <1>12 DEF WriteStore, Goto
<1>13. ASSUME WriteHead PROVE SketchType'
  BY <1>13 DEF WriteHead, Goto
<1>14. ASSUME WriteUdrie PROVE SketchType'
  BY <1>14 DEF WriteUdrie, WriteReturn, Return
<1>15. ASSUME AvailableForWrite PROVE SketchType'
  BY <1>15, <1>0 DEF AvailableForWrite, Return
<1>16. ASSUME Available PROVE SketchType'
  BY <1>16, <1>0 DEF Available, Return
<1>17. ASSUME Peek PROVE SketchType'
  BY <1>17, <1>0 DEF Peek, Return, Goto
<1>18. ASSUME Read PROVE SketchType'
  BY <1>18, <1>0 DEF Read, Return, Goto
<1>19. ASSUME ReadTail PROVE SketchType'
  BY <1>19 DEF ReadTail, Return
<1>20. ASSUME (\E b \in BOOLEAN : SetI(b))
       PROVE SketchType'
  BY <1>20 DEF SetI
<1>21. ASSUME UdrEmptyInterrupt \/ RxCompleteInterrupt \/ LoadShift \/ ShiftOut \/ Arrive
       PROVE SketchType'
  BY <1>21 DEF UdrEmptyInterrupt, TxUdrEmptyIrq, StoreUdr,
  RxCompleteInterrupt, LoadShift, ShiftOut, Arrive
<1>22. CASE UNCHANGED vars
  BY <1>22 DEF vars
<1>. QED
  BY <1>1, <1>2, <1>3, <1>4, <1>5, <1>6, <1>7, <1>8, <1>9, <1>10, <1>11,
     <1>12, <1>13, <1>14, <1>15, <1>16, <1>17, <1>18, <1>19, <1>20, <1>21,
     <1>22
  DEF Next, StartAny, SketchStep

\* The history keeps its type.
LEMMA HistoryTypeStep == RxInv /\ [Next]_vars => HistoryType'
<1>. SUFFICES ASSUME RxInv, [Next]_vars PROVE HistoryType'
  OBVIOUS
<1>0. /\ pc = "afw" => FreeSlots(txHead, reg) \in 0 .. TxSize - 1
      /\ pc = "avail" => Fill(reg, rxTail, RxSize) \in 0 .. RxSize - 1
      /\ LowerBy1(txCredit) \in 0 .. TxSize - 1
      /\ LowerBy1(rxCredit) \in 0 .. RxSize - 1
      /\ rxFifo # <<>> => Head(rxFifo).byte \in 1 .. MaxArrivals
  BY StepValues, StepHeads
<1>. USE SizeAssumption, BoundAssumption DEF RxInv, TypeOK, HistoryType, credits, rxRing
<1>1. ASSUME NEW op \in Calls \ {"noInterrupts", "interrupts"}, StartCall(op) PROVE HistoryType'
  BY <1>1 DEF StartCall, EntryPoint, Idle
<1>2. ASSUME ClearRx PROVE HistoryType'
  BY <1>2 DEF ClearRx, Goto
<1>3. ASSUME FastTxc PROVE HistoryType'
  BY <1>3, <1>0 DEF FastTxc, WriteReturn, Return
<1>4. ASSUME WriteUdrie PROVE HistoryType'
  BY <1>4, <1>0 DEF WriteUdrie, WriteReturn, Return
<1>5. ASSUME AvailableForWrite PROVE HistoryType'
  BY <1>5, <1>0 DEF AvailableForWrite, Return
<1>6. ASSUME Available PROVE HistoryType'
  BY <1>6, <1>0 DEF Available, Return
<1>7. ASSUME ReadTail PROVE HistoryType'
  BY <1>7, <1>0 DEF RxCallInv, ReadTail, Return
<1>8. ASSUME RxCompleteInterrupt PROVE HistoryType'
  <2>1. /\ UNCHANGED <<cur, line, arrived, credits>>
        /\ \/ UNCHANGED rxQueue
           \/ \E b \in 1 .. MaxArrivals : rxQueue' = Append(rxQueue, b)
    BY <1>8, <1>0 DEF RxCompleteInterrupt
  <2>2. rxQueue' \in Seq(1 .. MaxArrivals)
    BY <2>1, AppendType, Zenon
  <2>. QED
    BY <2>1, <2>2
<1>9. ASSUME ShiftOut PROVE HistoryType'
  BY <1>9 DEF UsartType, ShiftOut
<1>10. ASSUME Arrive PROVE HistoryType'
  BY <1>10 DEF Arrive
<1>11. ASSUME (\E b \in BOOLEAN : SetI(b))
       PROVE HistoryType'
  BY <1>11 DEF SetI
<1>12. ASSUME Begin \/ RmwLoad \/ RmwStore \/ FlushTest \/ FlushBody \/ WriteTest \/
              FastUdr
       PROVE HistoryType'
  BY <1>12 DEF Begin, RmwLoad, RmwStore, FlushTest, FlushDone, Goto,
  FlushBody, TxUdrEmptyIrq, StoreUdr, WriteTest, FastUdr
<1>13. ASSUME WriteWait \/ WriteStore \/ WriteHead \/ Peek \/ Read \/ UdrEmptyInterrupt \/
              LoadShift
       PROVE HistoryType'
  BY <1>13 DEF WriteWait, TxUdrEmptyIrq, StoreUdr, Goto, WriteStore,
  WriteHead, Peek, Return, Read, UdrEmptyInterrupt, LoadShift
<1>14. CASE UNCHANGED vars
  BY <1>14 DEF vars
<1>. QED
  BY <1>1, <1>2, <1>3, <1>4, <1>5, <1>6, <1>7, <1>8, <1>9, <1>10, <1>11,
     <1>12, <1>13, <1>14
  DEF Next, StartAny, SketchStep

\* The receive ring keeps holding the unread bytes: the handler adds one at the
\* head, read() takes one at the tail, end() takes them all.
LEMMA RxRingStep == RxInv /\ [Next]_vars => RxRingInv'
<1>. SUFFICES ASSUME RxInv, [Next]_vars PROVE RxRingInv'
  OBVIOUS
<1>0. /\ RxSize \in Nat /\ RxSize >= 2
      /\ rxHead \in 0 .. RxSize - 1 /\ rxTail \in 0 .. RxSize - 1
      /\ rxBuf \in [0 .. RxSize - 1 -> 0 .. MaxArrivals]
      /\ rxQueue \in Seq(1 .. MaxArrivals)
      /\ Len(rxQueue) = Fill(rxHead, rxTail, RxSize)
      /\ \A k \in 1 .. Len(rxQueue) :
           rxBuf[Slot(rxTail, k - 1, RxSize)] = rxQueue[k]
  BY SizeAssumption
  DEF RxInv, TypeOK, ObjectType, HistoryType, RxRingInv, RxCount
<1>. USE DEF RxRingInv, RxCount
<1>1. ASSUME ClearRx PROVE RxRingInv'
  <2>1. rxQueue' = <<>> /\ rxHead' = rxTail /\ rxTail' = rxTail
    BY <1>1 DEF ClearRx
  <2>2. Fill(rxTail, rxTail, RxSize) = 0
    BY <1>0, RingForm
  <2>. QED
    BY <2>1, <2>2
<1>2. ASSUME ReadTail PROVE RxRingInv'
  <2>1. /\ rxTail' = Succ(rxTail, RxSize) /\ rxQueue' = Tail(rxQueue)
        /\ rxHead' = rxHead /\ rxBuf' = rxBuf
    BY <1>2 DEF ReadTail
  <2>2. rxQueue # <<>>
    BY <1>2 DEF ReadTail, RxInv, RxCallInv
  <2>3. /\ Len(rxQueue) \in Nat /\ Len(rxQueue) > 0
        /\ Len(rxQueue') = Len(rxQueue) - 1
        /\ \A k \in 1 .. Len(rxQueue) - 1 : rxQueue'[k] = rxQueue[k + 1]
    BY <1>0, <2>1, <2>2, HeadTailType, Zenon
  <2>4. rxHead # rxTail
    <3>1. Fill(rxHead, rxTail, RxSize) = 0 <=> rxHead = rxTail
      BY <1>0, RingForm
    <3>. QED
      BY <1>0, <2>3, <3>1
  <2>5. /\ Fill(rxHead, rxTail', RxSize) = Fill(rxHead, rxTail, RxSize) - 1
        /\ \A k \in 0 .. Len(rxQueue) - 2 :
             Slot(rxTail', k, RxSize) = Slot(rxTail, k + 1, RxSize)
    BY <1>0, <2>1, <2>4, PopForm
  <2>6. ASSUME NEW k \in 1 .. Len(rxQueue')
        PROVE  rxBuf'[Slot(rxTail', k - 1, RxSize)] = rxQueue'[k]
    <3>1. Slot(rxTail', k - 1, RxSize) = Slot(rxTail, k, RxSize)
      <4>1. k - 1 \in 0 .. Len(rxQueue) - 2 /\ (k - 1) + 1 = k
        BY <2>3
      <4>. QED
        BY <2>5, <4>1
    <3>2. rxBuf[Slot(rxTail, k, RxSize)] = rxQueue[k + 1]
      <4>1. k + 1 \in 1 .. Len(rxQueue) /\ (k + 1) - 1 = k
        BY <2>3
      <4>. QED
        BY <1>0, <4>1
    <3>. QED
      BY <2>1, <2>3, <3>1, <3>2
  <2>. QED
    BY <1>0, <2>1, <2>3, <2>5, <2>6
<1>3. ASSUME RxCompleteInterrupt PROVE RxRingInv'
  <2>1. CASE UNCHANGED rxRing
    BY <1>0, <2>1 DEF rxRing
  <2>2. CASE ~UNCHANGED rxRing
    <3>1. PICK b : /\ rxBuf' = [rxBuf EXCEPT ![rxHead] = b]
                   /\ rxHead' = Succ(rxHead, RxSize) /\ rxTail' = rxTail
                   /\ rxQueue' = Append(rxQueue, b)
                   /\ Succ(rxHead, RxSize) # rxTail
      BY <1>3, <2>2 DEF RxCompleteInterrupt, rxRing
    <3>2. /\ Fill(rxHead', rxTail, RxSize) = Fill(rxHead, rxTail, RxSize) + 1
          /\ Slot(rxTail, Len(rxQueue), RxSize) = rxHead
          /\ \A k \in 0 .. Len(rxQueue) - 1 : Slot(rxTail, k, RxSize) # rxHead
      BY <1>0, <3>1, PushForm
    <3>3. /\ Len(rxQueue) \in 0 .. RxSize - 1
          /\ Len(rxQueue') = Len(rxQueue) + 1
          /\ rxQueue'[Len(rxQueue) + 1] = b
          /\ \A k \in 1 .. Len(rxQueue) : rxQueue'[k] = rxQueue[k]
      <4>1. Fill(rxHead, rxTail, RxSize) \in 0 .. RxSize - 1
        BY <1>0, FillForm
      <4>2. ASSUME NEW s \in Seq(1 .. MaxArrivals)
            PROVE  /\ Len(Append(s, b)) = Len(s) + 1
                   /\ Append(s, b)[Len(s) + 1] = b
                   /\ \A k \in 1 .. Len(s) : Append(s, b)[k] = s[k]
        OBVIOUS
      <4>. QED
        BY <1>0, <3>1, <4>1, <4>2
    <3>4. ASSUME NEW k \in 1 .. Len(rxQueue)
          PROVE  rxBuf'[Slot(rxTail, k - 1, RxSize)] = rxQueue[k]
      <4>1. k - 1 \in 0 .. Len(rxQueue) - 1 /\ k - 1 \in 0 .. RxSize - 1
        BY <1>0, <3>3
      <4>2. Slot(rxTail, k - 1, RxSize) # rxHead
        BY <3>2, <4>1
      <4>3. Slot(rxTail, k - 1, RxSize) \in 0 .. RxSize - 1
        BY <1>0, <4>1, RingForm
      <4>. QED
        BY <1>0, <3>1, <4>2, <4>3
    <3>5. rxBuf'[rxHead] = b
      BY <1>0, <3>1
    <3>6. ASSUME NEW k \in 1 .. Len(rxQueue')
          PROVE  rxBuf'[Slot(rxTail, k - 1, RxSize)] = rxQueue'[k]
      <4>1. CASE k = Len(rxQueue) + 1
        BY <3>2, <3>3, <3>5, <4>1
      <4>2. CASE k \in 1 .. Len(rxQueue)
        BY <3>3, <3>4, <4>2
      <4>. QED
        BY <3>3, <4>1, <4>2
    <3>. QED
      BY <1>0, <3>1, <3>2, <3>3, <3>6
  <2>. QED
    BY <2>1, <2>2
<1>4. ASSUME (\E op \in Calls \ {"noInterrupts", "interrupts"} : StartCall(op)) \/ (\E b \in BOOLEAN : SetI(b))
       PROVE RxRingInv'
  BY <1>4, <1>0 DEF StartCall, SetI, rxRing
<1>5. ASSUME Begin \/ RmwLoad \/ RmwStore \/ FlushTest \/ FlushBody \/ WriteTest \/
              FastUdr
       PROVE RxRingInv'
  BY <1>5, <1>0 DEF rxRing, Begin, RmwLoad, RmwStore, FlushTest, FlushDone, Goto,
  FlushBody, TxUdrEmptyIrq, StoreUdr, WriteTest, FastUdr
<1>6. ASSUME FastTxc \/ WriteWait \/ WriteStore \/ WriteHead \/ WriteUdrie \/
              AvailableForWrite \/ Available
       PROVE RxRingInv'
  BY <1>6, <1>0 DEF rxRing, FastTxc, WriteReturn, Return, WriteWait, TxUdrEmptyIrq,
  StoreUdr, Goto, WriteStore, WriteHead, WriteUdrie, AvailableForWrite,
  Available
<1>7. ASSUME Peek \/ Read \/ UdrEmptyInterrupt \/ LoadShift \/ ShiftOut \/ Arrive
       PROVE RxRingInv'
  BY <1>7, <1>0 DEF rxRing, Peek, Return, Goto, Read, UdrEmptyInterrupt, TxUdrEmptyIrq,
  StoreUdr, LoadShift, ShiftOut, Arrive
<1>8. CASE UNCHANGED vars
  BY <1>8, <1>0 DEF vars, rxRing
<1>. QED
  BY <1>1, <1>2, <1>3, <1>4, <1>5, <1>6, <1>7, <1>8
  DEF Next, StartAny, SketchStep

\* What a receive call knows stays true: only the handler runs beside it, and it
\* only adds bytes.
LEMMA RxCallStep == RxInv /\ [Next]_vars => RxCallInv'
<1>. SUFFICES ASSUME RxInv, [Next]_vars PROVE RxCallInv'
  OBVIOUS
<1>0. /\ RxSize \in Nat /\ RxSize >= 2
      /\ rxHead \in 0 .. RxSize - 1 /\ rxTail \in 0 .. RxSize - 1
      /\ rxQueue \in Seq(1 .. MaxArrivals) /\ reg \in Nat
      /\ rxCredit \in Nat /\ RxCount \in Nat /\ Len(rxQueue) = RxCount
      /\ rxHead = rxTail <=> RxCount = 0
      /\ rxQueue = <<>> <=> RxCount = 0
      /\ rxQueue # <<>> => rxBuf[rxTail] = rxQueue[1]
      /\ pc = "avail" => Fill(reg, rxTail, RxSize) \in Nat
      /\ CallInv /\ RxCallInv
  <2>1. /\ RxSize \in Nat /\ RxSize >= 2
        /\ rxHead \in 0 .. RxSize - 1 /\ rxTail \in 0 .. RxSize - 1
        /\ rxQueue \in Seq(1 .. MaxArrivals) /\ reg \in Nat
        /\ rxCredit \in Nat /\ Len(rxQueue) = RxCount
        /\ CallInv /\ RxCallInv
    BY SizeAssumption DEF RxInv, TypeOK, ObjectType, SketchType, HistoryType,
       RxRingInv
  <2>2. (rxHead = rxTail <=> RxCount = 0) /\ Slot(rxTail, 0, RxSize) = rxTail
    BY <2>1, RingForm DEF RxCount
  <2>3. /\ RxCount \in Nat /\ (rxQueue = <<>> <=> Len(rxQueue) = 0)
        /\ rxQueue # <<>> => 1 \in 1 .. Len(rxQueue)
    BY <2>1
  <2>4. rxQueue # <<>> => rxBuf[Slot(rxTail, 1 - 1, RxSize)] = rxQueue[1]
    BY <2>3 DEF RxInv, RxRingInv
  <2>5. pc = "avail" => Fill(reg, rxTail, RxSize) \in Nat
    BY StepValues
  <2>. QED
    BY <2>1, <2>2, <2>3, <2>4, <2>5
<1>. USE DEF RxCallInv, RxCount, CallInv, sketch, rxRing, credits
<1>1. ASSUME NEW op \in Calls \ {"noInterrupts", "interrupts"}, StartCall(op) PROVE RxCallInv'
  <2>1. pc' \in {"begin", "flushU0", "write", "afwTail", "availHead", "peek", "read"}
    BY <1>1, CallsAssumption DEF StartCall, EntryPoint, CallNames
  <2>2. UNCHANGED <<rxRing, reg, rxCredit>>
    BY <1>1 DEF StartCall, credits
  <2>. QED
    BY <1>0, <2>1, <2>2
<1>2. ASSUME RmwStore PROVE RxCallInv'
  BY <1>2, <1>0 DEF RmwStore
<1>3. ASSUME ClearRx PROVE RxCallInv'
  <2>1. /\ pc = "clearRx" /\ pc' = "idle" /\ call' = call
        /\ rxHead' = rxTail /\ rxTail' = rxTail /\ rxCredit' = 0
    BY <1>3 DEF ClearRx, Goto
  <2>2. call = "end"
    BY <1>0, <2>1
  <2>3. RxCount' = 0
    BY <1>0, <2>1, RingForm
  <2>. QED
    BY <2>1, <2>2, <2>3
<1>4. ASSUME FlushTest PROVE RxCallInv'
  BY <1>4, <1>0 DEF FlushTest, FlushDone, Goto
<1>5. ASSUME FastTxc PROVE RxCallInv'
  BY <1>5, <1>0 DEF FastTxc, WriteReturn, Return
<1>6. ASSUME WriteUdrie PROVE RxCallInv'
  BY <1>6, <1>0 DEF WriteUdrie, WriteReturn, Return
<1>7. ASSUME AvailableForWrite PROVE RxCallInv'
  BY <1>7, <1>0 DEF AvailableForWrite, Return
<1>8. ASSUME Available PROVE RxCallInv'
  <2>1. CASE pc = "availHead"
    BY <1>0, <1>8, <2>1 DEF Available, Return
  <2>2. CASE pc = "avail"
    <3>1. rxCredit' = Fill(reg, rxTail, RxSize) /\ rxCredit' <= RxCount
      BY <1>0, <1>8, <2>2 DEF Available, Return, RxCallInv
    <3>. QED
      BY <1>0, <1>8, <2>2, <3>1 DEF Available, Return
  <2>. QED
    BY <1>8, <2>1, <2>2 DEF Available
<1>9. ASSUME Peek PROVE RxCallInv'
  BY <1>9, <1>0 DEF Peek, Return, Goto
<1>10. ASSUME Read PROVE RxCallInv'
  <2>1. rxHead = rxTail => RxCount = 0 /\ rxCredit = 0
    BY <1>0
  <2>2. CASE pc = "read"
    BY <1>0, <1>10, <2>1, <2>2 DEF Read, Return, Goto
  <2>3. CASE pc = "readSlot"
    BY <1>0, <1>10, <2>3 DEF Read, Return, Goto
  <2>. QED
    BY <1>10, <2>2, <2>3 DEF Read
<1>11. ASSUME ReadTail PROVE RxCallInv'
  <2>1. /\ rxQueue # <<>> /\ reg = rxQueue[1] /\ call = "read"
        /\ rxCredit <= RxCount
    BY <1>0, <1>11 DEF ReadTail
  <2>2. RxCount' = RxCount - 1
    <3>1. rxHead # rxTail
      BY <1>0, <2>1
    <3>. QED
      BY <1>0, <1>11, <3>1, PopForm DEF ReadTail
  <2>3. rxCredit' <= RxCount'
    <3>1. rxCredit' = LowerBy1(rxCredit)
      BY <1>11 DEF ReadTail
    <3>2. LowerBy1(rxCredit) <= RxCount - 1
      BY <1>0, <2>1 DEF LowerBy1
    <3>. QED
      BY <2>2, <3>1, <3>2
  <2>. QED
    BY <1>0, <1>11, <2>1, <2>3 DEF ReadTail, Return
<1>12. ASSUME RxCompleteInterrupt PROVE RxCallInv'
  <2>1. /\ UNCHANGED <<sketch, rxTail, rxCredit>>
        /\ \/ UNCHANGED <<rxHead, rxQueue>>
           \/ /\ rxHead' = Succ(rxHead, RxSize) /\ Succ(rxHead, RxSize) # rxTail
              /\ \E b : rxQueue' = Append(rxQueue, b)
    BY <1>12 DEF RxCompleteInterrupt, credits
  <2>2. CASE UNCHANGED <<rxHead, rxQueue>>
    BY <1>0, <2>1, <2>2
  <2>3. CASE rxHead' = Succ(rxHead, RxSize) /\ Succ(rxHead, RxSize) # rxTail
    <3>1. RxCount' = RxCount + 1
      BY <1>0, <2>1, <2>3, PushForm
    <3>2. rxQueue # <<>> => rxQueue' # <<>> /\ rxQueue'[1] = rxQueue[1]
      BY <1>0, <2>1
    <3>3. /\ rxCredit <= RxCount + 1
          /\ pc = "avail" => Fill(reg, rxTail, RxSize) <= RxCount + 1
      BY <1>0
    <3>4. UNCHANGED <<pc, call, reg, ret, rxTail, rxCredit>>
      BY <2>1
    <3>. QED
      BY <1>0, <3>1, <3>2, <3>3, <3>4
  <2>. QED
    BY <2>1, <2>2, <2>3
<1>13. ASSUME (\E b \in BOOLEAN : SetI(b))
       PROVE RxCallInv'
  BY <1>13, <1>0 DEF SetI
<1>14. ASSUME Begin \/ RmwLoad \/ FlushBody \/ WriteTest \/ FastUdr \/ WriteWait \/
              WriteStore
       PROVE RxCallInv'
  BY <1>14, <1>0 DEF Begin, RmwLoad, FlushBody, TxUdrEmptyIrq, StoreUdr, Goto,
  WriteTest, FastUdr, WriteWait, WriteStore
<1>15. ASSUME WriteHead \/ UdrEmptyInterrupt \/ LoadShift \/ ShiftOut \/ Arrive
       PROVE RxCallInv'
  BY <1>15, <1>0 DEF WriteHead, Goto, UdrEmptyInterrupt, TxUdrEmptyIrq, StoreUdr,
  LoadShift, ShiftOut, Arrive
<1>16. CASE UNCHANGED vars
  BY <1>16, <1>0 DEF vars
<1>. QED
  BY <1>1, <1>2, <1>3, <1>4, <1>5, <1>6, <1>7, <1>8, <1>9, <1>10, <1>11,
     <1>12, <1>13, <1>14, <1>15, <1>16
  DEF Next, StartAny, SketchStep

-----------------------------------------------------------------------------
(* The theorems of the receive side.                                       *)

LEMMA RxInvariant == Spec => []RxInv
<1>1. RxInv /\ [Next]_vars => RxInv'
  BY CallStep, LocalStep, UsartTypeStep, ObjectTypeStep, SketchTypeStep,
     HistoryTypeStep, RxRingStep, RxCallStep DEF RxInv, TypeOK
<1>. QED
  BY RxInitial, <1>1, PTL DEF Spec

\* Every variable keeps its type: in particular no call and no handler, in any
\* interleaving and for any buffer of up to 256 bytes, leaves an index outside its buffer or
\* promises more than a ring can hold.
THEOREM TypeCorrect == Spec => []TypeOK
<1>1. RxInv => TypeOK
  BY DEF RxInv
<1>. QED
  BY RxInvariant, <1>1, PTL

\* read() and peek() name the oldest unread byte, while the receive handler
\* stores into the same ring between their steps.
THEOREM ReceiveCorrect == Spec => []ReceiveInOrder
<1>1. RxInv => ReceiveInOrder
  <2>. SUFFICES ASSUME RxInv PROVE ReceiveInOrder
    OBVIOUS
  <2>1. rxQueue # <<>> => Head(rxQueue) = rxQueue[1]
    BY HeadTailType DEF RxInv, TypeOK, HistoryType
  <2>. QED
    BY <2>1 DEF RxInv, RxCallInv, ReceiveInOrder, Idle
<1>. QED
  BY RxInvariant, <1>1, PTL

\* A byte that available() has counted is there when read() is called.
THEOREM AvailableCorrect == Spec => []PromisedBytesAreThere
<1>1. RxInv => PromisedBytesAreThere
  BY DEF RxInv, RxCallInv, PromisedBytesAreThere, Idle
<1>. QED
  BY RxInvariant, <1>1, PTL

\* A good byte that the handler takes from the receiver and does not store finds
\* RxSize - 1 unread bytes in the ring: nothing is dropped while there is room.
THEOREM DropCorrect == Spec => DropOnlyWhenFull
<1>1. ASSUME RxInv, [Next]_vars,
             rxFifo # <<>>, rxFifo' = Tail(rxFifo), ~Head(rxFifo).upe,
             rxQueue' = rxQueue
      PROVE  Len(rxQueue) = RxSize - 1 \/ ~ucsrb'.rxen
  <2>0. /\ rxFifo \in Seq([byte : 1 .. MaxArrivals, upe : BOOLEAN])
        /\ rxQueue \in Seq(1 .. MaxArrivals) /\ RxSize \in Nat /\ RxSize >= 2
        /\ rxHead \in 0 .. RxSize - 1 /\ rxTail \in 0 .. RxSize - 1
        /\ Len(rxQueue) = Fill(rxHead, rxTail, RxSize)
    BY <1>1, SizeAssumption
       DEF RxInv, TypeOK, UsartType, ObjectType, HistoryType, RxRingInv, RxCount
  <2>1. Len(rxFifo') = Len(rxFifo) - 1 /\ Len(rxFifo) \in Nat
    BY <1>1, <2>0, HeadTailType
  <2>2. rxFifo' # rxFifo
    BY <2>1
  <2>3. CASE RxCompleteInterrupt
    <3>1. CASE Succ(rxHead, RxSize) = rxTail
      BY <2>0, <3>1, RingForm
    <3>2. CASE Succ(rxHead, RxSize) # rxTail
      <4>1. rxQueue' = Append(rxQueue, Head(rxFifo).byte)
        BY <1>1, <2>3, <3>2 DEF RxCompleteInterrupt
      <4>2. Len(rxQueue') = Len(rxQueue) + 1 /\ Len(rxQueue) \in Nat
        BY <2>0, <4>1
      <4>. QED
        BY <1>1, <4>2
    <3>. QED
      BY <3>1, <3>2
  <2>4. CASE Arrive
    <3>1. PICK frame : rxFifo' = Append(rxFifo, frame) \/ rxFifo' = rxFifo
      BY <2>4 DEF Arrive
    <3>2. rxFifo' = Append(rxFifo, frame) => Len(rxFifo') = Len(rxFifo) + 1
      BY <2>0
    <3>. QED
      BY <2>1, <2>2, <3>1, <3>2
  <2>5. CASE RmwStore
    BY <2>2, <2>5 DEF RmwStore
  <2>6. CASE ~RxCompleteInterrupt /\ ~Arrive /\ ~RmwStore
    <3>1. rxFifo' = rxFifo
      BY <1>1, <2>6
         DEF Next, StartAny, SketchStep, vars, usart, StartCall, SetI, Begin, RmwLoad,
             ClearRx, FlushTest, FlushDone, Goto, FlushBody, TxUdrEmptyIrq, WriteTest,
             FastUdr, FastTxc, WriteReturn, Return, WriteWait, WriteStore, WriteHead,
             WriteUdrie, AvailableForWrite, Available, Peek, Read, ReadTail,
             UdrEmptyInterrupt, LoadShift, ShiftOut
    <3>. QED
      BY <2>2, <3>1
  <2>. QED
    BY <2>3, <2>4, <2>5, <2>6
<1>2. RxInv /\ [Next]_vars =>
        [rxFifo # <<>> /\ rxFifo' = Tail(rxFifo) /\ ~Head(rxFifo).upe
           /\ rxQueue' = rxQueue
         => Len(rxQueue) = RxSize - 1 \/ ~ucsrb'.rxen]_vars
  BY <1>1
<1>. QED
  BY RxInvariant, <1>2, PTL DEF Spec, DropOnlyWhenFull

-----------------------------------------------------------------------------
(* The inductive invariant of the transmit side.                           *)

WriteBefore == {"write", "fastUdr", "wait", "store", "head"}
Closing == {"begin", "rmwLoad", "rmwStore", "clearRx"}

\* Nothing is on its way and the handler has nothing to do.
Drained == shift = 0 /\ udr = 0 /\ txHead = txTail /\ ~ucsrb.udrie

\* Edits of UCSRB that do not set UDRIE.
NoEnable(edits) == \A k \in 1 .. Len(edits) : edits[k] # <<"udrie", TRUE>>

\* A port that is closed, about to be, or was never written to is drained; an
\* edit of UCSRB does not race with the handler.
ClosedInv ==
  /\ ~Open => pc \in Closing \cup {"idle"}
  /\ (~Open \/ pc \in Closing \/ ~written) => Drained
  /\ pc = "rmwStore" => copy = ucsrb
  /\ NoEnable(todo)

\* The interrupt is on exactly while the ring holds something, but for the
\* moment between write()'s two stores.
UdrieInv ==
  /\ pc # "udrie" => (ucsrb.udrie <=> txHead # txTail)
  /\ pc = "udrie" => txHead # txTail
  /\ pc = "flushT" => ~ucsrb.udrie

\* TXC speaks of the last byte the USART was given.
TxcInv ==
  /\ txc /\ pc # "fastTxc" => shift = 0 /\ udr = 0
  /\ pc = "fastTxc" => cur \in {shift, udr}

\* Where write() has got to.
WriteInv ==
  /\ pc \in WriteBefore => cur >= 1
  /\ pc \in (WriteBefore \cup {"fastTxc", "udrie"}) \ {"write"} => written
  /\ pc = "fastUdr" => txHead = txTail /\ udr = 0
  /\ pc \in {"store", "head"} => ~TxFull
  /\ pc = "head" => txBuf[txHead] = cur

\* The bytes on the line, in the two registers and in the ring are numbered on.
InRegisters == (IF shift = 0 THEN 0 ELSE 1) + (IF udr = 0 THEN 0 ELSE 1)
RingFrom(n, head, tail, buf) ==
  \A k \in 0 .. Fill(head, tail, TxSize) - 1 :
    buf[Slot(tail, k, TxSize)] = n + k + 1
RankInv ==
  /\ \A n \in 1 .. Len(line) : line[n] = n
  /\ shift # 0 => shift = Len(line) + 1
  /\ udr # 0 => udr = Len(line) + InRegisters
  /\ RingFrom(Len(line) + InRegisters, txHead, txTail, txBuf)
  /\ Published = Len(line) + InRegisters + TxCount

\* The room promised is there, but for the byte just stored.
CreditInv ==
  /\ pc = "afw" => TxCount <= Fill(txHead, reg, TxSize)
  /\ (IF pc = "udrie" THEN LowerBy1(txCredit) ELSE txCredit) + TxCount < TxSize

TxInv == ClosedInv /\ UdrieInv /\ TxcInv /\ WriteInv /\ RankInv /\ CreditInv

-----------------------------------------------------------------------------
(* The transmit ring.                                                      *)

\* A byte stored behind the others has the next number.
LEMMA RingFromPush ==
  ASSUME NEW n \in Nat, NEW head \in 0 .. TxSize - 1, NEW tail \in 0 .. TxSize - 1,
         NEW buf, RingFrom(n, head, tail, buf), Succ(head, TxSize) # tail,
         buf[head] = n + Fill(head, tail, TxSize) + 1
  PROVE  RingFrom(n, Succ(head, TxSize), tail, buf)
<1>1. /\ Fill(Succ(head, TxSize), tail, TxSize) = Fill(head, tail, TxSize) + 1
      /\ Slot(tail, Fill(head, tail, TxSize), TxSize) = head
      /\ Fill(head, tail, TxSize) \in 0 .. TxSize - 1
  BY PushForm, FillForm, SizeAssumption
<1>. QED
  BY <1>1, SizeAssumption DEF RingFrom

\* The oldest byte taken, the others keep their numbers.
LEMMA RingFromPop ==
  ASSUME NEW n \in Nat, NEW head \in 0 .. TxSize - 1, NEW tail \in 0 .. TxSize - 1,
         NEW buf, RingFrom(n, head, tail, buf), head # tail
  PROVE  /\ buf[tail] = n + 1
         /\ RingFrom(n + 1, head, Succ(tail, TxSize), buf)
<1>. DEFINE used == Fill(head, tail, TxSize)
<1>1. /\ Fill(head, Succ(tail, TxSize), TxSize) = used - 1
      /\ \A k \in 0 .. used - 2 :
           Slot(Succ(tail, TxSize), k, TxSize) = Slot(tail, k + 1, TxSize)
  BY PopForm, SizeAssumption
<1>2. used \in 1 .. TxSize - 1 /\ Slot(tail, 0, TxSize) = tail
  BY FillForm, RingForm, SizeAssumption
<1>3. buf[tail] = n + 1
  BY <1>2 DEF RingFrom
<1>4. ASSUME NEW k \in 0 .. used - 2
      PROVE  buf[Slot(Succ(tail, TxSize), k, TxSize)] = (n + 1) + k + 1
  <2>1. k + 1 \in 0 .. used - 1
    BY <1>2, SizeAssumption
  <2>2. buf[Slot(tail, k + 1, TxSize)] = n + (k + 1) + 1
    BY <2>1 DEF RingFrom
  <2>. QED
    BY <1>1, <2>2
<1>. HIDE DEF used
<1>5. 0 .. (used - 1) - 1 = 0 .. used - 2
  BY <1>2, SizeAssumption
<1>. QED
  BY <1>1, <1>3, <1>4, <1>5 DEF RingFrom

\* Storing at the head of a ring that is not full changes no byte in it.
LEMMA RingFromStore ==
  ASSUME NEW n \in Nat, NEW head \in 0 .. TxSize - 1, NEW tail \in 0 .. TxSize - 1,
         NEW buf, NEW b, RingFrom(n, head, tail, buf), Succ(head, TxSize) # tail
  PROVE  RingFrom(n, head, tail, [buf EXCEPT ![head] = b])
<1>1. \A k \in 0 .. Fill(head, tail, TxSize) - 1 : Slot(tail, k, TxSize) # head
  BY PushForm, SizeAssumption
<1>. QED
  BY <1>1 DEF RingFrom

\* What the invariants say of the ring and its registers.
LEMMA TxFacts ==
  ASSUME RxInv, TxInv
  PROVE  /\ TxSize \in Nat /\ TxSize >= 2
         /\ txHead \in 0 .. TxSize - 1 /\ txTail \in 0 .. TxSize - 1
         /\ txBuf \in [0 .. TxSize - 1 -> 0 .. MaxWrites]
         /\ line \in Seq(0 .. MaxWrites) /\ Len(line) \in Nat
         /\ cur \in Nat /\ udr \in Nat /\ shift \in Nat
         /\ InRegisters \in 0 .. 2
         /\ TxCount \in 0 .. TxSize - 1
         /\ TxCount = 0 <=> txHead = txTail
         /\ TxCount = TxSize - 1 <=> TxFull
         /\ txCredit \in 0 .. TxSize - 1
<1>1. /\ TxSize \in Nat /\ TxSize >= 2
      /\ txHead \in 0 .. TxSize - 1 /\ txTail \in 0 .. TxSize - 1
      /\ txBuf \in [0 .. TxSize - 1 -> 0 .. MaxWrites]
      /\ line \in Seq(0 .. MaxWrites)
      /\ cur \in Nat /\ udr \in Nat /\ shift \in Nat
      /\ txCredit \in 0 .. TxSize - 1
  BY SizeAssumption, BoundAssumption
  DEF RxInv, TypeOK, ObjectType, HistoryType, UsartType
<1>2. /\ TxCount \in 0 .. TxSize - 1
      /\ TxCount = 0 <=> txHead = txTail
      /\ TxCount = TxSize - 1 <=> TxFull
  BY <1>1, FillForm, RingForm DEF TxCount, TxFull
<1>3. InRegisters \in 0 .. 2
  BY DEF InRegisters
<1>. QED
  BY <1>1, <1>2, <1>3

-----------------------------------------------------------------------------
(* The step that sends a byte from the ring to UDR, by whoever runs it.    *)

Sends == TxUdrEmptyIrq /\ ucsrb.udrie /\ udr = 0

LEMMA SendsForm ==
  ASSUME RxInv, TxInv, Sends
  PROVE  /\ pc \notin {"udrie", "fastTxc", "fastUdr"} =>
              /\ txHead # txTail
              /\ TxCount' = TxCount - 1
              /\ udr' = Len(line) + InRegisters + 1
              /\ RingFrom(Len(line) + InRegisters + 1, txHead, txTail', txBuf)
         /\ UNCHANGED <<shift, rxFifo, txHead, txBuf>> /\ txc' = FALSE
         /\ txTail' = Succ(txTail, TxSize)
         /\ txTail' \in 0 .. TxSize - 1
         /\ ucsrb' = [ucsrb EXCEPT !.udrie = txHead # txTail']
<1>. USE TxFacts
<1>1. /\ UNCHANGED <<shift, rxFifo, txHead, txBuf>> /\ txc' = FALSE
      /\ txTail' = Succ(txTail, TxSize) /\ udr' = txBuf[txTail]
      /\ ucsrb' = [ucsrb EXCEPT !.udrie = txHead # txTail']
  BY DEF Sends, TxUdrEmptyIrq, StoreUdr, UdrEmpty
<1>2. txTail' \in 0 .. TxSize - 1
  BY <1>1, SuccForm
<1>3. ASSUME pc \notin {"udrie", "fastTxc", "fastUdr"}
      PROVE  /\ txHead # txTail
             /\ TxCount' = TxCount - 1
             /\ udr' = Len(line) + InRegisters + 1
             /\ RingFrom(Len(line) + InRegisters + 1, txHead, txTail', txBuf)
  <2>1. txHead # txTail
    BY <1>3 DEF Sends, TxInv, UdrieInv
  <2>2. TxCount' = TxCount - 1
    BY <1>1, <2>1, PopForm DEF TxCount
  <2>3. /\ txBuf[txTail] = (Len(line) + InRegisters) + 1
        /\ RingFrom((Len(line) + InRegisters) + 1, txHead, txTail', txBuf)
    <3>1. Len(line) + InRegisters \in Nat
      OBVIOUS
    <3>2. RingFrom(Len(line) + InRegisters, txHead, txTail, txBuf)
      BY DEF TxInv, RankInv
    <3>. QED
      BY <1>1, <2>1, <3>1, <3>2, RingFromPop, SMTT(20)
  <2>. QED
    BY <1>1, <2>1, <2>2, <2>3
<1>. QED
  BY <1>1, <1>2, <1>3

-----------------------------------------------------------------------------
(* The invariant is kept.                                                  *)

\* A step that sends a byte from the ring and moves the sketch, if at all, from
\* the body of flush()'s loop to its test.
LEMMA SendStep ==
  ASSUME RxInv, TxInv, Sends,
         pc \notin {"udrie", "fastTxc"},
         pc' = pc \/ (pc = "flushBody" /\ pc' = "flushU"),
         UNCHANGED <<call, todo, copy, reg, written, cur, line, txCredit>>
  PROVE  TxInv'
<1>0. /\ pc \notin {"fastUdr", "flushT"} /\ ~(~Open \/ pc \in Closing \/ ~written)
      /\ ucsrb \in [EnableBits -> BOOLEAN]
  BY DEF TxInv, WriteInv, UdrieInv, ClosedInv, Drained, Sends, RxInv, TypeOK, UsartType
<1>1. /\ TxSize \in Nat /\ TxSize >= 2
      /\ txHead \in 0 .. TxSize - 1 /\ txTail \in 0 .. TxSize - 1
      /\ Len(line) \in Nat /\ InRegisters \in 0 .. 2
      /\ TxCount \in 0 .. TxSize - 1 /\ txCredit \in 0 .. TxSize - 1
      /\ TxCount = TxSize - 1 <=> TxFull
  BY TxFacts
<1>2. /\ txHead # txTail /\ TxCount' = TxCount - 1
      /\ udr' = Len(line) + InRegisters + 1
      /\ RingFrom(Len(line) + InRegisters + 1, txHead, txTail', txBuf)
      /\ UNCHANGED <<shift, rxFifo, txHead, txBuf>> /\ txc' = FALSE
      /\ txTail' \in 0 .. TxSize - 1
      /\ ucsrb' = [ucsrb EXCEPT !.udrie = txHead # txTail']
  BY <1>0, SendsForm
<1>3. ClosedInv'
  BY <1>0, <1>2 DEF TxInv, ClosedInv, Open, Closing, EnableBits
<1>4. UdrieInv'
  BY <1>0, <1>2 DEF TxInv, UdrieInv, EnableBits
<1>5. TxcInv'
  BY <1>0, <1>2 DEF TxInv, TxcInv
<1>6. WriteInv'
  <2>1. TxFull' => TxFull
    <3>1. Fill(txHead, txTail', TxSize) = TxSize - 1 <=> Succ(txHead, TxSize) = txTail'
      BY <1>1, <1>2, RingForm
    <3>. QED
      BY <1>1, <1>2, <3>1 DEF TxCount, TxFull
  <2>. QED
    BY <1>0, <1>2, <2>1 DEF TxInv, WriteInv, WriteBefore
<1>7. RankInv'
  <2>1. InRegisters' = InRegisters + 1
    <3>1. udr = 0 /\ udr' # 0
      BY <1>1, <1>2 DEF Sends
    <3>. QED
      BY <1>2, <3>1 DEF InRegisters
  <2>2. Published' = Published
    BY <1>0 DEF Published
  <2>3. RingFrom(Len(line) + InRegisters, txHead, txTail, txBuf)'
    <3>1. Len(line) + (InRegisters + 1) = Len(line) + InRegisters + 1
      BY <1>1
    <3>. QED
      BY <1>2, <2>1, <3>1
  <2>4. /\ Len(line) + InRegisters' = Len(line) + InRegisters + 1
        /\ Len(line) + InRegisters' + TxCount' = Len(line) + InRegisters + TxCount
    <3>1. TxCount' = TxCount - 1
      BY <1>2
    <3>2. Len(line) \in Nat /\ InRegisters \in Nat /\ TxCount \in Nat
      BY <1>1
    <3>. QED
      BY <2>1, <3>1, <3>2
  <2>5. udr' = Len(line) + InRegisters'
    BY <1>2, <2>4
  <2>6. Published' = Len(line) + InRegisters' + TxCount'
    BY <2>2, <2>4 DEF TxInv, RankInv
  <2>7. line' = line /\ shift' = shift
    BY <1>2
  <2>. QED
    BY <2>3, <2>5, <2>6, <2>7 DEF TxInv, RankInv
<1>8. CreditInv'
  <2>1. pc' # "udrie" /\ (pc' = "afw" => pc = "afw")
    BY <1>0
  <2>2. txCredit + TxCount < TxSize
    BY <1>0 DEF TxInv, CreditInv
  <2>3. pc = "afw" => TxCount - 1 <= Fill(txHead, reg, TxSize)
    <3>1. ASSUME pc = "afw" PROVE Fill(txHead, reg, TxSize) \in Nat
      BY <1>1, <3>1, FillForm DEF RxInv, LocalInv
    <3>2. pc = "afw" => TxCount <= Fill(txHead, reg, TxSize)
      BY DEF TxInv, CreditInv
    <3>. QED
      BY <1>1, <3>1, <3>2
  <2>4. txCredit + (TxCount - 1) < TxSize
    BY <1>1, <2>2
  <2>. QED
    BY <1>2, <2>1, <2>3, <2>4 DEF CreditInv
<1>. QED
  BY <1>3, <1>4, <1>5, <1>6, <1>7, <1>8 DEF TxInv

\* A step that touches neither the registers nor the ring, and does not store
\* what the sketch has computed from them.
LEMMA StillStep ==
  ASSUME RxInv, TxInv,
         UNCHANGED <<udr, shift, txc, ucsrb, written, txHead, txTail, txBuf, cur,
                     line, todo, copy, txCredit>>,
         UNCHANGED <<pc, call, reg>> \/
           /\ {pc, pc'} \cap (WriteBefore \cup Closing
                \cup {"fastTxc", "udrie", "flushU", "flushT", "afw"}) = {}
           /\ ~Open => pc' = "idle"
  PROVE  TxInv'
  BY TxFacts, ZenonT(40)
  DEF TxInv, ClosedInv, UdrieInv, TxcInv, WriteInv, RankInv, CreditInv, Open,
      Drained, Closing, WriteBefore, TxFull, TxCount, Published, InRegisters,
      RingFrom

\* The calls that only read, and what runs beside them on the receive side.
LEMMA ReceiveStep ==
  ASSUME RxInv, TxInv,
         \/ Available \/ Peek \/ Read \/ ReadTail \/ RxCompleteInterrupt \/ Arrive
         \/ UNCHANGED vars
         \/ \E b \in BOOLEAN : SetI(b)
  PROVE  TxInv'
<1>0. /\ UNCHANGED <<udr, shift, txc, ucsrb, written, txHead, txTail, txBuf, cur,
                     line, todo, copy, txCredit>>
      /\ \/ UNCHANGED <<pc, call, reg>>
         \/ {pc, pc'} \subseteq {"availHead", "avail", "peek", "peekSlot", "read",
                                 "readSlot", "readTail", "idle"} /\ pc # "idle"
  BY DEF Available, Peek, Read, ReadTail, RxCompleteInterrupt, Arrive, SetI, vars,
         usart, txRing, sketch, credits, Return, Goto
<1>1. ~Open => pc \in {"idle", "begin", "rmwLoad", "rmwStore", "clearRx"}
  BY DEF TxInv, ClosedInv, Closing
<1>2. CASE UNCHANGED <<pc, call, reg>>
  BY <1>0, <1>2, StillStep
<1>3. CASE {pc, pc'} \subseteq {"availHead", "avail", "peek", "peekSlot", "read",
                                "readSlot", "readTail", "idle"} /\ pc # "idle"
  <2>1. {pc, pc'} \cap (WriteBefore \cup Closing
          \cup {"fastTxc", "udrie", "flushU", "flushT", "afw"}) = {}
    BY <1>3 DEF WriteBefore, Closing
  <2>2. ~Open => pc' = "idle"
    BY <1>1, <1>3
  <2>. QED
    BY <1>0, <2>1, <2>2, StillStep
<1>. QED
  BY <1>0, <1>2, <1>3

\* The three places from which a byte leaves the ring.
LEMMA DrainStep ==
  ASSUME RxInv, TxInv, UdrEmptyInterrupt \/ FlushBody \/ WriteWait
  PROVE  TxInv'
<1>1. CASE UdrEmptyInterrupt
  <2>1. Sends /\ pc \notin {"udrie", "fastTxc"}
    BY <1>1 DEF UdrEmptyInterrupt, Sends, UdrEmpty, Masked, AtomicSection
  <2>2. UNCHANGED <<pc, call, todo, copy, reg, written, cur, line, txCredit>>
    BY <1>1 DEF UdrEmptyInterrupt, sketch, credits
  <2>. QED
    BY <2>1, <2>2, SendStep
<1>2. CASE FlushBody
  <2>1. /\ pc = "flushBody" /\ pc' = "flushU"
        /\ UNCHANGED <<call, todo, copy, reg, written, cur, line, txCredit>>
    BY <1>2 DEF FlushBody, Goto, credits
  <2>2. CASE Sends
    BY <2>1, <2>2, SendStep
  <2>3. CASE UNCHANGED <<usart, txRing>>
    BY <2>1, <2>3, TxFacts
    DEF TxInv, ClosedInv, UdrieInv, TxcInv, WriteInv, RankInv, CreditInv, Open,
        Drained, Closing, WriteBefore, TxFull, TxCount, Published, InRegisters,
        RingFrom, usart, txRing
  <2>. QED
    BY <1>2, <2>2, <2>3 DEF FlushBody, Sends, UdrEmpty
<1>3. CASE WriteWait
  <2>1. /\ pc = "wait" /\ UNCHANGED <<written, cur, line, txCredit>>
    BY <1>3 DEF WriteWait, credits
  <2>2. CASE ~TxFull /\ Goto("store") /\ UNCHANGED <<usart, txRing>>
    BY <2>1, <2>2, TxFacts
    DEF TxInv, ClosedInv, UdrieInv, TxcInv, WriteInv, RankInv, CreditInv, Open,
        Drained, Closing, WriteBefore, TxFull, TxCount, Published, InRegisters,
        RingFrom, usart, txRing, Goto
  <2>3. CASE TxFull /\ UdrEmpty /\ TxUdrEmptyIrq /\ UNCHANGED sketch
    <3>1. Sends
      <4>1. txHead # txTail
        BY <2>3, TxFacts
      <4>. QED
        BY <2>1, <2>3, <4>1 DEF Sends, UdrEmpty, TxInv, UdrieInv
    <3>2. UNCHANGED <<pc, call, todo, copy, reg>>
      BY <2>3 DEF sketch
    <3>. QED
      BY <2>1, <3>1, <3>2, SendStep
  <2>4. CASE UNCHANGED <<usart, txRing, sketch>>
    <3>1. UNCHANGED <<udr, shift, txc, ucsrb, txHead, txTail, txBuf, todo, copy,
                      pc, call, reg>>
      BY <2>4 DEF usart, txRing, sketch
    <3>. QED
      BY <2>1, <3>1, StillStep
  <2>. QED
    BY <1>3, <2>2, <2>3, <2>4 DEF WriteWait
<1>. QED
  BY <1>1, <1>2, <1>3

\* The edits of begin() and end() do not enable the handler.
LEMMA EditsDisable == NoEnable(BeginEdits) /\ NoEnable(EndEdits)
<1>1. \A b, v : <<b, v>> = <<"udrie", TRUE>> => b = "udrie" /\ v = TRUE
  OBVIOUS
<1>2. \A a, b, c, d :
        /\ Len(<<a, b, c, d>>) = 4
        /\ \A k \in 1 .. 4 : <<a, b, c, d>>[k] \in {a, b, c, d}
  OBVIOUS
<1>3. ASSUME NEW v \in BOOLEAN, NEW w \in BOOLEAN, NEW x \in BOOLEAN
      PROVE  <<"udrie", TRUE>> \notin
               {<<"rxen", v>>, <<"txen", w>>, <<"rxcie", x>>, <<"udrie", FALSE>>}
  BY <1>1
<1>4. /\ Len(BeginEdits) = 4
      /\ \A k \in 1 .. 4 : BeginEdits[k] \in
           {<<"rxen", TRUE>>, <<"txen", TRUE>>, <<"rxcie", TRUE>>, <<"udrie", FALSE>>}
  BY <1>2 DEF BeginEdits
<1>5. /\ Len(EndEdits) = 4
      /\ \A k \in 1 .. 4 : EndEdits[k] \in
           {<<"rxen", FALSE>>, <<"txen", FALSE>>, <<"rxcie", FALSE>>, <<"udrie", FALSE>>}
  BY <1>2 DEF EndEdits
<1>. QED
  BY <1>3, <1>4, <1>5, Zenon DEF NoEnable

\* A step of one of these calls that moves the sketch, with the ring and the
\* registers as they were.
LEMMA MoveStep ==
  ASSUME RxInv, TxInv,
         UNCHANGED <<udr, shift, txc, ucsrb, written, txHead, txTail, txBuf, cur,
                     line, copy, txCredit>>,
         {pc, pc'} \cap (WriteBefore \cup {"fastTxc", "udrie", "afw", "rmwStore"}) = {},
         pc' = "flushT" => ~ucsrb.udrie,
         pc' \in Closing => Drained,
         ~Open => pc' \in Closing \cup {"idle"},
         NoEnable(todo')
  PROVE  TxInv'
<1>1. ClosedInv'
  BY DEF TxInv, ClosedInv, Open, Drained, NoEnable
<1>2. UdrieInv' /\ TxcInv' /\ WriteInv'
  BY DEF TxInv, UdrieInv, TxcInv, WriteInv, WriteBefore
<1>3. RankInv' /\ CreditInv'
  BY DEF TxInv, RankInv, CreditInv, TxCount, Published, InRegisters, WriteBefore
<1>. QED
  BY <1>1, <1>2, <1>3 DEF TxInv

LEMMA OpenStep ==
  ASSUME RxInv, TxInv, Begin \/ RmwLoad \/ RmwStore \/ ClearRx \/ FlushTest
  PROVE  TxInv'
<1>0. /\ NoEnable(todo)
      /\ pc \in Closing => Drained
      /\ ~Open => pc \in Closing \cup {"idle"}
      /\ ~written => Drained
  BY DEF TxInv, ClosedInv, NoEnable
<1>1. CASE Begin
  <2>1. /\ pc = "begin" /\ pc' = "rmwLoad" /\ NoEnable(todo') /\ Drained
        /\ UNCHANGED <<udr, shift, txc, ucsrb, txHead, txTail, txBuf, cur,
                       line, copy, txCredit>>
    BY <1>0, <1>1, EditsDisable DEF Begin, usart, txRing, credits, Closing
  <2>2. ClosedInv'
    BY <2>1 DEF ClosedInv, Open, Drained, NoEnable, Closing
  <2>3. UdrieInv' /\ TxcInv' /\ WriteInv'
    BY <2>1 DEF TxInv, UdrieInv, TxcInv, WriteInv, WriteBefore
  <2>4. RankInv' /\ CreditInv'
    BY <2>1 DEF TxInv, RankInv, CreditInv, TxCount, Published, InRegisters
  <2>. QED
    BY <2>2, <2>3, <2>4 DEF TxInv
<1>2. CASE RmwLoad
  <2>1. /\ pc = "rmwLoad" /\ pc' = "rmwStore" /\ NoEnable(todo') /\ Drained
        /\ copy' = ucsrb
        /\ UNCHANGED <<udr, shift, txc, ucsrb, written, txHead, txTail, txBuf, cur,
                       line, txCredit>>
    BY <1>0, <1>2 DEF RmwLoad, usart, txRing, credits, Closing
  <2>2. ClosedInv'
    BY <2>1 DEF ClosedInv, Open, Drained, NoEnable, Closing
  <2>3. UdrieInv' /\ TxcInv' /\ WriteInv'
    BY <2>1 DEF TxInv, UdrieInv, TxcInv, WriteInv, WriteBefore
  <2>4. RankInv' /\ CreditInv'
    BY <2>1 DEF TxInv, RankInv, CreditInv, TxCount, Published, InRegisters
  <2>. QED
    BY <2>2, <2>3, <2>4 DEF TxInv
<1>3. CASE RmwStore
  <2>1. /\ todo # <<>> /\ todo \in Seq(Edits) /\ ucsrb \in [EnableBits -> BOOLEAN]
        /\ pc = "rmwStore" /\ copy = ucsrb /\ ~ucsrb.udrie /\ Drained
    BY <1>0, <1>3
    DEF RmwStore, RxInv, TypeOK, LocalInv, SketchType, UsartType, TxInv, ClosedInv,
        Closing, Drained
  <2>2. /\ Head(todo) # <<"udrie", TRUE>> /\ Head(todo) \in Edits
        /\ NoEnable(todo')
    <3>1. /\ Head(todo) \in Edits /\ Head(todo) = todo[1] /\ Len(todo) \in Nat
          /\ Len(todo) > 0 /\ Len(Tail(todo)) = Len(todo) - 1
          /\ \A k \in 1 .. Len(todo) - 1 : Tail(todo)[k] = todo[k + 1]
      BY <2>1, HeadTailType, Zenon
    <3>2. todo' = Tail(todo) /\ 1 \in 1 .. Len(todo)
      BY <1>3, <3>1 DEF RmwStore
    <3>3. \A k \in 1 .. Len(todo) - 1 : k + 1 \in 1 .. Len(todo)
      BY <3>1
    <3>. QED
      BY <1>0, <3>1, <3>2, <3>3 DEF NoEnable
  <2>3. ~ucsrb'.udrie
    <3>1. PICK b \in EnableBits, v \in BOOLEAN : Head(todo) = <<b, v>>
      BY <2>2 DEF Edits
    <3>2. b = "udrie" => ~v
      BY <2>2, <3>1
    <3>3. ucsrb' = [ucsrb EXCEPT ![b] = v]
      <4>1. Head(todo)[1] = b /\ Head(todo)[2] = v
        BY <3>1
      <4>2. ucsrb' = [ucsrb EXCEPT ![Head(todo)[1]] = Head(todo)[2]]
        BY <1>3, <2>1 DEF RmwStore
      <4>. QED
        BY <4>1, <4>2
    <3>4. "udrie" \in EnableBits
      BY DEF EnableBits
    <3>5. ucsrb'["udrie"] = IF b = "udrie" THEN v ELSE ucsrb["udrie"]
      BY <2>1, <3>3, <3>4
    <3>. QED
      BY <2>1, <3>2, <3>5
  <2>4. /\ pc' \in {"rmwLoad", "idle", "clearRx"}
        /\ UNCHANGED <<udr, shift, txc, written, txHead, txTail, txBuf, cur,
                       line, copy, txCredit>>
    BY <1>3 DEF RmwStore, txRing, credits
  <2>5. ClosedInv'
    BY <2>1, <2>2, <2>3, <2>4 DEF ClosedInv, Open, Drained, NoEnable, Closing
  <2>6. UdrieInv' /\ TxcInv' /\ WriteInv'
    BY <2>1, <2>3, <2>4 DEF TxInv, UdrieInv, TxcInv, WriteInv, WriteBefore, Drained
  <2>7. RankInv' /\ CreditInv'
    BY <2>1, <2>4
    DEF TxInv, RankInv, CreditInv, TxCount, Published, InRegisters, WriteBefore
  <2>. QED
    BY <2>5, <2>6, <2>7 DEF TxInv
<1>4. CASE ClearRx
  <2>1. /\ pc = "clearRx" /\ pc' = "idle" /\ NoEnable(todo')
        /\ UNCHANGED <<udr, shift, txc, ucsrb, written, txHead, txTail, txBuf, cur,
                       line, copy, txCredit>>
    BY <1>0, <1>4 DEF ClearRx, Goto, usart, txRing
  <2>. QED
    BY <2>1, MoveStep DEF WriteBefore, Closing
<1>5. CASE FlushTest
  <2>0. /\ pc \in {"flushU0", "flushU", "flushT"} /\ Open
        /\ pc = "flushT" => ~ucsrb.udrie
    BY <1>0, <1>5 DEF FlushTest, Closing, TxInv, UdrieInv
  <2>1. UNCHANGED <<udr, shift, txc, ucsrb, written, txHead, txTail, txBuf, cur,
                    line, copy, txCredit>>
    BY <1>5 DEF FlushTest, FlushDone, Goto, usart, txRing, credits
  <2>2. \/ pc' = "flushU" /\ todo' = todo
        \/ pc' = "flushT" /\ todo' = todo /\ ~ucsrb.udrie
        \/ pc' = "flushBody" /\ todo' = todo
        \/ FlushDone /\ (~written \/ (pc = "flushT" /\ txc))
    BY <1>5 DEF FlushTest, Goto
  <2>3. FlushDone => pc' \in {"rmwLoad", "idle"} /\ NoEnable(todo')
    BY <1>0, EditsDisable DEF FlushDone, Goto
  <2>4. (~written \/ (pc = "flushT" /\ txc)) => Drained
    BY <1>0, <2>0 DEF TxInv, TxcInv, UdrieInv, Drained
  <2>5. /\ {pc, pc'} \cap (WriteBefore \cup {"fastTxc", "udrie", "afw", "rmwStore"}) = {}
        /\ pc' = "flushT" => ~ucsrb.udrie
        /\ pc' \in Closing => Drained
        /\ NoEnable(todo')
    BY <1>0, <2>0, <2>2, <2>3, <2>4 DEF WriteBefore, Closing
  <2>. QED
    BY <2>0, <2>1, <2>5, MoveStep
<1>. QED
  BY <1>1, <1>2, <1>3, <1>4, <1>5

\* A call starts; without ReBegin begin() only starts on a closed port.
LEMMA StartStep ==
  ASSUME RxInv, TxInv, ~ReBegin,
         NEW op \in Calls \ {"noInterrupts", "interrupts"}, StartCall(op)
  PROVE  TxInv'
<1>1. /\ pc = "idle" /\ call' = op
      /\ UNCHANGED <<udr, shift, txc, ucsrb, written, txHead, txTail, txBuf, line,
                     todo, copy, reg, txCredit>>
      /\ IF op = "begin" THEN ~Open ELSE Open
      /\ cur' = IF op = "write" THEN cur + 1 ELSE cur
      /\ pc' = IF op \in {"end", "flush"} THEN "flushU0"
               ELSE IF op = "availableForWrite" THEN "afwTail"
               ELSE IF op = "available" THEN "availHead" ELSE op
      /\ op \in {"begin", "end", "write", "flush", "availableForWrite", "available",
                 "peek", "read"}
  BY CallsAssumption
  DEF StartCall, Idle, EntryPoint, CallNames, usart, txRing, credits
<1>2. ClosedInv'
  BY <1>1 DEF TxInv, ClosedInv, Open, Drained, Closing
<1>3. UdrieInv' /\ TxcInv' /\ WriteInv'
  BY <1>1, TxFacts, SMTT(20) DEF TxInv, UdrieInv, TxcInv, WriteInv, WriteBefore
<1>4. RankInv' /\ CreditInv'
  <2>1. Published = cur /\ Published' = cur
    BY <1>1, TxFacts, SMTT(20) DEF Published
  <2>. QED
    BY <1>1, <2>1 DEF TxInv, RankInv, CreditInv, TxCount, InRegisters
<1>. QED
  BY <1>2, <1>3, <1>4 DEF TxInv

\* What holds of a write() at work.
LEMMA WriteFacts ==
  ASSUME RxInv, TxInv, pc \in WriteBefore \cup {"fastTxc", "udrie"}
  PROVE  /\ call = "write" /\ Open
         /\ Published = IF pc \in WriteBefore THEN cur - 1 ELSE cur
         /\ pc # "write" => written
  BY DEF RxInv, CallInv, TxInv, ClosedInv, WriteInv, WriteBefore, Closing, Published

LEMMA WriteTestStep == ASSUME RxInv, TxInv, WriteTest PROVE TxInv'
<1>1. /\ pc = "write" /\ written' = TRUE /\ Open
      /\ UNCHANGED <<udr, shift, txc, ucsrb, txHead, txTail, txBuf, cur, line, call,
                     todo, copy, reg, txCredit>>
      /\ pc' \in {"fastUdr", "wait"}
      /\ pc' = "fastUdr" => txHead = txTail /\ udr = 0
  BY WriteFacts DEF WriteTest, Goto, usart, txRing, credits, UdrEmpty, WriteBefore
<1>2. ClosedInv'
  BY <1>1 DEF TxInv, ClosedInv, Open, Closing
<1>3. UdrieInv' /\ TxcInv' /\ WriteInv'
  BY <1>1 DEF TxInv, UdrieInv, TxcInv, WriteInv, WriteBefore
<1>4. RankInv' /\ CreditInv'
  BY <1>1 DEF TxInv, RankInv, CreditInv, TxCount, InRegisters, Published
<1>. QED
  BY <1>2, <1>3, <1>4 DEF TxInv

\* The shortcut: the byte goes to UDR, then TXC is cleared.
LEMMA FastStep == ASSUME RxInv, TxInv, FastUdr \/ FastTxc PROVE TxInv'
<1>0. /\ TxSize \in Nat /\ TxSize >= 2 /\ Len(line) \in Nat /\ cur \in Nat
      /\ TxCount \in 0 .. TxSize - 1 /\ (TxCount = 0 <=> txHead = txTail)
      /\ txCredit \in 0 .. TxSize - 1
  BY TxFacts
<1>1. CASE FastUdr
  <2>1. /\ pc = "fastUdr" /\ pc' = "fastTxc" /\ written /\ Open /\ call = "write"
        /\ udr = 0 /\ udr' = cur /\ cur >= 1 /\ txHead = txTail
        /\ Published = cur - 1
        /\ UNCHANGED <<shift, txc, ucsrb, written, txHead, txTail, txBuf, cur, line,
                       call, todo, copy, reg, txCredit>>
    BY <1>1, WriteFacts
    DEF FastUdr, StoreUdr, UdrEmpty, Goto, txRing, credits, TxInv, WriteInv, WriteBefore
  <2>2. ClosedInv'
    BY <2>1 DEF TxInv, ClosedInv, Open, Closing
  <2>3. UdrieInv' /\ TxcInv' /\ WriteInv'
    BY <2>1 DEF TxInv, UdrieInv, TxcInv, WriteInv, WriteBefore
  <2>4. RankInv'
    <3>1. InRegisters' = InRegisters + 1 /\ TxCount = 0 /\ TxCount' = 0
      BY <1>0, <2>1 DEF InRegisters, TxCount
    <3>2. Published' = cur /\ cur - 1 = Len(line) + InRegisters
      BY <1>0, <2>1, <3>1, TxFacts DEF Published, TxInv, RankInv
    <3>3. cur = Len(line) + InRegisters'
      <4>1. InRegisters \in 0 .. 2
        BY TxFacts
      <4>. QED
        BY <1>0, <3>1, <3>2, <4>1
    <3>4. RingFrom(Len(line) + InRegisters, txHead, txTail, txBuf)'
      BY <1>0, <2>1, <3>1 DEF RingFrom, TxCount
    <3>. QED
      BY <1>0, <2>1, <3>1, <3>2, <3>3, <3>4 DEF TxInv, RankInv
  <2>5. CreditInv'
    BY <2>1 DEF TxInv, CreditInv, TxCount
  <2>. QED
    BY <2>2, <2>3, <2>4, <2>5 DEF TxInv
<1>2. CASE FastTxc
  <2>1. /\ pc = "fastTxc" /\ pc' = "idle" /\ written /\ Open /\ call = "write"
        /\ txc' = FALSE /\ txCredit' = LowerBy1(txCredit)
        /\ Published = cur
        /\ UNCHANGED <<udr, shift, ucsrb, written, txHead, txTail, txBuf, cur, line,
                       call, todo, copy, reg>>
    BY <1>2, WriteFacts
    DEF FastTxc, WriteReturn, Return, txRing, WriteBefore
  <2>2. ClosedInv'
    BY <2>1 DEF TxInv, ClosedInv, Open, Closing
  <2>3. UdrieInv' /\ TxcInv' /\ WriteInv'
    BY <2>1 DEF TxInv, UdrieInv, TxcInv, WriteInv, WriteBefore
  <2>4. RankInv'
    BY <2>1 DEF TxInv, RankInv, TxCount, InRegisters, Published
  <2>5. CreditInv'
    BY <1>0, <2>1 DEF TxInv, CreditInv, TxCount, LowerBy1
  <2>. QED
    BY <2>2, <2>3, <2>4, <2>5 DEF TxInv
<1>. QED
  BY <1>1, <1>2

\* The way through the ring: the byte is stored, the head moves, the handler is
\* enabled.
LEMMA RingWriteStep ==
  ASSUME RxInv, TxInv, WriteStore \/ WriteHead \/ WriteUdrie PROVE TxInv'
<1>0. /\ TxSize \in Nat /\ TxSize >= 2 /\ Len(line) \in Nat /\ cur \in Nat
      /\ txHead \in 0 .. TxSize - 1 /\ txTail \in 0 .. TxSize - 1
      /\ txBuf \in [0 .. TxSize - 1 -> 0 .. MaxWrites]
      /\ InRegisters \in 0 .. 2 /\ Len(line) + InRegisters \in Nat
      /\ TxCount \in 0 .. TxSize - 1 /\ (TxCount = 0 <=> txHead = txTail)
      /\ txCredit \in 0 .. TxSize - 1
      /\ ucsrb \in [EnableBits -> BOOLEAN]
  <2>1. Len(line) \in Nat /\ InRegisters \in 0 .. 2
    BY TxFacts
  <2>2. Len(line) + InRegisters \in Nat
    BY <2>1
  <2>3. ucsrb \in [EnableBits -> BOOLEAN]
    BY DEF RxInv, TypeOK, UsartType
  <2>. QED
    BY TxFacts, <2>2, <2>3
<1>1. CASE WriteStore
  <2>1. /\ pc = "store" /\ pc' = "head" /\ written /\ Open /\ call = "write" /\ ~TxFull
        /\ txBuf' = [txBuf EXCEPT ![txHead] = cur] /\ cur >= 1
        /\ UNCHANGED <<udr, shift, txc, ucsrb, written, txHead, txTail, cur, line,
                       call, todo, copy, reg, txCredit>>
    BY <1>1, WriteFacts
    DEF WriteStore, Goto, usart, credits, TxInv, WriteInv, WriteBefore
  <2>2. ClosedInv'
    BY <2>1 DEF TxInv, ClosedInv, Open, Closing
  <2>3. UdrieInv' /\ TxcInv' /\ WriteInv'
    BY <1>0, <2>1 DEF TxInv, UdrieInv, TxcInv, WriteInv, WriteBefore, TxFull
  <2>4. RankInv'
    <3>1. RingFrom(Len(line) + InRegisters, txHead, txTail, txBuf')
      BY <1>0, <2>1, RingFromStore DEF TxInv, RankInv, TxFull
    <3>2. RingFrom(Len(line) + InRegisters, txHead, txTail, txBuf)'
      BY <2>1, <3>1 DEF InRegisters
    <3>. QED
      BY <2>1, <3>2 DEF TxInv, RankInv, TxCount, InRegisters, Published
  <2>5. CreditInv'
    BY <2>1 DEF TxInv, CreditInv, TxCount
  <2>. QED
    BY <2>2, <2>3, <2>4, <2>5 DEF TxInv
<1>2. CASE WriteHead
  <2>1. /\ pc = "head" /\ pc' = "udrie" /\ written /\ Open /\ call = "write" /\ ~TxFull
        /\ txBuf[txHead] = cur /\ cur >= 1 /\ Published = cur - 1
        /\ txHead' = Succ(txHead, TxSize)
        /\ UNCHANGED <<udr, shift, txc, ucsrb, written, txBuf, txTail, cur, line,
                       call, todo, copy, reg, txCredit>>
    BY <1>2, WriteFacts
    DEF WriteHead, Goto, usart, credits, TxInv, WriteInv, WriteBefore
  <2>2. TxCount' = TxCount + 1 /\ txHead' # txTail
    BY <1>0, <2>1, PushForm DEF TxCount, TxFull
  <2>3. ClosedInv'
    BY <2>1 DEF TxInv, ClosedInv, Open, Closing
  <2>4. UdrieInv' /\ TxcInv' /\ WriteInv'
    BY <2>1, <2>2 DEF TxInv, UdrieInv, TxcInv, WriteInv, WriteBefore
  <2>5. RankInv'
    <3>1. cur - 1 = Len(line) + InRegisters + TxCount
      BY <2>1 DEF TxInv, RankInv
    <3>2. txBuf[txHead] = (Len(line) + InRegisters) + Fill(txHead, txTail, TxSize) + 1
      BY <1>0, <2>1, <3>1 DEF TxCount
    <3>3. RingFrom(Len(line) + InRegisters, txHead', txTail, txBuf)
      BY <1>0, <2>1, <3>2, RingFromPush DEF TxInv, RankInv, TxFull
    <3>4. RingFrom(Len(line) + InRegisters, txHead, txTail, txBuf)'
      BY <2>1, <3>3 DEF InRegisters
    <3>5. Published' = Len(line) + InRegisters + TxCount'
      BY <1>0, <2>1, <2>2, <3>1 DEF Published
    <3>. QED
      BY <2>1, <3>4, <3>5 DEF TxInv, RankInv, InRegisters
  <2>6. CreditInv'
    <3>1. txCredit + TxCount < TxSize
      BY <2>1 DEF TxInv, CreditInv
    <3>2. TxCount < TxSize - 1
      BY <1>0, <2>1, TxFacts
    <3>3. LowerBy1(txCredit) + (TxCount + 1) < TxSize
      BY <1>0, <3>1, <3>2 DEF LowerBy1
    <3>. QED
      BY <2>1, <2>2, <3>3 DEF CreditInv
  <2>. QED
    BY <2>3, <2>4, <2>5, <2>6 DEF TxInv
<1>3. CASE WriteUdrie
  <2>1. /\ pc = "udrie" /\ pc' = "idle" /\ written /\ Open /\ call = "write"
        /\ ucsrb' = [ucsrb EXCEPT !.udrie = TRUE] /\ Published = cur
        /\ txCredit' = LowerBy1(txCredit)
        /\ UNCHANGED <<udr, shift, txc, written, txHead, txTail, txBuf, cur, line,
                       call, todo, copy, reg>>
    BY <1>3, WriteFacts DEF WriteUdrie, WriteReturn, Return, txRing, WriteBefore
  <2>2. ClosedInv'
    BY <1>0, <2>1 DEF TxInv, ClosedInv, Open, Closing, EnableBits
  <2>3. UdrieInv' /\ TxcInv' /\ WriteInv'
    BY <1>0, <2>1 DEF TxInv, UdrieInv, TxcInv, WriteInv, WriteBefore, EnableBits
  <2>4. RankInv' /\ CreditInv'
    BY <2>1 DEF TxInv, RankInv, CreditInv, TxCount, InRegisters, Published
  <2>. QED
    BY <2>2, <2>3, <2>4 DEF TxInv
<1>. QED
  BY <1>1, <1>2, <1>3

\* availableForWrite() counts from the tail it has read; the tail only moves on.
LEMMA AvailableForWriteStep ==
  ASSUME RxInv, TxInv, AvailableForWrite PROVE TxInv'
<1>0. /\ TxSize \in Nat /\ TxSize >= 2
      /\ txHead \in 0 .. TxSize - 1 /\ TxCount \in 0 .. TxSize - 1
      /\ pc = "afw" => reg \in 0 .. TxSize - 1
  BY TxFacts DEF RxInv, LocalInv
<1>1. /\ pc \in {"afwTail", "afw"} /\ call = "availableForWrite" /\ Open
      /\ UNCHANGED <<udr, shift, txc, ucsrb, written, txHead, txTail, txBuf, cur, line,
                     call, todo, copy>>
      /\ \/ pc = "afwTail" /\ pc' = "afw" /\ reg' = txTail /\ txCredit' = txCredit
         \/ pc = "afw" /\ pc' = "idle" /\ txCredit' = FreeSlots(txHead, reg)
  BY DEF AvailableForWrite, Return, usart, txRing, RxInv, CallInv, TxInv, ClosedInv,
         Closing
<1>2. ClosedInv'
  BY <1>1 DEF TxInv, ClosedInv, Open, Closing, Drained
<1>3. UdrieInv' /\ TxcInv' /\ WriteInv'
  BY <1>1 DEF TxInv, UdrieInv, TxcInv, WriteInv, WriteBefore
<1>4. RankInv'
  BY <1>1 DEF TxInv, RankInv, TxCount, InRegisters, Published
<1>5. CreditInv'
  <2>1. CASE pc = "afwTail"
    BY <1>0, <1>1, <2>1 DEF TxInv, CreditInv, TxCount
  <2>2. CASE pc = "afw"
    <3>1. /\ FreeSlots(txHead, reg) = TxSize - 1 - Fill(txHead, reg, TxSize)
          /\ Fill(txHead, reg, TxSize) \in 0 .. TxSize - 1
      BY <1>0, <2>2, FreeForm, FillForm
    <3>2. TxCount <= Fill(txHead, reg, TxSize)
      BY <2>2 DEF TxInv, CreditInv
    <3>3. FreeSlots(txHead, reg) + TxCount < TxSize
      BY <1>0, <3>1, <3>2
    <3>. QED
      BY <1>1, <2>2, <3>3 DEF CreditInv, TxCount
  <2>. QED
    BY <1>1, <2>1, <2>2
<1>. QED
  BY <1>2, <1>3, <1>4, <1>5 DEF TxInv

\* The USART moves a byte into the shift register, or out on the line.
LEMMA ShiftStep == ASSUME RxInv, TxInv, LoadShift \/ ShiftOut PROVE TxInv'
<1>0. /\ TxSize \in Nat /\ TxSize >= 2 /\ Len(line) \in Nat
      /\ InRegisters \in 0 .. 2 /\ shift \in Nat /\ udr \in Nat
      /\ TxCount \in 0 .. TxSize - 1
      /\ line \in Seq(0 .. MaxWrites) /\ shift \in 0 .. MaxWrites
  BY TxFacts DEF RxInv, TypeOK, UsartType
<1>1. CASE LoadShift
  <2>1. /\ shift = 0 /\ udr # 0 /\ shift' = udr /\ udr' = 0
        /\ UNCHANGED <<txc, ucsrb, written, txHead, txTail, txBuf, cur, line,
                       pc, call, todo, copy, reg, txCredit>>
    BY <1>1 DEF LoadShift, UdrEmpty, txRing, sketch, credits
  <2>2. ClosedInv'
    BY <2>1 DEF TxInv, ClosedInv, Open, Drained
  <2>3. UdrieInv' /\ TxcInv' /\ WriteInv'
    BY <2>1 DEF TxInv, UdrieInv, TxcInv, WriteInv, TxFull
  <2>4. RankInv'
    BY <1>0, <2>1 DEF TxInv, RankInv, TxCount, InRegisters, Published
  <2>5. CreditInv'
    BY <2>1 DEF TxInv, CreditInv, TxCount
  <2>. QED
    BY <2>2, <2>3, <2>4, <2>5 DEF TxInv
<1>2. CASE ShiftOut
  <2>1. /\ shift # 0 /\ shift' = udr /\ udr' = 0 /\ line' = Append(line, shift)
        /\ txc' = (txc \/ udr = 0) /\ (pc = "fastTxc" => shift # cur)
        /\ UNCHANGED <<ucsrb, written, txHead, txTail, txBuf, cur,
                       pc, call, todo, copy, reg, txCredit>>
    BY <1>2
    DEF ShiftOut, UdrEmpty, JustLoaded, Masked, AtomicSection, txRing, sketch, credits
  <2>2. ClosedInv'
    BY <2>1 DEF TxInv, ClosedInv, Open, Drained
  <2>3. UdrieInv' /\ TxcInv' /\ WriteInv'
    BY <2>1 DEF TxInv, UdrieInv, TxcInv, WriteInv, TxFull
  <2>4. RankInv'
    <3>1. /\ Len(line') = Len(line) + 1 /\ line'[Len(line) + 1] = shift
          /\ \A n \in 1 .. Len(line) : line'[n] = line[n]
      BY <1>0, <2>1
    <3>2. /\ \A n \in 1 .. Len(line) : line[n] = n
          /\ shift = Len(line) + 1 /\ (udr # 0 => udr = Len(line) + InRegisters)
          /\ RingFrom(Len(line) + InRegisters, txHead, txTail, txBuf)
          /\ Published = Len(line) + InRegisters + TxCount
      BY <2>1 DEF TxInv, RankInv
    <3>3. /\ InRegisters' = InRegisters - 1 /\ (udr # 0 => InRegisters = 2)
          /\ Published' = Published /\ TxCount' = TxCount
      BY <2>1 DEF InRegisters, Published, TxCount
    <3>4. Len(line') + InRegisters' = Len(line) + InRegisters
      BY <1>0, <3>1, <3>3
    <3>5. \A n \in 1 .. Len(line') : line'[n] = n
      BY <1>0, <3>1, <3>2
    <3>6. shift' # 0 => shift' = Len(line') + 1
      BY <1>0, <2>1, <3>1, <3>2, <3>3
    <3>7. RingFrom(Len(line) + InRegisters, txHead, txTail, txBuf)'
      BY <2>1, <3>2, <3>4
    <3>8. Published' = Len(line') + InRegisters' + TxCount'
      BY <3>2, <3>3, <3>4
    <3>. QED
      BY <2>1, <3>5, <3>6, <3>7, <3>8 DEF RankInv
  <2>5. CreditInv'
    BY <2>1 DEF TxInv, CreditInv, TxCount
  <2>. QED
    BY <2>2, <2>3, <2>4, <2>5 DEF TxInv
<1>. QED
  BY <1>1, <1>2

LEMMA TxInitial == Init => TxInv
<1>. SUFFICES ASSUME Init PROVE TxInv
  OBVIOUS
<1>1. Fill(0, 0, TxSize) = 0
  BY FillForm, SizeAssumption
<1>. QED
  BY <1>1, SizeAssumption
  DEF Init, TxInv, ClosedInv, UdrieInv, TxcInv, WriteInv, RankInv, CreditInv, Open,
      Drained, Closing, WriteBefore, TxCount, Published, InRegisters, RingFrom,
      NoEnable, EnableBits

LEMMA TxInvariant == ASSUME ~ReBegin PROVE Spec => []TxInv
<1>1. RxInv /\ TxInv /\ [Next]_vars => TxInv'
  BY StartStep, ReceiveStep, DrainStep, OpenStep, WriteTestStep, FastStep,
     RingWriteStep, AvailableForWriteStep, ShiftStep
  DEF Next, StartAny, SketchStep
<1>. QED
  BY TxInitial, RxInvariant, <1>1, PTL DEF Spec

-----------------------------------------------------------------------------
(* Sequences of consecutive numbers.                                       *)

Run(a, c) == [n \in 1 .. c |-> a + n]

LEMMA RunType ==
  ASSUME NEW a \in Nat, NEW c \in Nat
  PROVE  Run(a, c) \in Seq(Nat) /\ Len(Run(a, c)) = c
  BY DEF Run

LEMMA RunShort ==
  ASSUME NEW a \in Nat PROVE <<>> = Run(a, 0) /\ <<a + 1>> = Run(a, 1)
  BY DEF Run

LEMMA RunConcat ==
  ASSUME NEW a \in Nat, NEW c \in Nat, NEW d \in Nat
  PROVE  Run(a, c) \o Run(a + c, d) = Run(a, c + d)
<1>1. /\ Run(a, c) \in Seq(Nat) /\ Run(a + c, d) \in Seq(Nat)
      /\ Len(Run(a, c)) = c /\ Len(Run(a + c, d)) = d
  <2>1. a + c \in Nat
    OBVIOUS
  <2>. QED
    BY <2>1, RunType
<1>. DEFINE both == Run(a, c) \o Run(a + c, d)
<1>2. /\ both \in Seq(Nat) /\ Len(both) = c + d
      /\ \A n \in 1 .. c + d :
           both[n] = IF n <= c THEN Run(a, c)[n] ELSE Run(a + c, d)[n - c]
  <2>1. /\ both \in Seq(Nat) /\ Len(both) = Len(Run(a, c)) + Len(Run(a + c, d))
        /\ \A n \in 1 .. Len(Run(a, c)) + Len(Run(a + c, d)) :
             both[n] = IF n <= Len(Run(a, c)) THEN Run(a, c)[n]
                       ELSE Run(a + c, d)[n - Len(Run(a, c))]
    BY <1>1, ConcatProperties, Zenon
  <2>. QED
    BY <1>1, <2>1, Zenon
<1>3. \A n \in 1 .. c + d : both[n] = a + n
  BY <1>2 DEF Run
<1>4. both = [n \in 1 .. c + d |-> both[n]]
  BY <1>2, SMTT(20)
<1>. QED
  BY <1>3, <1>4 DEF Run

LEMMA RunEnds ==
  ASSUME NEW a \in Nat, NEW c \in Nat
  PROVE  /\ Append(Run(a, c), a + c + 1) = Run(a, c + 1)
         /\ c > 0 => Head(Run(a, c)) = a + 1 /\ Tail(Run(a, c)) = Run(a + 1, c - 1)
         /\ Run(a, c) = <<>> <=> c = 0
<1>1. Append(Run(a, c), a + c + 1) = Run(a, c + 1)
  <2>1. <<a + c + 1>> = Run(a + c, 1) /\ a + c \in Nat
    BY RunShort
  <2>2. Run(a, c) \o Run(a + c, 1) = Run(a, c + 1)
    BY RunConcat
  <2>3. ASSUME NEW s \in Seq(Nat), NEW x \in Nat PROVE Append(s, x) = s \o <<x>>
    OBVIOUS
  <2>4. Run(a, c) \in Seq(Nat) /\ a + c + 1 \in Nat
    BY RunType
  <2>. QED
    BY <2>1, <2>2, <2>3, <2>4
<1>2. Run(a, c) = <<>> <=> c = 0
  BY RunType DEF Run
<1>3. ASSUME c > 0
      PROVE  Head(Run(a, c)) = a + 1 /\ Tail(Run(a, c)) = Run(a + 1, c - 1)
  <2>1. /\ Run(a, c) \in Seq(Nat) /\ Run(a, c) # <<>> /\ Len(Run(a, c)) = c
        /\ a + 1 \in Nat /\ c - 1 \in Nat
    BY <1>2, <1>3, RunType
  <2>2. /\ Head(Run(a, c)) = Run(a, c)[1] /\ Tail(Run(a, c)) \in Seq(Nat)
        /\ Len(Tail(Run(a, c))) = c - 1
        /\ \A k \in 1 .. c - 1 : Tail(Run(a, c))[k] = Run(a, c)[k + 1]
    BY <2>1, HeadTailType, Zenon
  <2>3. \A k \in 1 .. c - 1 : Run(a, c)[k + 1] = Run(a + 1, c - 1)[k]
    BY <2>1 DEF Run
  <2>4. Run(a + 1, c - 1) \in Seq(Nat) /\ Len(Run(a + 1, c - 1)) = c - 1
    BY <2>1, RunType
  <2>5. ASSUME NEW s \in Seq(Nat), NEW t \in Seq(Nat), Len(s) = Len(t),
               \A k \in 1 .. Len(t) : s[k] = t[k]
        PROVE  s = t
    BY <2>5, SeqEqual
  <2>6. Tail(Run(a, c)) = Run(a + 1, c - 1)
    BY <2>2, <2>3, <2>4, <2>5
  <2>7. 1 \in 1 .. c
    BY <1>3
  <2>. QED
    BY <2>2, <2>6, <2>7 DEF Run
<1>. QED
  BY <1>1, <1>2, <1>3

\* The bytes on their way are those after the last one on the line.
LEMMA InFlightForm ==
  ASSUME RxInv, TxInv
  PROVE  /\ InRegisters + TxCount \in Nat
         /\ Published = Len(line) + (InRegisters + TxCount)
         /\ InFlight = Run(Len(line), InRegisters + TxCount)
         /\ line = Run(0, Len(line))
<1>. DEFINE L == Len(line)
            ring == [k \in 1 .. TxCount |-> txBuf[Slot(txTail, k - 1, TxSize)]]
<1>1. /\ L \in Nat /\ TxCount \in Nat /\ InRegisters \in 0 .. 2
      /\ line \in Seq(0 .. MaxWrites) /\ InRegisters + TxCount \in Nat
  BY TxFacts
<1>2. ring = Run(L + InRegisters, TxCount)
  <2>1. ASSUME NEW k \in 1 .. TxCount
        PROVE  txBuf[Slot(txTail, k - 1, TxSize)] = L + InRegisters + k
    <3>1. k - 1 \in 0 .. TxCount - 1
      BY <1>1
    <3>2. txBuf[Slot(txTail, k - 1, TxSize)] = L + InRegisters + (k - 1) + 1
      BY <3>1 DEF TxInv, RankInv, RingFrom, TxCount
    <3>. QED
      BY <1>1, <3>2
  <2>. QED
    BY <2>1 DEF Run
<1>3. Register(shift) \o Register(udr) = Run(L, InRegisters)
  <2>. DEFINE s == IF shift = 0 THEN 0 ELSE 1
              u == IF udr = 0 THEN 0 ELSE 1
  <2>1. /\ shift # 0 => shift = L + 1
        /\ udr # 0 => udr = L + s + 1
        /\ s \in Nat /\ u \in Nat /\ L + s \in Nat /\ InRegisters = s + u
    BY <1>1 DEF TxInv, RankInv, InRegisters
  <2>2. Register(shift) = Run(L, s)
    BY <1>1, <2>1, RunShort DEF Register
  <2>3. Register(udr) = Run(L + s, u)
    BY <1>1, <2>1, RunShort DEF Register
  <2>. HIDE DEF s, u
  <2>. QED
    <3>1. Run(L, s) \o Run(L + s, u) = Run(L, s + u)
      BY <1>1, <2>1, RunConcat, ZenonT(40)
    <3>. QED
      BY <2>1, <2>2, <2>3, <3>1
<1>4. InFlight = Run(L, InRegisters) \o Run(L + InRegisters, TxCount)
  BY <1>2, <1>3 DEF InFlight
<1>5. InFlight = Run(L, InRegisters + TxCount)
  <2>1. InRegisters \in Nat
    BY <1>1
  <2>. QED
    BY <1>1, <1>4, <2>1, RunConcat
<1>6. line = Run(0, L)
  BY <1>1 DEF TxInv, RankInv, Run
<1>7. Published = L + (InRegisters + TxCount)
  BY <1>1 DEF TxInv, RankInv
<1>. QED
  BY <1>1, <1>5, <1>6, <1>7

-----------------------------------------------------------------------------
(* The theorems of the transmit side.                                      *)

\* The line carries the bytes given to write(), each once and in order, the
\* handler is never enabled over an empty ring, and a write() within what
\* availableForWrite() promised does not wait: for every interleaving of
\* write(), flush(), begin() and end() with the handler and the shift register,
\* and every size of the ring up to 256.
THEOREM TransmitCorrect == ASSUME ~ReBegin PROVE Spec => []TransmitSafe
<1>1. RxInv /\ TxInv => TransmitSafe
  <2>. SUFFICES ASSUME RxInv, TxInv PROVE TransmitSafe
    OBVIOUS
  <2>1. TransmitInOrder
    <3>1. /\ Len(line) \in Nat /\ InRegisters + TxCount \in Nat
          /\ 0 \in Nat /\ 0 + Len(line) = Len(line)
      BY TxFacts, InFlightForm
    <3>2. line \o InFlight = Run(0, Len(line) + (InRegisters + TxCount))
      <4>1. /\ InFlight = Run(Len(line), InRegisters + TxCount)
            /\ line = Run(0, Len(line))
        BY InFlightForm
      <4>2. Run(0, Len(line)) \o Run(0 + Len(line), InRegisters + TxCount)
              = Run(0, Len(line) + (InRegisters + TxCount))
        BY <3>1, RunConcat
      <4>. QED
        BY <3>1, <4>1, <4>2
    <3>3. Run(0, Published) = [n \in 1 .. Published |-> n]
      BY <3>1, InFlightForm DEF Run
    <3>. QED
      BY <3>2, <3>3, InFlightForm DEF TransmitInOrder
  <2>2. UdrieMeansData
    BY DEF TxInv, UdrieInv, UdrieMeansData
  <2>3. PromisedRoomIsThere
    BY TxFacts, SMTT(20) DEF TxInv, CreditInv, PromisedRoomIsThere
  <2>. QED
    BY <2>1, <2>2, <2>3 DEF TransmitSafe
<1>. QED
  BY RxInvariant, TxInvariant, <1>1, PTL

-----------------------------------------------------------------------------
(* The refinement.                                                         *)

\* Where the sketch is, as the port's caller sees it.
LEMMA CallerForm ==
  ASSUME RxInv, TxInv
  PROVE  /\ AbstractCaller = IF pc \in WriteBefore THEN "write"
              ELSE IF pc \in {"flushU0", "flushU", "flushT", "flushBody"}
              THEN "flush" ELSE "none"
         /\ Published = IF pc \in WriteBefore THEN cur - 1 ELSE cur
         /\ cur \in Nat /\ (pc \in WriteBefore => cur \in 1 .. MaxWrites)
<1>1. pc \in WriteBefore => call = "write" /\ cur >= 1
  BY DEF RxInv, CallInv, TxInv, WriteInv, WriteBefore
<1>2. cur \in 0 .. MaxWrites /\ MaxWrites \in Nat
  BY BoundAssumption DEF RxInv, TypeOK, HistoryType
<1>. QED
  BY <1>1, <1>2 DEF AbstractCaller, Published, WriteBefore

\* What the caller sees and what is on its way, in the next state too.
Seen ==
  /\ AbstractCaller = IF pc \in WriteBefore THEN "write"
       ELSE IF pc \in {"flushU0", "flushU", "flushT", "flushBody"}
       THEN "flush" ELSE "none"
  /\ Published = IF pc \in WriteBefore THEN cur - 1 ELSE cur
  /\ InRegisters + TxCount \in Nat /\ Len(line) \in Nat
  /\ Published = Len(line) + (InRegisters + TxCount)
  /\ InFlight = Run(Len(line), InRegisters + TxCount)

LEMMA SeenNow == RxInv /\ TxInv => Seen
  BY CallerForm, InFlightForm, TxFacts DEF Seen

LEMMA SeenNext == (RxInv /\ TxInv)' => Seen'
  BY SeenNow, PTL

\* What one step is to the caller, and to the bytes on their way.
PortStep ==
  \/ /\ line' = line /\ Published' = Published
     /\ \/ AbstractCaller' = AbstractCaller
        \/ AbstractCaller = "none" /\ AbstractCaller' \in {"write", "flush"}
        \/ AbstractCaller = "flush" /\ AbstractCaller' = "none" /\ Drained
  \/ /\ line' = line /\ AbstractCaller = "write" /\ AbstractCaller' = "none"
     /\ Published' = Published + 1 /\ Published' \in 1 .. MaxWrites
     /\ InRegisters + TxCount < TxSize + 1
  \/ /\ shift # 0 /\ line' = Append(line, shift)
     /\ AbstractCaller' = AbstractCaller /\ Published' = Published

LEMMA StepIsPortStep ==
  ASSUME RxInv, TxInv, RxInv', TxInv', [Next]_vars
  PROVE  PortStep
<1>. DEFINE caller(p) == IF p \in WriteBefore THEN "write"
              ELSE IF p \in {"flushU0", "flushU", "flushT", "flushBody"}
              THEN "flush" ELSE "none"
<1>0. /\ AbstractCaller = caller(pc) /\ AbstractCaller' = caller(pc')
      /\ Published = IF pc \in WriteBefore THEN cur - 1 ELSE cur
      /\ Published' = IF pc' \in WriteBefore THEN cur' - 1 ELSE cur'
      /\ cur \in Nat /\ (pc \in WriteBefore => cur \in 1 .. MaxWrites)
  <2>1. /\ AbstractCaller' = caller(pc)'
        /\ Published' = IF pc' \in WriteBefore THEN cur' - 1 ELSE cur'
    BY SeenNext DEF Seen, WriteBefore
  <2>2. caller(pc)' = caller(pc')
    BY DEF WriteBefore
  <2>. QED
    BY <2>1, <2>2, CallerForm
<1>. USE <1>0 DEF PortStep, WriteBefore
<1>1. ASSUME NEW op \in Calls \ {"noInterrupts", "interrupts"}, StartCall(op)
      PROVE  PortStep
  BY <1>1, CallsAssumption DEF StartCall, Idle, EntryPoint, CallNames
<1>2. CASE Begin \/ RmwLoad \/ RmwStore \/ ClearRx
  BY <1>2 DEF Begin, RmwLoad, RmwStore, ClearRx, Goto
<1>3. CASE FlushTest
  <2>1. /\ line' = line /\ cur' = cur
        /\ pc \in {"flushU0", "flushU", "flushT"}
        /\ \/ pc' \in {"flushU", "flushT", "flushBody"}
           \/ /\ pc' \in {"rmwLoad", "idle"}
              /\ ~written \/ (pc = "flushT" /\ txc)
    BY <1>3 DEF FlushTest, FlushDone, Goto
  <2>2. (~written \/ (pc = "flushT" /\ txc)) => Drained
    BY DEF TxInv, ClosedInv, TxcInv, UdrieInv, Drained
  <2>. QED
    BY <2>1, <2>2
<1>4. CASE FlushBody \/ WriteTest \/ WriteWait \/ WriteStore
  BY <1>4 DEF FlushBody, WriteTest, WriteWait, WriteStore, Goto, sketch
<1>5. CASE FastUdr
  <2>1. InRegisters + TxCount < TxSize + 1
    <3>1. udr = 0 /\ txHead = txTail
      BY <1>5 DEF FastUdr, TxInv, WriteInv
    <3>2. InRegisters \in 0 .. 1 /\ TxCount = 0 /\ TxSize \in Nat /\ TxSize >= 2
      BY <3>1, TxFacts DEF InRegisters
    <3>. QED
      BY <3>2
  <2>. QED
    BY <1>5, <2>1 DEF FastUdr, Goto
<1>6. CASE WriteHead
  <2>1. InRegisters + TxCount < TxSize + 1
    <3>1. ~TxFull
      BY <1>6 DEF WriteHead, TxInv, WriteInv
    <3>2. /\ InRegisters \in 0 .. 2 /\ TxSize \in Nat
          /\ TxCount \in 0 .. TxSize - 1 /\ TxCount # TxSize - 1
      BY <3>1, TxFacts
    <3>. QED
      BY <3>2
  <2>. QED
    BY <1>6, <2>1 DEF WriteHead, Goto
<1>7. CASE FastTxc \/ WriteUdrie \/ AvailableForWrite
  BY <1>7 DEF FastTxc, WriteUdrie, WriteReturn, AvailableForWrite, Return
<1>8. CASE Available \/ Peek \/ Read \/ ReadTail
  BY <1>8 DEF Available, Peek, Read, ReadTail, Return, Goto
<1>9. CASE ShiftOut
  BY <1>9 DEF ShiftOut, sketch
<1>10. CASE UdrEmptyInterrupt \/ RxCompleteInterrupt \/ LoadShift \/ Arrive
            \/ UNCHANGED vars \/ (\E b \in BOOLEAN : SetI(b))
  BY <1>10
  DEF UdrEmptyInterrupt, RxCompleteInterrupt, LoadShift, Arrive, vars, SetI, sketch
<1>. QED
  BY <1>1, <1>2, <1>3, <1>4, <1>5, <1>6, <1>7, <1>8, <1>9, <1>10
  DEF Next, StartAny, SketchStep

\* The bounded FIFO takes a corresponding step, or none.
LEMMA PortStepRefines ==
  ASSUME RxInv, TxInv, RxInv', TxInv', PortStep
  PROVE  [Port!PortNext]_(Port!portVars)
<1>. DEFINE a == Len(line)
            c == InRegisters + TxCount
<1>1. /\ c \in Nat /\ Published = a + c /\ InFlight = Run(a, c)
      /\ a \in Nat /\ line \in Seq(0 .. MaxWrites) /\ TxSize \in Nat
  BY InFlightForm, TxFacts
<1>2. /\ c' \in Nat /\ Published' = a' + c' /\ InFlight' = Run(a', c')
      /\ a' \in Nat
  <2>1. /\ c' \in Nat /\ Published' = a' + c' /\ InFlight' = Run(a, c)'
        /\ a' \in Nat
    BY SeenNext DEF Seen
  <2>. QED
    BY <2>1 DEF Run
<1>. USE DEF Port!PortNext, Port!portVars
<1>3. CASE line' = line /\ Published' = Published
  <2>1. a' = a
    BY <1>3
  <2>2. c' = c
    BY <1>1, <1>2, <1>3, <2>1
  <2>3. InFlight' = InFlight
    BY <1>1, <1>2, <2>1, <2>2
  <2>4. Drained => c = 0
    BY TxFacts DEF Drained, InRegisters
  <2>5. Drained => InFlight = <<>>
    BY <1>1, <2>4, RunEnds
  <2>6. CASE AbstractCaller' = AbstractCaller
    BY <1>3, <2>3, <2>6
  <2>7. CASE AbstractCaller = "none" /\ AbstractCaller' \in {"write", "flush"}
    BY <1>3, <2>3, <2>7 DEF Port!StartCall
  <2>8. CASE AbstractCaller = "flush" /\ AbstractCaller' = "none" /\ Drained
    BY <1>3, <2>3, <2>5, <2>8 DEF Port!FlushReturn
  <2>. QED
    BY <1>1, <1>3, <2>6, <2>7, <2>8 DEF PortStep
<1>4. CASE line' = line /\ Published' = Published + 1
  <2>1. a' = a
    BY <1>4
  <2>2. c' = c + 1 /\ Published' = a + c + 1
    BY <1>1, <1>2, <1>4, <2>1
  <2>3. Append(Run(a, c), a + c + 1) = Run(a, c + 1)
    BY <1>1, RunEnds
  <2>4. InFlight' = Append(InFlight, Published')
    BY <1>1, <1>2, <2>1, <2>2, <2>3
  <2>5. AbstractCaller = "write" /\ AbstractCaller' = "none" /\ line' = line
        /\ Published' \in 1 .. MaxWrites /\ c < TxSize + 1
    BY <1>1, <1>4 DEF PortStep
  <2>6. Len(InFlight) = c
    BY <1>1, RunType
  <2>. QED
    BY <2>4, <2>5, <2>6 DEF Port!Accept
<1>5. CASE shift # 0 /\ line' = Append(line, shift)
  <2>1. /\ a' = a + 1 /\ Published' = Published /\ AbstractCaller' = AbstractCaller
    BY <1>1, <1>5 DEF PortStep
  <2>2. c' = c - 1 /\ c > 0
    BY <1>1, <1>2, <2>1
  <2>3. /\ Head(Run(a, c)) = a + 1 /\ Tail(Run(a, c)) = Run(a + 1, c - 1)
        /\ Run(a, c) # <<>>
    <3>1. a \in Nat /\ c \in Nat /\ c > 0 /\ c # 0
      BY <1>1, <2>2
    <3>. HIDE DEF a, c
    <3>. QED
      BY <3>1, RunEnds
  <2>4. shift = a + 1
    BY <1>5 DEF TxInv, RankInv
  <2>5. InFlight # <<>> /\ InFlight' = Tail(InFlight) /\ line' = Append(line, Head(InFlight))
    BY <1>1, <1>2, <1>5, <2>1, <2>2, <2>3, <2>4
  <2>. QED
    BY <2>1, <2>5 DEF Port!Transmit
<1>. QED
  BY <1>3, <1>4, <1>5 DEF PortStep

\* The port with its registers, ring and handler is a bounded FIFO: a byte is
\* taken once there is room for it, carried in order and once, and flush()
\* returns only when everything has been carried.
THEOREM PortCorrect ==
  ASSUME ~ReBegin
  PROVE  Spec => Port!PortInit /\ [][Port!PortNext]_(Port!portVars)
<1>1. Init => Port!PortInit
  <2>. SUFFICES ASSUME Init PROVE Port!PortInit
    OBVIOUS
  <2>1. RxInv /\ TxInv
    BY RxInitial, TxInitial
  <2>2. TxCount = 0 /\ InRegisters = 0
    BY <2>1, TxFacts DEF Init, InRegisters
  <2>3. InFlight = Run(0, 0) /\ line = <<>>
    BY <2>1, <2>2, InFlightForm DEF Init
  <2>4. AbstractCaller = "none"
    BY DEF Init, AbstractCaller
  <2>. QED
    BY <2>3, <2>4, RunShort DEF Port!PortInit
<1>2. RxInv /\ TxInv /\ (RxInv /\ TxInv)' /\ [Next]_vars
        => [Port!PortNext]_(Port!portVars)
  BY StepIsPortStep, PortStepRefines
<1>. QED
  BY RxInvariant, TxInvariant, <1>1, <1>2, PTL DEF Spec

====================================================================================

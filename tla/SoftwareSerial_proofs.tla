------------------------- MODULE SoftwareSerial_proofs -------------------------
(***************************************************************************)
(* Proofs about SoftwareSerial, for every set of ports and every size of   *)
(* the ring.                                                               *)
(***************************************************************************)
EXTENDS SoftwareSerial, TLAPS

-----------------------------------------------------------------------------
(* The inductive invariant.                                                *)

\* Who listens, and whose call it is, at each position of the call.
CallInv ==
  /\ pc \in {"delays", "listen", "reset", "head", "set", "unmask", "mask"} =>
       this \in Ports
  /\ pc \in {"idle", "load", "advance"} => this = NULL
  /\ pc \in {"stop", "clear", "load", "advance"} => active_object \in Ports
  /\ pc \in {"reset", "head", "set"} => active_object = NULL
  /\ pc = "mask" => active_object = this
  /\ active_object = Torn <=> pc \in {"cleared", "unmask"}
  /\ delays \in [Ports -> {"none", "zero", "set"}]
  /\ disturbed \in BOOLEAN /\ astray \in BOOLEAN

\* The listener's pin is on, and if nothing disturbed the change of hands, no
\* other is and no change is pending under one.
MaskInv ==
  /\ \A p \in Ports : active_object = p /\ pc \notin Switching => mask[p]
  /\ ~disturbed =>
       /\ ~astray
       /\ \A p \in Ports : mask[p] => active_object = p /\ pc \notin Switching
       /\ pc \in Switching => pcif = {}

SwitchInv == TypeOK /\ CallInv /\ MaskInv

\* How many bytes there are from head to tail, where the k-th is, and its number.
Fill(head, tail) == (tail + Size - head) % Size
Place(head, k) == (head + k) % Size
Number(n, k) == (n + k) % M

\* A ring of bytes of port p, garbled or numbered on from the oldest to the next.
Holds(p, head, tail, buffer, oldest, new) ==
  /\ new = Number(oldest, Fill(head, tail))
  /\ \A k \in 0 .. Fill(head, tail) - 1 :
       buffer[Place(head, k)] \in {<<p, Number(oldest, k)>>, <<p, -1>>}

Oldest == IF pc = "advance" THEN Number(expected, M - 1) ELSE expected

\* The ring of the listener holds its own bytes; before it listens the ring is
\* empty.
RingInv ==
  /\ expected \in 0 .. M - 1
  /\ DOMAIN _receive_buffer = Index
  /\ _buffer_overflow \in [Ports -> BOOLEAN] /\ lost \subseteq Ports
  /\ \A p \in lost : _buffer_overflow[p]
  /\ pc \in {"head", "set", "unmask"} => _receive_buffer_tail = 0
  /\ pc \in {"set", "unmask"} =>
       _receive_buffer_head = 0 /\ expected = next
  /\ pc \in {"load", "advance"} => reg = _receive_buffer_head /\ ~Empty
  /\ active_object \in Ports =>
       Holds(active_object, _receive_buffer_head, _receive_buffer_tail,
             _receive_buffer, Oldest, next)

AllInv == SwitchInv /\ RingInv

-----------------------------------------------------------------------------
(* Changing hands.                                                         *)

LEMMA SwitchInitial == Init => SwitchInv
<1>. SUFFICES ASSUME Init PROVE SwitchInv
  OBVIOUS
<1>1. /\ pc = "idle" /\ active_object = NULL /\ pcif = {} /\ reg \in Index
      /\ next \in 0 .. M - 1 /\ disturbed = FALSE /\ astray = FALSE
  BY SoftwareSerialAssumption DEF Init, Index, M
<1>2. TypeOK
  BY <1>1, SoftwareSerialAssumption DEF Init, TypeOK, Index
<1>3. CallInv
  BY <1>1, SoftwareSerialAssumption DEF Init, CallInv
<1>4. MaskInv
  BY <1>1, SoftwareSerialAssumption DEF Init, MaskInv, Switching
<1>. QED
  BY <1>2, <1>3, <1>4 DEF SwitchInv

\* A ring index's successor is a ring index, and so are the numbers of bytes.
LEMMA SuccType ==
  /\ \A j \in Index : Following(j) \in Index
  /\ \A n \in 0 .. M - 1 : (n + 1) % M \in 0 .. M - 1
  /\ 0 \in Index /\ M \in Nat /\ M > 1
  BY SoftwareSerialAssumption DEF Following, Index, M

LEMMA TypeStep == SwitchInv /\ [Next]_vars => TypeOK'
<1>. SUFFICES ASSUME SwitchInv, [Next]_vars PROVE TypeOK'
  OBVIOUS
<1>. USE SuccType DEF SwitchInv, TypeOK, ring, pins, call, history, Goto, Return
<1>1. ASSUME NEW p \in Ports,
             Begin(p) \/ CallListen(p) \/ End(p) \/ Read(p)
      PROVE  TypeOK'
  BY <1>1 DEF Begin, CallListen, End, Read, Idle
<1>2. ASSUME NEW p \in Ports \cup {NULL}, Change(p) \/ PinChange(p) PROVE TypeOK'
  <2>1. CASE Change(p)
    BY <2>1 DEF Change
  <2>2. CASE PinChange(p)
    <3>1. /\ UNCHANGED <<active_object, pc, this, reg>> /\ pcif' = pcif \ {p}
          /\ mask' \in [Ports -> BOOLEAN]
          /\ _receive_buffer_head' = _receive_buffer_head
          /\ _receive_buffer_tail' \in
               {_receive_buffer_tail, Following(_receive_buffer_tail)}
          /\ next' \in {next, (next + 1) % M}
      BY <2>2 DEF PinChange, Recv
    <3>. QED
      BY <3>1
  <2>. QED
    BY <1>2, <2>1, <2>2
<1>3. CASE BeginDelays \/ Listen \/ StopMask \/ StopClear
  BY <1>3 DEF BeginDelays, Listen, StopMask, StopClear, Stopped, CallInv
<1>4. CASE ResetTail \/ ResetHead \/ ListenSet \/ ListenMask
  BY <1>4 DEF ResetTail, ResetHead, Head0, ListenSet, ListenMask, CallInv
<1>5. CASE Load \/ Advance
  BY <1>5 DEF Load, Advance
<1>6. CASE UNCHANGED vars
  BY <1>6 DEF vars
<1>. QED
  BY <1>1, <1>2, <1>3, <1>4, <1>5, <1>6 DEF Next, Step

LEMMA SwitchStep == SwitchInv /\ [Next]_vars => (CallInv /\ MaskInv)'
<1>. SUFFICES ASSUME SwitchInv, [Next]_vars PROVE (CallInv /\ MaskInv)'
  OBVIOUS
<1>. USE SoftwareSerialAssumption
     DEF SwitchInv, TypeOK, CallInv, MaskInv, Switching, ring, pins, call, history,
         Goto, Return
<1>1. ASSUME NEW p \in Ports,
             Begin(p) \/ CallListen(p) \/ End(p) \/ Read(p)
      PROVE  (CallInv /\ MaskInv)'
  BY <1>1 DEF Begin, CallListen, End, Read, Idle
<1>2. ASSUME NEW p \in Ports \cup {NULL}, Change(p) \/ PinChange(p)
      PROVE  (CallInv /\ MaskInv)'
  <2>1. CASE Change(p)
    BY <2>1 DEF Change
  <2>2. CASE PinChange(p)
    <3>1. /\ UNCHANGED <<active_object, pc, this, reg, delays, disturbed>>
          /\ p \in pcif /\ pcif' = pcif \ {p}
          /\ astray' = (astray \/ active_object = Torn)
          /\ \/ /\ active_object \in Ports
                /\ mask' = [mask EXCEPT ![active_object] = TRUE]
             \/ UNCHANGED mask
      BY <2>2 DEF PinChange
    <3>. QED
      BY <3>1
  <2>. QED
    BY <1>2, <2>1, <2>2
<1>3. CASE BeginDelays
  BY <1>3 DEF BeginDelays
<1>10. CASE Listen
  <2>1. CASE UNCHANGED disturbed /\ pc' \in {"idle", "stop"}
    BY <1>10, <2>1 DEF Listen
  <2>2. CASE Begins /\ pc' = "reset"
    BY <1>10, <2>2 DEF Listen, Begins
  <2>. QED
    BY <1>10, <2>1, <2>2 DEF Listen
<1>4. CASE StopMask
  BY <1>4 DEF StopMask, Stopped, Begins
<1>5. CASE StopClear
  BY <1>5 DEF StopClear
<1>6. CASE ResetTail \/ ResetHead
  BY <1>6 DEF ResetTail, ResetHead
<1>7. CASE ListenSet \/ ListenMask
  BY <1>7 DEF ListenSet, ListenMask
<1>8. CASE Load \/ Advance
  BY <1>8 DEF Load, Advance
<1>9. CASE UNCHANGED vars
  BY <1>9 DEF vars
<1>. QED
  BY <1>1, <1>2, <1>3, <1>4, <1>5, <1>6, <1>7, <1>8, <1>9, <1>10 DEF Next, Step

\* For every set of ports: between calls the listener's pin raises interrupts;
\* and, if no change is pending as ports begin to change hands and none of
\* another's pin comes while they do, no other pin does, and the handler never
\* follows half a pointer.
THEOREM SwitchCorrect == Spec => []SwitchSafe
<1>1. SwitchInv /\ [Next]_vars => SwitchInv'
  BY TypeStep, SwitchStep DEF SwitchInv
<1>2. SwitchInv => SwitchSafe
  BY DEF SwitchInv, CallInv, MaskInv, SwitchSafe, Idle, Switching
<1>. QED
  BY SwitchInitial, <1>1, <1>2, PTL DEF Spec

-----------------------------------------------------------------------------
(* Ring arithmetic without the modulus.                                    *)

LEMMA WrapForm ==
  ASSUME NEW m \in Nat, m > 0, NEW a \in 0 .. 2 * m - 1
  PROVE  a % m = (IF a < m THEN a ELSE a - m) /\ a % m \in 0 .. m - 1
  OBVIOUS

LEMMA FillForm ==
  ASSUME NEW head \in Index, NEW tail \in Index
  PROVE  /\ Fill(head, tail) =
              IF tail >= head THEN tail - head ELSE tail + Size - head
         /\ Fill(head, tail) \in 0 .. Size - 1
         /\ Fill(head, tail) = 0 <=> head = tail
         /\ Following(tail) = IF tail + 1 = Size THEN 0 ELSE tail + 1
         /\ Following(tail) \in Index
<1>1. tail + Size - head \in 0 .. 2 * Size - 1 /\ tail + 1 \in 0 .. 2 * Size - 1
      /\ Size \in Nat /\ Size > 1
  BY SoftwareSerialAssumption DEF Index
<1>2. Fill(head, tail) = IF tail + Size - head < Size THEN tail + Size - head
                                                     ELSE tail + Size - head - Size
  BY <1>1 DEF Fill, Index
<1>3. Following(tail) = IF tail + 1 < Size THEN tail + 1 ELSE tail + 1 - Size
  BY <1>1 DEF Following, Index
<1>. QED
  BY <1>1, <1>2, <1>3 DEF Index

LEMMA PlaceForm ==
  ASSUME NEW head \in Index, NEW k \in 0 .. Size - 1
  PROVE  /\ Place(head, k) = IF head + k < Size THEN head + k ELSE head + k - Size
         /\ Place(head, k) \in Index
<1>1. head + k \in 0 .. 2 * Size - 1 /\ Size \in Nat /\ Size > 1
  BY SoftwareSerialAssumption DEF Index
<1>. QED
  BY <1>1, WrapForm DEF Place, Index

LEMMA NumberForm ==
  ASSUME NEW n \in 0 .. M - 1, NEW k \in 0 .. M - 1
  PROVE  /\ Number(n, k) = (IF n + k < M THEN n + k ELSE n + k - M)
         /\ Number(n, k) \in 0 .. M - 1
<1>1. n + k \in 0 .. 2 * M - 1 /\ M \in Nat /\ M > 0
  BY SoftwareSerialAssumption DEF M
<1>. QED
  BY <1>1, WrapForm DEF Number

\* A byte stored at the tail of a ring that is not full joins the others.
LEMMA Push ==
  ASSUME NEW head \in Index, NEW tail \in Index, Following(tail) # head
  PROVE  /\ Fill(head, Following(tail)) = Fill(head, tail) + 1
         /\ Fill(head, tail) \in 0 .. Size - 2
         /\ Place(head, Fill(head, tail)) = tail
         /\ \A k \in 0 .. Fill(head, tail) - 1 : Place(head, k) # tail
<1>0. Size \in Nat /\ Size > 1
  BY SoftwareSerialAssumption
<1>1. /\ Fill(head, tail) =
           IF tail >= head THEN tail - head ELSE tail + Size - head
      /\ Following(tail) = IF tail + 1 = Size THEN 0 ELSE tail + 1
      /\ Following(tail) \in Index
  BY FillForm
<1>2. Fill(head, Following(tail)) =
        IF Following(tail) >= head THEN Following(tail) - head
                                   ELSE Following(tail) + Size - head
  BY <1>1, FillForm
<1>3. Fill(head, tail) \in 0 .. Size - 2
  BY <1>0, <1>1 DEF Index
<1>4. Place(head, Fill(head, tail)) = tail
  <2>1. Place(head, Fill(head, tail)) =
          IF head + Fill(head, tail) < Size THEN head + Fill(head, tail)
                                            ELSE head + Fill(head, tail) - Size
    BY <1>0, <1>3, PlaceForm
  <2>. QED
    BY <1>0, <1>1, <2>1 DEF Index
<1>5. ASSUME NEW k \in 0 .. Fill(head, tail) - 1 PROVE Place(head, k) # tail
  <2>1. Place(head, k) = IF head + k < Size THEN head + k ELSE head + k - Size
    BY <1>0, <1>3, PlaceForm
  <2>. QED
    BY <1>0, <1>1, <1>3, <2>1 DEF Index
<1>6. Fill(head, Following(tail)) = Fill(head, tail) + 1
  BY <1>0, <1>1, <1>2 DEF Index
<1>. QED
  BY <1>3, <1>4, <1>5, <1>6

\* Taking the byte at the head renumbers the others.
LEMMA Pop ==
  ASSUME NEW head \in Index, NEW tail \in Index, head # tail
  PROVE  /\ Fill(Following(head), tail) = Fill(head, tail) - 1
         /\ Fill(head, tail) \in 1 .. Size - 1
         /\ \A k \in 0 .. Fill(head, tail) - 2 :
              Place(Following(head), k) = Place(head, k + 1)
<1>0. Size \in Nat /\ Size > 1
  BY SoftwareSerialAssumption
<1>1. /\ Fill(head, tail) =
           IF tail >= head THEN tail - head ELSE tail + Size - head
      /\ Fill(head, tail) \in 1 .. Size - 1
  BY <1>0, FillForm
<1>2. /\ Following(head) = IF head + 1 = Size THEN 0 ELSE head + 1
      /\ Following(head) \in Index
  BY FillForm
<1>3. Fill(Following(head), tail) =
        IF tail >= Following(head) THEN tail - Following(head)
                                   ELSE tail + Size - Following(head)
  BY <1>2, FillForm
<1>4. ASSUME NEW k \in 0 .. Fill(head, tail) - 2
      PROVE  Place(Following(head), k) = Place(head, k + 1)
  <2>1. /\ k \in 0 .. Size - 1 /\ k + 1 \in 0 .. Size - 1
    BY <1>0, <1>1
  <2>2. /\ Place(Following(head), k) =
             IF Following(head) + k < Size THEN Following(head) + k
                                           ELSE Following(head) + k - Size
        /\ Place(head, k + 1) =
             IF head + (k + 1) < Size THEN head + (k + 1) ELSE head + (k + 1) - Size
    BY <1>2, <2>1, PlaceForm
  <2>. QED
    BY <1>0, <1>2, <2>1, <2>2 DEF Index
<1>. QED
  BY <1>0, <1>1, <1>2, <1>3, <1>4 DEF Index

-----------------------------------------------------------------------------
(* The ring of the listener.                                               *)

LEMMA RingInitial == Init => RingInv
  BY SoftwareSerialAssumption DEF Init, RingInv, Index, M

LEMMA OldestForm ==
  ASSUME RingInv
  PROVE  /\ Oldest \in 0 .. M - 1
         /\ pc = "advance" => Number(Oldest, 1) = expected
<1>1. /\ M \in Nat /\ M > 1 /\ M - 1 \in 0 .. M - 1 /\ 1 \in 0 .. M - 1
      /\ expected \in 0 .. M - 1
  BY SoftwareSerialAssumption DEF M, RingInv
<1>2. /\ Number(expected, M - 1) =
           IF expected + (M - 1) < M THEN expected + (M - 1) ELSE expected + (M - 1) - M
      /\ Number(expected, M - 1) \in 0 .. M - 1
  BY <1>1, NumberForm
<1>3. Number(Number(expected, M - 1), 1) =
        IF Number(expected, M - 1) + 1 < M THEN Number(expected, M - 1) + 1
                                           ELSE Number(expected, M - 1) + 1 - M
  BY <1>1, <1>2, NumberForm
<1>. QED
  BY <1>1, <1>2, <1>3 DEF Oldest

\* A byte received goes behind the others; it is garbled or has the next number.
LEMMA HoldsPush ==
  ASSUME NEW p, NEW head \in Index, NEW tail \in Index, NEW buffer,
         DOMAIN buffer = Index, NEW oldest \in 0 .. M - 1, NEW new,
         Holds(p, head, tail, buffer, oldest, new), Following(tail) # head,
         NEW byte \in {<<p, new>>, <<p, -1>>}
  PROVE  Holds(p, head, Following(tail), [buffer EXCEPT ![tail] = byte],
               oldest, Number(new, 1))
<1>. DEFINE used == Fill(head, tail)
            stored == [buffer EXCEPT ![tail] = byte]
<1>0. Size \in Nat /\ Size > 1 /\ M = Size + 1
  BY SoftwareSerialAssumption DEF M
<1>1. /\ Fill(head, Following(tail)) = used + 1 /\ used \in 0 .. Size - 2
      /\ Place(head, used) = tail
      /\ \A k \in 0 .. used - 1 : Place(head, k) # tail
  BY Push
<1>2. new = Number(oldest, used)
  BY DEF Holds
<1>3. Number(new, 1) = Number(oldest, used + 1)
  <2>0. /\ used \in 0 .. M - 1 /\ used + 1 \in 0 .. M - 1 /\ 1 \in 0 .. M - 1
        /\ M \in Nat
    BY <1>0, <1>1
  <2>1. /\ new = IF oldest + used < M THEN oldest + used ELSE oldest + used - M
        /\ new \in 0 .. M - 1
    BY <1>2, <2>0, NumberForm
  <2>2. Number(new, 1) = IF new + 1 < M THEN new + 1 ELSE new + 1 - M
    BY <2>0, <2>1, NumberForm
  <2>3. Number(oldest, used + 1) =
          IF oldest + (used + 1) < M THEN oldest + (used + 1)
                                     ELSE oldest + (used + 1) - M
    BY <2>0, NumberForm
  <2>. QED
    BY <1>0, <1>1, <2>1, <2>2, <2>3
<1>4. ASSUME NEW k \in 0 .. used
      PROVE  stored[Place(head, k)] \in {<<p, Number(oldest, k)>>, <<p, -1>>}
  <2>1. Place(head, k) \in Index
    BY <1>0, <1>1, PlaceForm
  <2>2. CASE k = used
    BY <1>1, <1>2, <2>1, <2>2
  <2>3. CASE k \in 0 .. used - 1
    BY <1>1, <2>1, <2>3 DEF Holds
  <2>. QED
    BY <1>0, <1>1, <2>2, <2>3
<1>. HIDE DEF used, stored
<1>5. 0 .. (used + 1) - 1 = 0 .. used
  BY <1>0, <1>1
<1>. QED
  BY <1>1, <1>3, <1>4, <1>5 DEF Holds, stored

\* The oldest byte taken, the next one is the oldest.
LEMMA HoldsPop ==
  ASSUME NEW p, NEW head \in Index, NEW tail \in Index, NEW buffer,
         NEW oldest \in 0 .. M - 1, NEW new,
         Holds(p, head, tail, buffer, oldest, new), head # tail
  PROVE  Holds(p, Following(head), tail, buffer, Number(oldest, 1), new)
<1>. DEFINE used == Fill(head, tail)
<1>0. Size \in Nat /\ Size > 1 /\ M = Size + 1
  BY SoftwareSerialAssumption DEF M
<1>1. /\ Fill(Following(head), tail) = used - 1 /\ used \in 1 .. Size - 1
      /\ \A k \in 0 .. used - 2 : Place(Following(head), k) = Place(head, k + 1)
  BY Pop
<1>2. ASSUME NEW k \in 0 .. Size - 2
      PROVE  Number(Number(oldest, 1), k) = Number(oldest, k + 1)
  <2>0. /\ k \in 0 .. M - 1 /\ k + 1 \in 0 .. M - 1 /\ 1 \in 0 .. M - 1
        /\ M \in Nat
    BY <1>0
  <2>1. /\ Number(oldest, 1) = IF oldest + 1 < M THEN oldest + 1 ELSE oldest + 1 - M
        /\ Number(oldest, 1) \in 0 .. M - 1
    BY <2>0, NumberForm
  <2>2. Number(Number(oldest, 1), k) =
          IF Number(oldest, 1) + k < M THEN Number(oldest, 1) + k
                                      ELSE Number(oldest, 1) + k - M
    BY <2>0, <2>1, NumberForm
  <2>3. Number(oldest, k + 1) = IF oldest + (k + 1) < M THEN oldest + (k + 1)
                                                        ELSE oldest + (k + 1) - M
    BY <2>0, NumberForm
  <2>. QED
    BY <2>0, <2>1, <2>2, <2>3
<1>3. new = Number(Number(oldest, 1), used - 1)
  BY <1>0, <1>1, <1>2 DEF Holds
<1>4. ASSUME NEW k \in 0 .. used - 2
      PROVE  buffer[Place(Following(head), k)] \in
               {<<p, Number(Number(oldest, 1), k)>>, <<p, -1>>}
  <2>1. Place(Following(head), k) = Place(head, k + 1) /\ k + 1 \in 0 .. used - 1
        /\ k \in 0 .. Size - 2
    BY <1>0, <1>1
  <2>2. buffer[Place(head, k + 1)] \in {<<p, Number(oldest, k + 1)>>, <<p, -1>>}
    BY <2>1 DEF Holds
  <2>. QED
    BY <2>1, <2>2, <1>2
<1>. HIDE DEF used
<1>5. 0 .. (used - 1) - 1 = 0 .. used - 2
  BY <1>0, <1>1
<1>. QED
  BY <1>1, <1>3, <1>4, <1>5 DEF Holds

LEMMA HoldsNone ==
  ASSUME NEW p, NEW buffer, NEW n \in 0 .. M - 1
  PROVE  Holds(p, 0, 0, buffer, n, n)
<1>1. Fill(0, 0) = 0 /\ 0 \in 0 .. M - 1 /\ M \in Nat
  BY SoftwareSerialAssumption, FillForm DEF Index, M
<1>2. Number(n, 0) = n
  BY <1>1, NumberForm
<1>. QED
  BY <1>1, <1>2 DEF Holds

LEMMA RingStep == AllInv /\ [Next]_vars => RingInv'
<1>. SUFFICES ASSUME AllInv, [Next]_vars PROVE RingInv'
  OBVIOUS
<1>. USE DEF AllInv, SwitchInv, TypeOK, ring, pins, call, history, Begins
<1>1. ASSUME NEW p \in Ports, Begin(p) \/ CallListen(p) \/ End(p) \/ Read(p)
      PROVE  RingInv'
  BY <1>1 DEF Begin, CallListen, End, Read, Idle, RingInv, CallInv, Oldest,
              Empty
<1>2. CASE BeginDelays \/ Listen \/ StopMask \/ StopClear
  <2>1. CASE BeginDelays
    BY <2>1 DEF BeginDelays, Goto, RingInv, CallInv, Oldest, Empty
  <2>2. CASE Listen
    <3>1. pc' \in {"idle", "reset", "stop"} /\ reg' \in Index
      BY <2>2, SuccType DEF Listen, Goto, Return
    <3>2. (pc' = "reset" => active_object = NULL) /\ UNCHANGED Oldest
      BY <2>2, <3>1 DEF Listen, Oldest, Goto, Return
    <3>. QED
      BY <2>2, <3>1, <3>2, SoftwareSerialAssumption
      DEF Listen, RingInv, CallInv, Empty
  <2>3. CASE StopMask
    BY <2>3 DEF StopMask, Goto, RingInv, CallInv, Oldest, Empty
  <2>4. CASE StopClear
    <3>1. active_object' \notin Ports /\ pc' \in {"idle", "cleared", "reset"}
      BY <2>4, SoftwareSerialAssumption DEF StopClear, Goto, Return
    <3>. QED
      BY <2>4, <3>1 DEF StopClear, RingInv
  <2>. QED
    BY <1>2, <2>1, <2>2, <2>3, <2>4
<1>3. CASE ResetTail \/ ResetHead
  BY <1>3, SoftwareSerialAssumption, SuccType
  DEF ResetTail, ResetHead, Head0, Goto, RingInv, CallInv
<1>10. CASE ListenSet
  <2>1. CASE pc = "set"
    BY <1>10, <2>1, SoftwareSerialAssumption DEF ListenSet, Goto, RingInv
  <2>2. CASE pc = "unmask"
    <3>1. /\ _receive_buffer_head = 0 /\ _receive_buffer_tail = 0
          /\ expected = next /\ expected \in 0 .. M - 1
          /\ pc' = "mask" /\ active_object' = this
          /\ UNCHANGED <<ring, expected, next, reg, _buffer_overflow, lost>>
      BY <1>10, <2>2 DEF ListenSet, Goto, RingInv
    <3>2. Holds(this, 0, 0, _receive_buffer, expected, next)
      BY <3>1, HoldsNone
    <3>3. Oldest' = expected'
      BY <3>1 DEF Oldest
    <3>. QED
      BY <3>1, <3>2, <3>3 DEF RingInv
  <2>. QED
    BY <1>10, <2>1, <2>2 DEF ListenSet
<1>4. CASE ListenMask
  BY <1>4, SuccType DEF ListenMask, Return, RingInv, CallInv, Oldest
<1>5. CASE Load
  <2>1. Oldest' = Number(expected', M - 1)
    BY <1>5 DEF Load, Goto, Oldest, Number, M
  <2>2. Number(expected', M - 1) = expected
    <3>1. /\ M \in Nat /\ M > 1 /\ M - 1 \in 0 .. M - 1 /\ 1 \in 0 .. M - 1
          /\ expected \in 0 .. M - 1 /\ expected' = Number(expected, 1)
      BY <1>5, SuccType DEF Load, RingInv, Number
    <3>2. /\ expected' = IF expected + 1 < M THEN expected + 1 ELSE expected + 1 - M
          /\ expected' \in 0 .. M - 1
      BY <3>1, NumberForm
    <3>3. Number(expected', M - 1) =
            IF expected' + (M - 1) < M THEN expected' + (M - 1)
                                       ELSE expected' + (M - 1) - M
      BY <3>1, <3>2, NumberForm
    <3>. QED
      BY <3>1, <3>2, <3>3
  <2>3. Oldest = expected /\ expected' \in 0 .. M - 1
    BY <1>5, SuccType DEF Load, Oldest, RingInv
  <2>. QED
    BY <1>5, <2>1, <2>2, <2>3 DEF Load, Goto, RingInv, CallInv, Empty
<1>6. CASE Advance
  <2>1. /\ pc = "advance" /\ active_object \in Ports
        /\ _receive_buffer_head # _receive_buffer_tail
    BY <1>6 DEF Advance, CallInv, RingInv, Empty
  <2>2. Holds(active_object, _receive_buffer_head, _receive_buffer_tail,
              _receive_buffer, Oldest, next)
    BY <2>1 DEF RingInv
  <2>3. Oldest \in 0 .. M - 1 /\ Number(Oldest, 1) = expected
    BY <2>1, OldestForm
  <2>4. Holds(active_object, Following(_receive_buffer_head), _receive_buffer_tail,
              _receive_buffer, expected, next)
    BY <2>1, <2>2, <2>3, HoldsPop
  <2>5. Oldest' = expected'
    BY <1>6 DEF Advance, Return, Oldest
  <2>. QED
    BY <1>6, <2>4, <2>5 DEF Advance, Return, RingInv
<1>7. ASSUME NEW p \in Ports \cup {NULL}, PinChange(p) PROVE RingInv'
  <2>. DEFINE q == active_object
  <2>0. /\ UNCHANGED <<pc, reg, active_object, expected>> /\ Oldest' = Oldest
        /\ Oldest \in 0 .. M - 1
    BY <1>7, OldestForm DEF PinChange, Oldest, M
  <2>1. CASE UNCHANGED <<mask, ring, _buffer_overflow, next, lost>>
    BY <2>0, <2>1 DEF RingInv, Empty
  <2>2. CASE q \in Ports /\ Recv(q)
    <3>1. /\ Holds(q, _receive_buffer_head, _receive_buffer_tail, _receive_buffer,
                   Oldest, next)
          /\ pc \notin {"head", "set", "unmask"}
      BY <2>2, SoftwareSerialAssumption DEF RingInv, CallInv
    <3>2. CASE Following(_receive_buffer_tail) # _receive_buffer_head
      <4>1. PICK byte \in Decoded(q) :
              _receive_buffer' = [_receive_buffer EXCEPT ![_receive_buffer_tail] = byte]
        BY <2>2, <3>2 DEF Recv
      <4>2. /\ _receive_buffer_tail' = Following(_receive_buffer_tail)
            /\ next' = Number(next, 1)
            /\ UNCHANGED <<_receive_buffer_head, _buffer_overflow, lost>>
        BY <2>2, <3>2 DEF Recv, Number
      <4>3. byte \in {<<q, next>>, <<q, -1>>}
        BY DEF Decoded
      <4>4. Holds(q, _receive_buffer_head, Following(_receive_buffer_tail),
                  [_receive_buffer EXCEPT ![_receive_buffer_tail] = byte],
                  Oldest, Number(next, 1))
        BY <2>0, <3>1, <3>2, <4>3, HoldsPush DEF RingInv
      <4>5. ~Empty' /\ DOMAIN _receive_buffer' = Index
        BY <3>2, <4>1, <4>2 DEF Empty, RingInv
      <4>. QED
        BY <2>0, <3>1, <4>1, <4>2, <4>4, <4>5 DEF RingInv
    <3>3. CASE Following(_receive_buffer_tail) = _receive_buffer_head
      BY <2>0, <2>2, <3>1, <3>3 DEF Recv, RingInv, Empty
    <3>. QED
      BY <3>2, <3>3
  <2>. QED
    BY <1>7, <2>1, <2>2 DEF PinChange
<1>9. ASSUME NEW p \in Ports \cup {NULL}, Change(p) PROVE RingInv'
  BY <1>9 DEF Change, RingInv, Oldest, Empty
<1>8. CASE UNCHANGED vars
  BY <1>8 DEF vars, RingInv, Oldest, Empty
<1>. QED
  BY <1>1, <1>2, <1>3, <1>4, <1>5, <1>6, <1>7, <1>8, <1>9, <1>10 DEF Next, Step

\* What read() finds was received by the port it is called on, once and in
\* order, and every dropped byte is reported: for every ring size and set of
\* ports, whatever changes come while ports change hands, as long as the handler
\* has not followed a torn pointer.
THEOREM RingCorrect == Spec => []RingFaithful
<1>1. AllInv /\ [Next]_vars => AllInv'
  BY TypeStep, SwitchStep, RingStep DEF AllInv, SwitchInv
<1>2. AllInv => RingFaithful
  <2>. SUFFICES ASSUME AllInv PROVE RingFaithful
    OBVIOUS
  <2>. DEFINE used == Fill(_receive_buffer_head, _receive_buffer_tail)
  <2>1. /\ used \in 0 .. Size - 1
        /\ used = 0 <=> Empty
    BY FillForm DEF AllInv, SwitchInv, TypeOK, Empty
  <2>2. Unread = [k \in 1 .. used |-> _receive_buffer[Place(_receive_buffer_head, k - 1)]]
    BY <2>1, SoftwareSerialAssumption
    DEF Unread, Fill, Place, AllInv, SwitchInv, TypeOK, Index
  <2>3. ASSUME active_object # NULL, pc \in {"idle", "load"}, NEW i \in 1 .. used
        PROVE  Unread[i] \in {<<active_object, (expected + i - 1) % M>>,
                              <<active_object, -1>>}
    <3>1. active_object \in Ports
      BY <2>3 DEF AllInv, SwitchInv, TypeOK, CallInv
    <3>2. Holds(active_object, _receive_buffer_head, _receive_buffer_tail,
                _receive_buffer, expected, next)
      BY <2>3, <3>1 DEF AllInv, RingInv, Oldest
    <3>3. i - 1 \in 0 .. used - 1 /\ Number(expected, i - 1) = (expected + i - 1) % M
      BY <2>1, SoftwareSerialAssumption DEF Number, AllInv, RingInv, M
    <3>. QED
      BY <2>2, <3>2, <3>3 DEF Holds
  <2>4. DOMAIN Unread = 1 .. used
    BY <2>2
  <2>5. pc = "load" => 1 \in 1 .. used /\ active_object # NULL
    BY <2>1, SoftwareSerialAssumption DEF AllInv, SwitchInv, CallInv, RingInv
  <2>. QED
    BY <2>3, <2>4, <2>5 DEF RingFaithful, AllInv, RingInv
<1>. QED
  BY SwitchInitial, RingInitial, <1>1, <1>2, PTL DEF Spec, AllInv
=============================================================================

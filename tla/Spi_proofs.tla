------------------------------ MODULE Spi_proofs ------------------------------
(***************************************************************************)
(* Proofs about module Spi: whoever is in a transaction has the bus to     *)
(* itself, and a transaction puts back what it took away, for every number *)
(* of interrupts and every order of the calls.                             *)
(*                                                                         *)
(* The sketch may set interrupt bits inside its transactions; what it sets *)
(* there is put back with the rest.  The guard holds until the sketch      *)
(* itself lets a registered interrupt in, by attachInterrupt() or          *)
(* interrupts() inside a transaction or by its last end(); and the count   *)
(* of begin() calls must not go round.                                     *)
(***************************************************************************)
EXTENDS Spi, TLAPS

-----------------------------------------------------------------------------
(* The inductive invariant.                                                *)

\* Handlers run to their end, and the saved byte is of the mode's register.
ShapeInv ==
  /\ \A h \in Handlers : h # running => pc[h] = "idle"
  /\ \A a \in Actors : pc[a] # "idle" =>
       /\ interruptMode = 1 => interruptSave \subseteq Externals
       /\ interruptMode = 2 => interruptSave \subseteq {I}

ReferenceInv == initialized = refs /\ (refs > 0 => spe)

\* A handler is entered only between the sketch's transactions.
AloneInv ==
  running # Sketch => /\ pc[Sketch] = "idle" /\ running \in registered
                      /\ wantsI \/ I \in changed

\* What a transaction will keep out is all that is registered.
RegisteredInv ==
  /\ registered \cap Externals \subseteq interruptMask
  /\ interruptMode # 2 => registered \subseteq Externals
  /\ interruptMode = 0 => registered = {}

\* SREG as the one that runs had it before its transaction, and EIMSK.
Level(bits) ==
  IF running = Sketch
  THEN I \notin changed => bits = IF wantsI THEN {I} ELSE {}
  ELSE bits = {}
Attached(bits) == bits \ changed = attached \ changed

\* What was taken away is what is saved, and nothing else is missing.
GuardInv ==
  IF pc[running] = "idle"
  THEN Attached(eimsk) /\ Level(sreg)
  ELSE /\ interruptMode = 0 => Attached(eimsk) /\ Level(sreg)
       /\ interruptMode = 1 => /\ Attached(interruptSave) /\ Level(sreg)
                               /\ eimsk \cap registered = {}
       /\ interruptMode = 2 => /\ Level(interruptSave) /\ sreg = {}
                               /\ Attached(eimsk)

BusInv ==
  /\ TypeOK /\ ShapeInv /\ ReferenceInv
  /\ ~letIn => AloneInv /\ RegisteredInv /\ GuardInv /\ Owned

-----------------------------------------------------------------------------
LEMMA Initial ==
  ASSUME Init, MaxRefs < Byte
  PROVE  BusInv
<1>. /\ MaxRefs \in Nat /\ Byte \in Nat \ {0} /\ Sketch \in Actors
     /\ Sketch \notin Handlers /\ Handlers \subseteq Actors
  BY SpiAssumption DEF Actors
<1>1. TypeOK
  <2>1. pc \in [Actors -> {"idle", "guarded", "spcr", "open"}]
    BY DEF Init
  <2>2. initialized \in 0 .. Byte - 1 /\ refs \in 0 .. MaxRefs
        /\ interruptMode \in 0 .. 2
    BY DEF Init
  <2>. QED
    BY <2>1, <2>2 DEF Init, TypeOK
<1>2. ShapeInv /\ ReferenceInv
  BY DEF Init, ShapeInv, ReferenceInv
<1>3. AloneInv /\ RegisteredInv /\ GuardInv /\ Owned
  BY DEF Init, AloneInv, RegisteredInv, GuardInv, Level, Attached, Owned
<1>. QED
  BY <1>1, <1>2, <1>3 DEF BusInv

\* beginTransaction() and endTransaction(), of the sketch or of a handler.
LEMMA TransactionStep ==
  ASSUME BusInv, NEW a \in Actors,
         BeginTransaction(a) \/ SetSpcr(a) \/ SetSpsr(a) \/ EndTransaction(a)
  PROVE  BusInv'
<1>. Handlers \subseteq Actors
  BY DEF Actors
<1>0. TypeOK /\ ShapeInv /\ ReferenceInv
  BY DEF BusInv
<1>1. /\ running = a
      /\ UNCHANGED <<library, running, registered, attached, wantsI, refs,
                     changed, letIn>>
  BY DEF BeginTransaction, SetSpcr, SetSpsr, EndTransaction, history
<1>2. pc' \in [Actors -> {"idle", "guarded", "spcr", "open"}]
      /\ \A b \in Actors : b # a => pc'[b] = pc[b]
  BY <1>0 DEF TypeOK, BeginTransaction, SetSpcr, SetSpsr, EndTransaction
<1>3. ~letIn => AloneInv' /\ RegisteredInv'
  <2>. SUFFICES ASSUME ~letIn PROVE AloneInv' /\ RegisteredInv'
    OBVIOUS
  <2>1. AloneInv /\ RegisteredInv /\ Sketch \in Actors
    BY DEF BusInv, Actors
  <2>. QED
    BY <1>1, <1>2, <2>1 DEF AloneInv, RegisteredInv, library
<1>4. CASE BeginTransaction(a)
  <2>1. /\ pc[a] = "idle" /\ pc'[a] = "guarded" /\ UNCHANGED <<spcr, spsr, spe>>
    BY <1>0, <1>1, <1>4 DEF BeginTransaction, TypeOK
  <2>2. \/ /\ interruptMode = 1 /\ interruptSave' = eimsk
           /\ eimsk' = eimsk \ interruptMask /\ sreg' = sreg
        \/ /\ interruptMode = 2 /\ interruptSave' = sreg /\ sreg' = {}
           /\ eimsk' = eimsk
        \/ /\ interruptMode = 0
           /\ UNCHANGED <<interruptSave, sreg, eimsk>>
    BY <1>0, <1>4 DEF BeginTransaction, TypeOK
  <2>3. TypeOK'
    BY <1>0, <1>1, <1>2, <2>1, <2>2 DEF TypeOK, library
  <2>4. ShapeInv' /\ ReferenceInv'
    <3>1. \A k \in Handlers : k # running' => pc'[k] = "idle"
      BY <1>0, <1>1, <1>2 DEF ShapeInv
    <3>2. /\ interruptMode' = 1 => interruptSave' \subseteq Externals
          /\ interruptMode' = 2 => interruptSave' \subseteq {I}
      <4>1. /\ eimsk \subseteq Externals /\ sreg \subseteq {I}
            /\ interruptMode \in 0 .. 2 /\ interruptMode' = interruptMode
        BY <1>0, <1>1 DEF TypeOK, library
      <4>2. \/ interruptMode = 1 /\ interruptSave' = eimsk
            \/ interruptMode = 2 /\ interruptSave' = sreg
            \/ interruptMode = 0
        BY <2>2
      <4>3. CASE interruptMode = 1
        BY <4>1, <4>2, <4>3
      <4>4. CASE interruptMode = 2
        BY <4>1, <4>2, <4>4
      <4>5. CASE interruptMode = 0
        BY <4>1, <4>5
      <4>. QED
        BY <4>1, <4>3, <4>4, <4>5
    <3>3. ReferenceInv'
      BY <1>0, <1>1, <2>1 DEF ReferenceInv, library
    <3>. QED
      BY <3>1, <3>2, <3>3 DEF ShapeInv
  <2>5. ASSUME ~letIn PROVE GuardInv' /\ Owned'
    <3>1. GuardInv /\ RegisteredInv /\ Owned
      BY <2>5 DEF BusInv
    <3>2. Attached(eimsk) /\ Level(sreg)
      BY <1>1, <2>1, <3>1 DEF GuardInv
    <3>3. interruptMode = 1 => eimsk' \cap registered' = {}
      BY <1>0, <1>1, <2>2, <3>1 DEF RegisteredInv, TypeOK
    <3>4. GuardInv'
      BY <1>1, <2>1, <2>2, <3>2, <3>3 DEF GuardInv, Attached, Level, library
    <3>. QED
      BY <1>1, <2>1, <3>1, <3>4 DEF Owned
  <2>. QED
    BY <1>1, <1>3, <2>3, <2>4, <2>5 DEF BusInv
<1>5. CASE SetSpcr(a)
  <2>1. /\ pc[a] = "guarded" /\ pc'[a] = "spcr" /\ spcr' = a /\ spe' = TRUE
        /\ UNCHANGED <<interruptSave, sreg, eimsk, spsr>>
    BY <1>0, <1>1, <1>5 DEF SetSpcr, TypeOK
  <2>2. TypeOK'
    BY <1>0, <1>1, <1>2, <2>1 DEF TypeOK, library
  <2>3. ShapeInv' /\ ReferenceInv'
    BY <1>0, <1>1, <1>2, <2>1 DEF ShapeInv, ReferenceInv, library
  <2>4. ~letIn => GuardInv' /\ Owned'
    BY <1>1, <2>1 DEF BusInv, GuardInv, Attached, Level, Owned, library
  <2>. QED
    BY <1>1, <1>3, <2>2, <2>3, <2>4 DEF BusInv
<1>6. CASE SetSpsr(a)
  <2>1. /\ pc[a] = "spcr" /\ pc'[a] = "open" /\ spsr' = a
        /\ UNCHANGED <<interruptSave, sreg, eimsk, spcr, spe>>
    BY <1>0, <1>1, <1>6 DEF SetSpsr, TypeOK
  <2>2. TypeOK'
    BY <1>0, <1>1, <1>2, <2>1 DEF TypeOK, library
  <2>3. ShapeInv' /\ ReferenceInv'
    BY <1>0, <1>1, <1>2, <2>1 DEF ShapeInv, ReferenceInv, library
  <2>4. ~letIn => GuardInv' /\ Owned'
    BY <1>1, <2>1 DEF BusInv, GuardInv, Attached, Level, Owned, library
  <2>. QED
    BY <1>1, <1>3, <2>2, <2>3, <2>4 DEF BusInv
<1>7. CASE EndTransaction(a)
  <2>1. /\ pc[a] = "open" /\ pc'[a] = "idle"
        /\ UNCHANGED <<interruptSave, spcr, spsr, spe>>
        /\ Restored(interruptMode, interruptSave)
    BY <1>0, <1>1, <1>7 DEF EndTransaction, TypeOK
  <2>2. eimsk' \subseteq Externals /\ sreg' \subseteq {I}
    BY <1>0, <2>1 DEF ShapeInv, Restored, TypeOK
  <2>3. TypeOK'
    BY <1>0, <1>1, <1>2, <2>1, <2>2 DEF TypeOK, library
  <2>4. ShapeInv' /\ ReferenceInv'
    BY <1>0, <1>1, <1>2, <2>1 DEF ShapeInv, ReferenceInv, library
  <2>5. ASSUME ~letIn PROVE GuardInv' /\ Owned'
    <3>1. GuardInv /\ interruptMode \in 0 .. 2
      BY <1>0, <2>5 DEF BusInv, TypeOK
    <3>2. \/ /\ interruptMode = 1 /\ eimsk' = interruptSave /\ sreg' = sreg
          \/ /\ interruptMode = 2 /\ sreg' = interruptSave /\ eimsk' = eimsk
          \/ /\ interruptMode = 0 /\ UNCHANGED <<sreg, eimsk>>
      BY <2>1, <3>1 DEF Restored
    <3>3. (Attached(eimsk) /\ Level(sreg))'
      BY <1>1, <2>1, <3>1, <3>2 DEF GuardInv, Attached, Level
    <3>. QED
      BY <1>1, <2>1, <3>3 DEF GuardInv, Owned
  <2>. QED
    BY <1>1, <1>3, <2>3, <2>4, <2>5 DEF BusInv
<1>. QED
  BY <1>4, <1>5, <1>6, <1>7

\* begin() and end(): the last end() with a registered interrupt lets it in.
LEMMA ReferenceStep ==
  ASSUME BusInv, Begin \/ End, MaxRefs < Byte
  PROVE  BusInv'
<1>. /\ MaxRefs \in Nat /\ Byte \in Nat \ {0} /\ Sketch \notin Handlers
     /\ Actors = Handlers \cup {Sketch}
  BY SpiAssumption DEF Actors
<1>0. TypeOK /\ ShapeInv /\ ReferenceInv
  BY DEF BusInv
<1>1. /\ running = Sketch /\ pc[Sketch] = "idle"
      /\ UNCHANGED <<interruptSave, spcr, spsr, running, pc, interruptMask, sreg,
                     eimsk, registered, attached, wantsI, changed>>
  BY DEF Begin, End, Idle, BusFrame
<1>2. ShapeInv'
  BY <1>0, <1>1 DEF ShapeInv
<1>3. CASE Begin
  <2>1. /\ refs < MaxRefs /\ refs' = refs + 1 /\ interruptMode' = interruptMode
        /\ initialized' = (initialized + 1) % Byte /\ letIn' = letIn
        /\ spe' = (spe \/ initialized = 0)
    BY <1>3 DEF Begin
  <2>2. refs \in Nat /\ initialized = refs /\ initialized + 1 < Byte
    <3>1. refs \in Nat /\ initialized = refs
      BY <1>0 DEF TypeOK, ReferenceInv
    <3>. QED
      BY <2>1, <3>1
  <2>3. initialized' = initialized + 1
    BY <2>1, <2>2
  <2>4. spe' = TRUE
    <3>1. CASE initialized = 0
      BY <2>1, <3>1
    <3>2. CASE initialized # 0
      <4>1. spe = TRUE
        BY <1>0, <2>2, <3>2 DEF TypeOK, ReferenceInv
      <4>. QED
        BY <2>1, <4>1
    <3>. QED
      BY <3>1, <3>2
  <2>5. TypeOK'
    BY <1>0, <1>1, <2>1, <2>2, <2>3, <2>4 DEF TypeOK
  <2>6. ReferenceInv'
    BY <2>1, <2>2, <2>3, <2>4 DEF ReferenceInv
  <2>7. ~letIn => AloneInv' /\ RegisteredInv' /\ GuardInv' /\ Owned'
    BY <1>1, <2>1
    DEF BusInv, AloneInv, RegisteredInv, GuardInv, Attached, Level, Owned
  <2>. QED
    BY <1>2, <2>1, <2>5, <2>6, <2>7 DEF BusInv
<1>4. CASE End
  <2>1. initialized = refs /\ refs \in Nat /\ refs <= MaxRefs
    BY <1>0 DEF TypeOK, ReferenceInv
  <2>2. refs' = (IF refs = 0 THEN 0 ELSE refs - 1) /\ initialized' = refs'
    BY <1>4, <2>1 DEF End
  <2>3. \/ /\ refs \in {0, 1} /\ spe' = FALSE /\ interruptMode' = 0
           /\ letIn' = (letIn \/ registered # {})
        \/ refs > 1 /\ spe' = spe /\ interruptMode' = interruptMode
           /\ letIn' = letIn
    BY <1>4, <2>1 DEF End, LastReference
  <2>4. /\ initialized' \in 0 .. Byte - 1 /\ interruptMode' \in 0 .. 2
        /\ spe' \in BOOLEAN /\ refs' \in 0 .. MaxRefs /\ letIn' \in BOOLEAN
    <3>1. /\ interruptMode \in 0 .. 2 /\ spe \in BOOLEAN /\ letIn \in BOOLEAN
      BY <1>0 DEF TypeOK
    <3>2. initialized' \in 0 .. Byte - 1 /\ refs' \in 0 .. MaxRefs
      BY <2>1, <2>2
    <3>3. interruptMode' \in 0 .. 2
      BY <2>3, <3>1
    <3>4. spe' \in BOOLEAN /\ letIn' \in BOOLEAN
      BY <2>3, <3>1, Zenon
    <3>. QED
      BY <3>2, <3>3, <3>4
  <2>5. TypeOK'
    BY <1>0, <1>1, <2>4 DEF TypeOK
  <2>6. ReferenceInv'
    <3>1. CASE refs \in {0, 1}
      BY <2>1, <2>2, <3>1 DEF ReferenceInv
    <3>2. CASE refs > 1
      <4>1. spe = TRUE
        BY <1>0, <2>1, <3>2 DEF TypeOK, ReferenceInv
      <4>2. spe' = spe
        BY <2>3, <3>2
      <4>. QED
        BY <2>2, <4>1, <4>2 DEF ReferenceInv
    <3>. QED
      BY <2>1, <3>1, <3>2
  <2>7. ASSUME ~letIn'
        PROVE  AloneInv' /\ RegisteredInv' /\ GuardInv' /\ Owned'
    <3>1. ~letIn /\ (interruptMode' # interruptMode => registered = {})
          /\ (interruptMode' = interruptMode \/ interruptMode' = 0)
      BY <1>0, <2>3, <2>7 DEF TypeOK
    <3>2. AloneInv /\ RegisteredInv /\ GuardInv
      BY <3>1 DEF BusInv
    <3>. QED
      BY <1>1, <3>1, <3>2
      DEF AloneInv, RegisteredInv, GuardInv, Attached, Level, Owned
  <2>. QED
    BY <1>2, <2>5, <2>6, <2>7 DEF BusInv
<1>. QED
  BY <1>3, <1>4

\* usingInterrupt() and notUsingInterrupt().
LEMMA RegistrationStep ==
  ASSUME BusInv, NEW h \in Handlers, UsingInterrupt(h) \/ NotUsingInterrupt(h)
  PROVE  BusInv'
<1>. Externals \cap Others = {} /\ Actors = Handlers \cup {Sketch}
     /\ Sketch \notin Handlers
  BY SpiAssumption DEF Actors
<1>0. TypeOK /\ ShapeInv /\ ReferenceInv
  BY DEF BusInv
<1>1. /\ running = Sketch /\ pc[Sketch] = "idle"
      /\ UNCHANGED <<interruptSave, spcr, spsr, running, pc, initialized, sreg,
                     eimsk, spe, attached, wantsI, refs, changed, letIn>>
  BY DEF UsingInterrupt, NotUsingInterrupt, Idle, BusFrame
<1>2. ShapeInv' /\ ReferenceInv'
  BY <1>0, <1>1 DEF ShapeInv, ReferenceInv
<1>3. ~letIn => AloneInv' /\ GuardInv' /\ Owned'
  BY <1>1 DEF BusInv, AloneInv, GuardInv, Attached, Level, Owned
<1>4. TypeOK' /\ (~letIn => RegisteredInv')
  <2>1. CASE UsingInterrupt(h)
    <3>1. /\ interruptMask' = interruptMask \cup ({h} \cap Externals)
          /\ registered' = registered \cup {h}
          /\ interruptMode' = IF h \notin Externals THEN 2
                              ELSE IF interruptMode = 0 THEN 1 ELSE interruptMode
      BY <2>1 DEF UsingInterrupt, Mask, ModeWith
    <3>. QED
      BY <1>0, <1>1, <3>1 DEF TypeOK, Handlers, BusInv, RegisteredInv
  <2>2. CASE NotUsingInterrupt(h)
    <3>1. /\ registered' = registered \ {h}
          /\ \/ /\ interruptMode = 2
                /\ UNCHANGED <<interruptMask, interruptMode>>
             \/ /\ interruptMode # 2
                /\ interruptMask' = interruptMask \ ({h} \cap Externals)
                /\ interruptMode' = IF interruptMask' = {} THEN 0
                                    ELSE interruptMode
      BY <2>2 DEF NotUsingInterrupt, Mask, ModeWithout
    <3>. QED
      BY <1>0, <1>1, <3>1 DEF TypeOK, BusInv, RegisteredInv
  <2>. QED
    BY <2>1, <2>2
<1>. QED
  BY <1>1, <1>2, <1>3, <1>4 DEF BusInv

\* interrupts(), noInterrupts(), attachInterrupt() and detachInterrupt(),
\* between transactions and inside.
LEMMA EnableStep ==
  ASSUME BusInv, NEW on \in BOOLEAN,
         SetI(on) \/ \E h \in Externals : Attach(h, on)
  PROVE  BusInv'
<1>. I \notin Externals /\ Sketch \in Actors /\ Handlers \subseteq Actors
  BY SpiAssumption DEF Handlers, Actors
<1>0. TypeOK /\ ShapeInv /\ ReferenceInv
  BY DEF BusInv
<1>1. /\ running = Sketch /\ pc[Sketch] \in {"idle", "open"}
      /\ UNCHANGED <<library, interruptSave, spcr, spsr, running, pc, spe,
                     registered, refs>>
  BY DEF SetI, Attach, Idle, Inside, BusFrame
<1>2. ShapeInv' /\ ReferenceInv'
  BY <1>0, <1>1 DEF ShapeInv, ReferenceInv, library
<1>3. ~letIn' => ~letIn
  BY DEF SetI, Attach
<1>4. CASE SetI(on)
  <2>1. /\ sreg' = (IF on THEN {I} ELSE {}) /\ wantsI' = on
        /\ UNCHANGED <<eimsk, attached>>
        /\ letIn' = (letIn \/ (on /\ pc[Sketch] = "open" /\ interruptMode = 2))
        /\ changed' = IF pc[Sketch] = "open" /\ interruptMode = 2
                      THEN changed \cup {I} ELSE changed \ {I}
    BY <1>1, <1>4 DEF SetI, Set, Inside
  <2>2. TypeOK'
    <3>1. letIn' \in BOOLEAN
      BY <1>0, <2>1, Zenon DEF TypeOK
    <3>. QED
      BY <1>0, <1>1, <2>1, <3>1 DEF TypeOK, library
  <2>3. ASSUME ~letIn'
        PROVE  AloneInv' /\ RegisteredInv' /\ GuardInv' /\ Owned'
    <3>1. AloneInv /\ RegisteredInv /\ GuardInv /\ Owned
      BY <1>3, <2>3 DEF BusInv
    <3>2. \A b \in SUBSET Externals : Attached(b) => Attached(b)'
      BY <1>0, <2>1 DEF Attached, TypeOK
    <3>3. /\ eimsk \in SUBSET Externals
          /\ pc[Sketch] # "idle" /\ interruptMode = 1 =>
               interruptSave \in SUBSET Externals
      BY <1>0, <1>1 DEF TypeOK, ShapeInv
    <3>4. CASE pc[Sketch] = "open" /\ interruptMode = 2
      <4>1. on = FALSE /\ I \in changed' /\ sreg' = {}
        BY <2>1, <2>3, <3>4
      <4>. QED
        BY <1>1, <2>1, <3>1, <3>2, <3>3, <3>4, <4>1
        DEF AloneInv, RegisteredInv, GuardInv, Level, Attached, Owned, library
    <3>5. CASE ~(pc[Sketch] = "open" /\ interruptMode = 2)
      <4>1. Level(sreg)'
        BY <1>1, <2>1 DEF Level
      <4>2. GuardInv'
        BY <1>1, <2>1, <3>1, <3>2, <3>3, <3>5, <4>1
        DEF GuardInv, library
      <4>. QED
        BY <1>1, <3>1, <4>2 DEF AloneInv, RegisteredInv, Owned, library
    <3>. QED
      BY <3>4, <3>5
  <2>. QED
    BY <1>2, <2>2, <2>3 DEF BusInv
<1>5. CASE \E h \in Externals : Attach(h, on)
  <2>. PICK h \in Externals : Attach(h, on)
    BY <1>5
  <2>1. /\ eimsk' = (IF on THEN eimsk \cup {h} ELSE eimsk \ {h})
        /\ attached' = (IF on THEN attached \cup {h} ELSE attached \ {h})
        /\ UNCHANGED <<sreg, wantsI>>
        /\ letIn' = (letIn \/ (on /\ pc[Sketch] = "open" /\ interruptMode = 1
                                  /\ h \in registered))
        /\ changed' = IF pc[Sketch] = "open" /\ interruptMode = 1
                      THEN changed \cup {h} ELSE changed \ {h}
        /\ h # I
    BY <1>1 DEF Attach, Set, Inside
  <2>2. TypeOK'
    <3>1. letIn' \in BOOLEAN
      BY <1>0, <2>1, Zenon DEF TypeOK
    <3>. QED
      BY <1>0, <1>1, <2>1, <3>1 DEF TypeOK, library
  <2>3. ASSUME ~letIn'
        PROVE  AloneInv' /\ RegisteredInv' /\ GuardInv' /\ Owned'
    <3>1. AloneInv /\ RegisteredInv /\ GuardInv /\ Owned
      BY <1>3, <2>3 DEF BusInv
    <3>2. I \in changed' <=> I \in changed
      BY <2>1
    <3>3. Attached(eimsk) => Attached(eimsk)'
      BY <2>1 DEF Attached
    <3>4. CASE pc[Sketch] = "open" /\ interruptMode = 1
      <4>1. Attached(interruptSave)'
        BY <1>1, <2>1, <3>1, <3>4 DEF GuardInv, Attached
      <4>2. eimsk' \cap registered' = {}
        BY <1>1, <2>1, <2>3, <3>1, <3>4 DEF GuardInv
      <4>3. Level(sreg)'
        BY <1>1, <2>1, <3>1, <3>2, <3>4 DEF GuardInv, Level
      <4>4. GuardInv'
        BY <1>1, <3>4, <4>1, <4>2, <4>3 DEF GuardInv, library
      <4>. QED
        BY <1>1, <3>1, <4>4 DEF AloneInv, RegisteredInv, Owned, library
    <3>5. CASE ~(pc[Sketch] = "open" /\ interruptMode = 1)
      <4>1. GuardInv'
        BY <1>1, <2>1, <3>1, <3>2, <3>3, <3>5 DEF GuardInv, Level, library
      <4>. QED
        BY <1>1, <3>1, <4>1 DEF AloneInv, RegisteredInv, Owned, library
    <3>. QED
      BY <3>4, <3>5
  <2>. QED
    BY <1>2, <2>2, <2>3 DEF BusInv
<1>. QED
  BY <1>4, <1>5

\* A handler that uses the bus is entered only when the sketch does not.
LEMMA HandlerStep ==
  ASSUME BusInv, NEW h \in Handlers, Enter(h) \/ Leave(h)
  PROVE  BusInv'
<1>. /\ Sketch \notin Handlers /\ Actors = Handlers \cup {Sketch}
     /\ Externals \cap Others = {} /\ I = "I"
  BY SpiAssumption DEF Actors, I
<1>0. TypeOK /\ ShapeInv /\ ReferenceInv
  BY DEF BusInv
<1>1. UNCHANGED <<library, interruptSave, eimsk, spcr, spsr, spe, pc,
                  registered, attached, wantsI, refs, changed, letIn>>
  BY DEF Enter, Leave, history
<1>2. running' \in Actors /\ pc[running'] \in {"idle", pc[Sketch]}
      /\ sreg' \in {{}, {I}} /\ ShapeInv'
  BY <1>0, <1>1 DEF Enter, Leave, ShapeInv, library
<1>3. TypeOK' /\ ReferenceInv'
  BY <1>0, <1>1, <1>2 DEF TypeOK, ReferenceInv, library
<1>4. ASSUME ~letIn
      PROVE  AloneInv' /\ RegisteredInv' /\ GuardInv' /\ Owned'
  <2>0. AloneInv /\ RegisteredInv /\ GuardInv
    BY <1>4 DEF BusInv
  <2>1. CASE Enter(h)
    <3>1. /\ running = Sketch /\ I \in sreg /\ running' = h /\ sreg' = {}
          /\ h \in registered /\ (h \in Externals => h \in eimsk)
          /\ h # Sketch
      BY <2>1 DEF Enter
    <3>2. pc[Sketch] = "idle"
      <4>1. SUFFICES ASSUME pc[running] # "idle"
                     PROVE  FALSE
        BY <3>1
      <4>2. CASE interruptMode = 0
        BY <2>0, <3>1, <4>2 DEF RegisteredInv
      <4>3. CASE interruptMode = 1
        <5>1. h \in Externals
          BY <2>0, <3>1, <4>3 DEF RegisteredInv
        <5>. QED
          BY <2>0, <3>1, <4>1, <4>3, <5>1 DEF GuardInv
      <4>4. CASE interruptMode = 2
        BY <2>0, <3>1, <4>1, <4>4 DEF GuardInv
      <4>. QED
        BY <1>0, <4>2, <4>3, <4>4 DEF TypeOK
    <3>3. Attached(eimsk) /\ Level(sreg) /\ pc[h] = "idle"
      BY <1>0, <2>0, <3>1, <3>2 DEF GuardInv, ShapeInv
    <3>4. wantsI \/ I \in changed
      BY <3>1, <3>3 DEF Level
    <3>5. (Attached(eimsk) /\ Level(sreg))'
      BY <1>1, <3>1, <3>3 DEF Attached, Level
    <3>. QED
      BY <1>1, <2>0, <3>1, <3>2, <3>3, <3>4, <3>5
      DEF AloneInv, RegisteredInv, GuardInv, Owned, library
  <2>2. CASE Leave(h)
    <3>1. /\ running = h /\ pc[h] = "idle" /\ running' = Sketch /\ sreg' = {I}
          /\ h # Sketch
      BY <2>2 DEF Leave
    <3>2. pc[Sketch] = "idle" /\ (wantsI \/ I \in changed) /\ Attached(eimsk)
      BY <2>0, <3>1 DEF AloneInv, GuardInv
    <3>3. (Attached(eimsk) /\ Level(sreg))'
      BY <1>1, <3>1, <3>2 DEF Attached, Level
    <3>. QED
      BY <1>1, <2>0, <3>1, <3>2, <3>3
      DEF AloneInv, RegisteredInv, GuardInv, Owned, library
  <2>. QED
    BY <2>1, <2>2
<1>. QED
  BY <1>1, <1>2, <1>3, <1>4 DEF BusInv

LEMMA Invariant ==
  ASSUME BusInv, [Next]_vars, MaxRefs < Byte
  PROVE  BusInv'
<1>1. CASE \E a \in Actors : \/ BeginTransaction(a) \/ SetSpcr(a) \/ SetSpsr(a)
                             \/ EndTransaction(a)
  BY <1>1, TransactionStep
<1>2. CASE Begin \/ End
  BY <1>2, ReferenceStep
<1>3. CASE \E h \in Handlers : UsingInterrupt(h) \/ NotUsingInterrupt(h)
  BY <1>3, RegistrationStep
<1>4. CASE \E h \in Handlers : Enter(h) \/ Leave(h)
  BY <1>4, HandlerStep
<1>5. CASE \E on \in BOOLEAN : SetI(on) \/ \E h \in Externals : Attach(h, on)
  BY <1>5, EnableStep
<1>6. CASE UNCHANGED vars
  BY <1>6 DEF vars, library, history, BusInv, TypeOK, ShapeInv, AloneInv,
              RegisteredInv, GuardInv, Level, Attached, ReferenceInv, Owned
<1>. QED
  BY <1>1, <1>2, <1>3, <1>4, <1>5, <1>6 DEF Next

-----------------------------------------------------------------------------
(* The theorems.                                                           *)

\* Between its beginTransaction() and its endTransaction() the sketch, or a
\* registered handler, finds its own settings in SPCR and SPSR and the bus on,
\* however many handlers there are and however they come, until the sketch lets
\* a registered one in itself: by attaching it or by interrupts() inside a
\* transaction, or by its last end().
THEOREM ExclusiveCorrect ==
  ASSUME MaxRefs < Byte
  PROVE  Spec => []Exclusive
<1>1. BusInv => Exclusive
  BY DEF BusInv, Exclusive
<1>. QED
  BY Initial, Invariant, <1>1, PTL DEF Spec

\* As long as that has not happened, between transactions the interrupts that
\* are attached are enabled and no others and SREG is as the sketch left it, but
\* for the bits that the sketch set inside a transaction; and the bus is on
\* while one begin() is without its end(), if they are fewer than a byte counts.
THEOREM RestoredCorrect ==
  ASSUME MaxRefs < Byte
  PROVE  Spec => []BusRestored
<1>1. BusInv => BusRestored
  BY DEF BusInv, GuardInv, Level, Attached, ReferenceInv, BusRestored,
         StateRestored, EnabledWhileUsed, Idle
<1>. QED
  BY Initial, Invariant, <1>1, PTL DEF Spec
=============================================================================

-------------------------------- MODULE Spi --------------------------------
(***************************************************************************)
(* The SPI library's transactions, libraries/SPI/src/SPI.h and SPI.cpp: the *)
(* sketch and interrupt handlers share the bus, and beginTransaction()     *)
(* keeps the handlers registered by usingInterrupt() out, by clearing      *)
(* their enable bits (interruptMode 1) or by disabling all interrupts (2). *)
(*                                                                         *)
(* Settings are the name of who wrote them.  A handler runs with           *)
(* interrupts off and to its end, and uses the bus only while registered.  *)
(***************************************************************************)
EXTENDS Integers, FiniteSets

CONSTANTS
  Externals,      \* interrupts that have a bit in EIMSK
  Others,         \* interrupts that have none: registered by number 255
  Byte,           \* the number of values of a uint8_t
  MaxRefs         \* bound: begin() calls without their end()

Sketch == "sketch"
Handlers == Externals \cup Others
Actors == Handlers \cup {Sketch}
I == "I"        \* the global interrupt enable bit of SREG

ASSUME SpiAssumption ==
  /\ Externals \cap Others = {} /\ Sketch \notin Handlers /\ I \notin Handlers
  /\ Byte \in Nat \ {0} /\ MaxRefs \in Nat

VARIABLES
  initialized, interruptMode, interruptMask, interruptSave,
  sreg, eimsk,            \* SREG and EIMSK, as sets of bits
  spcr, spsr, spe,        \* whose settings they hold; SPCR's enable bit
  running,                \* the sketch, or the handler that interrupts it
  pc,                     \* how far each is in its transaction
  registered,             \* history: by usingInterrupt()
  attached,               \* history: by attachInterrupt()
  wantsI,                 \* history: the sketch's last interrupts()
  refs,                   \* history: begin() calls minus end() calls
  changed,                \* history: the bits that the sketch last set inside
                          \* a transaction that puts them back
  letIn                   \* history: the sketch gave a registered interrupt
                          \* way into a transaction

library == <<initialized, interruptMode, interruptMask>>
history == <<registered, attached, wantsI, refs, changed, letIn>>
vars == <<library, interruptSave, sreg, eimsk, spcr, spsr, spe, running, pc,
          history>>

-----------------------------------------------------------------------------
(* Transactions, of the sketch and of handlers.                            *)

\* Outside these atomic sections a registered handler may come between.
BeginTransaction(a) ==
  /\ running = a /\ pc[a] = "idle" /\ pc' = [pc EXCEPT ![a] = "guarded"]
  /\ CASE interruptMode = 1 ->
            /\ interruptSave' = eimsk /\ eimsk' = eimsk \ interruptMask
            /\ UNCHANGED sreg
       [] interruptMode = 2 ->
            interruptSave' = sreg /\ sreg' = {} /\ UNCHANGED eimsk
       [] OTHER -> UNCHANGED <<interruptSave, sreg, eimsk>>
  /\ UNCHANGED <<library, spcr, spsr, spe, running, history>>

SetSpcr(a) ==
  /\ running = a /\ pc[a] = "guarded" /\ pc' = [pc EXCEPT ![a] = "spcr"]
  /\ spcr' = a /\ spe' = TRUE
  /\ UNCHANGED <<library, interruptSave, sreg, eimsk, spsr, running, history>>

SetSpsr(a) ==
  /\ running = a /\ pc[a] = "spcr" /\ pc' = [pc EXCEPT ![a] = "open"]
  /\ spsr' = a
  /\ UNCHANGED <<library, interruptSave, sreg, eimsk, spcr, spe, running,
                 history>>

\* What the guard took away comes back.
Restored_Enabled(mode, bits) ==
  IF mode = 1 THEN eimsk' = bits /\ sreg' = {I}
  ELSE IF mode = 2 THEN sreg' = {I} /\ UNCHANGED eimsk
  ELSE UNCHANGED <<sreg, eimsk>>
Restored(mode, bits) ==
  IF mode = 1 THEN eimsk' = bits /\ UNCHANGED sreg
  ELSE IF mode = 2 THEN sreg' = bits /\ UNCHANGED eimsk
  ELSE UNCHANGED <<sreg, eimsk>>

EndTransaction(a) ==
  /\ running = a /\ pc[a] = "open" /\ pc' = [pc EXCEPT ![a] = "idle"]
  /\ Restored(interruptMode, interruptSave)
  /\ UNCHANGED <<library, interruptSave, spcr, spsr, spe, running, history>>

-----------------------------------------------------------------------------
(* The sketch's other calls: registrations outside of transactions, as      *)
(* SPI.h asks.                                                             *)

Idle == running = Sketch /\ pc[Sketch] = "idle"
Inside == running = Sketch /\ pc[Sketch] = "open"
BusFrame == UNCHANGED <<interruptSave, spcr, spsr, running, pc>>

Begin ==
  /\ Idle /\ refs < MaxRefs /\ refs' = refs + 1
  /\ initialized' = (initialized + 1) % Byte
  /\ spe' = (spe \/ initialized = 0)
  /\ UNCHANGED <<interruptMode, interruptMask, sreg, eimsk, registered,
                 attached, wantsI, changed, letIn>> /\ BusFrame

LastReference(n) == n \in {0, 1}

\* The last one forgets what is registered.
End ==
  /\ Idle /\ refs' = IF refs = 0 THEN 0 ELSE refs - 1
  /\ initialized' = IF initialized = 0 THEN 0 ELSE initialized - 1
  /\ IF LastReference(initialized)
     THEN /\ spe' = FALSE /\ interruptMode' = 0
          /\ letIn' = (letIn \/ registered # {})
     ELSE UNCHANGED <<spe, interruptMode, letIn>>
  /\ UNCHANGED <<interruptMask, sreg, eimsk, registered, attached, wantsI,
                 changed>>
  /\ BusFrame

Mask(h) == {h} \cap Externals

\* An interrupt without a bit puts the library into mode 2.
ModeWith_MaskWins(h) == IF interruptMode = 2 \/ h \in Externals THEN 1 ELSE 2
ModeWith(h) == IF h \notin Externals THEN 2
               ELSE IF interruptMode = 0 THEN 1 ELSE interruptMode

UsingInterrupt(h) ==
  /\ Idle /\ interruptMask' = interruptMask \cup Mask(h)
  /\ interruptMode' = ModeWith(h)
  /\ registered' = registered \cup {h}
  /\ UNCHANGED <<initialized, sreg, eimsk, spe, attached, wantsI, refs, changed,
                 letIn>> /\ BusFrame

\* "Once in mode 2 we can't go back to 0 without a proper reference count".
ModeWithout(mask) == IF mask = {} THEN 0 ELSE interruptMode

NotUsingInterrupt(h) ==
  /\ Idle /\ registered' = registered \ {h}
  /\ IF interruptMode = 2
     THEN UNCHANGED <<interruptMask, interruptMode>>
     ELSE /\ interruptMask' = interruptMask \ Mask(h)
          /\ interruptMode' = ModeWithout(interruptMask')
  /\ UNCHANGED <<initialized, sreg, eimsk, spe, attached, wantsI, refs, changed,
                 letIn>> /\ BusFrame

\* A bit that the sketch sets inside a transaction is put back by its end, if
\* it is of the register that the mode saves.
Set(bit, mode) ==
  changed' = IF Inside /\ interruptMode = mode THEN changed \cup {bit}
                                               ELSE changed \ {bit}

\* interrupts() and noInterrupts().
SetI(on) ==
  /\ Idle \/ Inside
  /\ sreg' = (IF on THEN {I} ELSE {}) /\ wantsI' = on /\ Set(I, 2)
  /\ letIn' = (letIn \/ (on /\ Inside /\ interruptMode = 2))
  /\ UNCHANGED <<library, eimsk, spe, registered, attached, refs>> /\ BusFrame

\* attachInterrupt() and detachInterrupt().
Attach(h, on) ==
  /\ Idle \/ Inside
  /\ eimsk' = (IF on THEN eimsk \cup {h} ELSE eimsk \ {h})
  /\ attached' = (IF on THEN attached \cup {h} ELSE attached \ {h})
  /\ Set(h, 1)
  /\ letIn' =
       (letIn \/ (on /\ Inside /\ interruptMode = 1 /\ h \in registered))
  /\ UNCHANGED <<library, sreg, spe, registered, wantsI, refs>> /\ BusFrame

-----------------------------------------------------------------------------
(* Interrupts.                                                             *)

Enter(h) ==
  /\ running = Sketch /\ I \in sreg /\ (h \in Externals => h \in eimsk)
  /\ h \in registered
  /\ running' = h /\ sreg' = {}
  /\ UNCHANGED <<library, interruptSave, eimsk, spcr, spsr, spe, pc, history>>

Leave(h) ==
  /\ running = h /\ pc[h] = "idle" /\ running' = Sketch /\ sreg' = {I}
  /\ UNCHANGED <<library, interruptSave, eimsk, spcr, spsr, spe, pc, history>>

-----------------------------------------------------------------------------
Init ==
  /\ initialized = 0 /\ interruptMode = 0 /\ interruptMask = {}
  /\ interruptSave = {} /\ sreg = {I} /\ eimsk = {}
  /\ spcr = Sketch /\ spsr = Sketch /\ spe = FALSE
  /\ running = Sketch /\ pc = [a \in Actors |-> "idle"]
  /\ registered = {} /\ attached = {} /\ wantsI = TRUE /\ refs = 0
  /\ changed = {} /\ letIn = FALSE

Next ==
  \/ \E a \in Actors : \/ BeginTransaction(a) \/ SetSpcr(a) \/ SetSpsr(a)
                       \/ EndTransaction(a)
  \/ Begin \/ End
  \/ \E h \in Handlers : \/ UsingInterrupt(h) \/ NotUsingInterrupt(h)
                         \/ Enter(h) \/ Leave(h)
  \/ \E on \in BOOLEAN : SetI(on) \/ \E h \in Externals : Attach(h, on)

Spec == Init /\ [][Next]_vars

-----------------------------------------------------------------------------
(* Properties.                                                             *)

TypeOK ==
  /\ initialized \in 0 .. Byte - 1 /\ interruptMode \in 0 .. 2
  /\ interruptMask \subseteq Externals
  /\ interruptSave \subseteq Externals \cup {I}
  /\ sreg \subseteq {I} /\ eimsk \subseteq Externals
  /\ spcr \in Actors /\ spsr \in Actors /\ spe \in BOOLEAN
  /\ running \in Actors
  /\ pc \in [Actors -> {"idle", "guarded", "spcr", "open"}]
  /\ registered \subseteq Handlers /\ attached \subseteq Externals
  /\ wantsI \in BOOLEAN /\ refs \in 0 .. MaxRefs
  /\ changed \subseteq Externals \cup {I} /\ letIn \in BOOLEAN

\* "gain exclusive access to the SPI bus and configure the correct settings":
\* whoever is in a transaction finds its own settings whenever it runs.
Owned ==
  /\ pc[running] \in {"spcr", "open"} => spcr = running /\ spe
  /\ pc[running] = "open" => spsr = running

\* Owned, of a sketch that has let no registered interrupt in itself: by
\* attaching it, or all of them by interrupts(), inside a transaction, or by
\* the last end() before its notUsingInterrupt().
Exclusive == ~letIn => Owned

\* "temp storage, to restore state": between transactions the interrupts
\* attached, and those only, are enabled, and SREG is as the sketch left it,
\* but for what the sketch itself changed inside the transaction.
StateRestored ==
  ~letIn /\ Idle =>
    /\ eimsk \ changed = attached \ changed
    /\ I \notin changed => sreg = IF wantsI THEN {I} ELSE {}

\* "reference count": the bus is on while someone's begin() lacks its end().
EnabledWhileUsed == refs > 0 => spe

\* Well formed, with the bus on for whoever began it, and nothing of a
\* transaction left behind by its end.
BusRestored == TypeOK /\ StateRestored /\ EnabledWhileUsed

\* "this function registers that interrupt with the SPI library, so
\* beginTransaction() can prevent conflicts": of every registered interrupt,
\* and also after end() and begin().
ConflictsPrevented == Owned

\* Between transactions what attachInterrupt() attached is enabled: the end of
\* a transaction restores the state, and undoes no call of the sketch.
AttachedEnabled == Idle => eimsk = attached
=============================================================================

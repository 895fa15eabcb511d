----------------------------- MODULE AutoReset -----------------------------
(***************************************************************************)
(* How a board with native USB gets from a sketch into its bootloader and  *)
(* back.  Closing the port at 1200 baud makes CDC_Setup(), cores/arduino/  *)
(* CDC.cpp, store a key in RAM and start the watchdog; main() of           *)
(* bootloaders/caterina/Caterina.c tells by the cause of the reset and by  *)
(* the key whether to stay, and leaves by a time-out.                      *)
(*                                                                         *)
(* Caterina.c as it is here looks for the key where a sketch's data may    *)
(* be; a newer build, which the sketch tells by its signature, looks at    *)
(* RAMEND - 1, and is modelled as the same program with that one address.  *)
(*                                                                         *)
(* A word of RAM holds the key, nothing, or data of the sketch, whose      *)
(* other data never look like the key.  External: the watchdog, the causes *)
(* of resets, the sketch's own accesses to its RAM and the watchdog, and   *)
(* the host that opens, closes and programs, or falls silent.              *)
(***************************************************************************)
EXTENDS Integers

CONSTANTS
  WdtPeriod,       \* bound: ticks until the watchdog fires
  BootPeriod,      \* TIMEOUT_PERIOD, in ticks
  MaxCommands      \* bound: programming commands in one stay

ASSUME AutoResetAssumption ==
  WdtPeriod \in Nat \ {0} /\ BootPeriod \in Nat \ {0} /\ MaxCommands \in Nat

VARIABLES
  newBootloader,  \* isLUFAbootloader(): the key's word is RAMEND - 1
  running,        \* "sketch", "boot", or "reset": the bootloader's decision
  mcusr_state,    \* the causes of the reset
  present,        \* word 0 of the flash is not erased
  word,           \* the two words of RAM, at MAGIC_KEY_POS and RAMEND - 1
  wdtcsr, elapsed,     \* WDTCSR: off, the sketch's or the touch's; its counter
  wdtcsr_save,
  rate, dtr,      \* _usbLineInfo
  Timeout, commands,   \* of the bootloader; the commands it got
  doing,          \* where its main loop is: Places
  attached,       \* USB_DeviceState is not DEVICE_STATE_Unattached
  own,            \* history: how the sketch has set the watchdog
  mine,           \* history: what it has written to the word at MAGIC_KEY_POS
  touched,        \* history: the last line state asked for a reset
  overwritten,    \* history: and the sketch wrote over its key
  disturbed       \* history: what else befell touches since the watchdog was
                  \* set with none pending: Disturbances

cpu == <<newBootloader, running, mcusr_state>>
watchdog == <<wdtcsr, elapsed, wdtcsr_save>>
usb == <<rate, dtr>>
bootloader == <<Timeout, commands, doing, attached>>
hist == <<own, mine, touched, overwritten, disturbed>>
resetVars == <<cpu, present, word, watchdog, usb, bootloader, hist>>

Words == {"pos", "ramend"}
Key == IF newBootloader THEN "ramend" ELSE "pos"

SketchData == {"first", "other"}
Disturbances == {"repeated", "overwritten", "retimed"}

\* The main loop, a wait for more of a command or for a block's length and
\* type, a block of memory on its way, a wait for an answer to be taken.
Places == {"loop", "argument", "size", "block", "answer"}

-----------------------------------------------------------------------------
(* The sketch, and CDC_Setup() in its USB interrupt.                       *)

SetLineCoding(r) ==
  /\ running = "sketch" /\ rate' = r
  /\ UNCHANGED <<cpu, present, word, watchdog, dtr, bootloader, hist>>

\* "Backup ram value if its not a newer bootloader and it hasn't already been
\* saved."
Backup_Again == IF Key = "pos" THEN word["pos"] ELSE word["ramend"]
Backup ==
  IF Key = "pos" /\ word["pos"] # "key" THEN word["pos"] ELSE word["ramend"]

Trigger ==
  /\ word' = [[word EXCEPT !["ramend"] = Backup] EXCEPT ![Key] = "key"]
  /\ wdtcsr_save' = wdtcsr /\ wdtcsr' = "touch" /\ elapsed' = 0

\* "To avoid spurious resets we set the watchdog to 120ms and eventually cancel
\* if DTR goes back high."
Restored == wdtcsr_save

Abort ==
  /\ elapsed' = 0 /\ wdtcsr' = Restored
  /\ word' = [word EXCEPT ![Key] =
                IF newBootloader THEN "nothing" ELSE word["ramend"]]
  /\ UNCHANGED wdtcsr_save

Close_Open(d) == rate = 1200 /\ d
Close(d) == rate = 1200 /\ ~d

Pending == word[Key] = "key"

SetControlLineState(d) ==
  /\ running = "sketch" /\ dtr' = d /\ touched' = (rate = 1200 /\ ~d)
  /\ overwritten' = FALSE
  /\ disturbed' =
       IF touched /\ touched' THEN disturbed \cup {"repeated"} ELSE disturbed
  /\ IF Close(d) THEN Trigger
     ELSE IF Pending THEN Abort
     ELSE UNCHANGED <<word, watchdog>>
  /\ UNCHANGED <<cpu, present, rate, bootloader, own, mine>>

\* The sketch's wdt_enable() or wdt_disable(), at any time.
SetWatchdog(w) ==
  /\ running = "sketch" /\ wdtcsr' = w /\ own' = w /\ elapsed' = 0
  /\ disturbed' = IF touched THEN disturbed \cup {"retimed"} ELSE {}
  /\ UNCHANGED <<cpu, present, word, wdtcsr_save, usb, bootloader, mine, touched,
                 overwritten>>

\* The sketch writes the word at MAGIC_KEY_POS, which is among its own data:
\* the saving avoids "memory corruption at least a bit, not fully".
WriteWord(v) ==
  /\ running = "sketch" /\ word' = [word EXCEPT !["pos"] = v] /\ mine' = v
  /\ overwritten' = (overwritten \/ word["pos"] = "key")
  /\ disturbed' =
       IF overwritten' THEN disturbed \cup {"overwritten"} ELSE disturbed
  /\ UNCHANGED <<cpu, present, watchdog, usb, bootloader, own, touched>>

Kick ==
  /\ running = "sketch" /\ elapsed' = 0
  /\ UNCHANGED <<cpu, present, word, wdtcsr, wdtcsr_save, usb, bootloader,
                 hist>>

-----------------------------------------------------------------------------
(* Resets.                                                                 *)

Tick ==
  /\ running = "sketch" /\ wdtcsr # "off" /\ elapsed < WdtPeriod
  /\ elapsed' = elapsed + 1
  /\ UNCHANGED <<cpu, present, word, wdtcsr, wdtcsr_save, usb, bootloader,
                 hist>>

NoCommand == Timeout' = 0 /\ commands' = 0 /\ doing' = "loop"

Reset(causes, ram) ==
  /\ running' = "reset" /\ mcusr_state' = causes /\ word' = ram
  /\ NoCommand /\ attached' = TRUE
  /\ UNCHANGED <<newBootloader, present, watchdog, usb, hist>>

WatchdogResets ==
  /\ running = "sketch" /\ wdtcsr # "off" /\ elapsed = WdtPeriod
  /\ Reset({"WDRF"}, word)

\* The button keeps the RAM; without power nothing is left in it.
Button == running # "reset" /\ Reset({"EXTRF"}, word)
PowerOn == running # "reset" /\ Reset({"PORF"}, [w \in Words |-> "nothing"])

-----------------------------------------------------------------------------
(* The bootloader.                                                         *)

\* "Disable watchdog"; what the sketch before kept is gone.
Afresh ==
  /\ wdtcsr' = "off" /\ elapsed' = 0 /\ wdtcsr_save' = "off"
  /\ rate' = 57600 /\ dtr' = FALSE
  /\ own' = "off" /\ mine' = "first"
  /\ touched' = FALSE /\ overwritten' = FALSE /\ disturbed' = {}

\* The sketch's start-up code writes its data; USBDevice.attach() follows.
StartSketch(ram) ==
  /\ running' = "sketch" /\ word' = [ram EXCEPT !["pos"] = "first"] /\ Afresh
  /\ NoCommand /\ attached' = TRUE /\ UNCHANGED <<newBootloader, present>>

\* "Check the reason for the reset so we can act accordingly".
Accidental_Always(key) == TRUE
Accidental(key) == key # "key"

Skip(causes, key) ==
  /\ present /\ "EXTRF" \notin causes
  /\ "PORF" \in causes \/ ("WDRF" \in causes /\ Accidental(key))

WithoutKey == [word EXCEPT ![Key] = "nothing"]

Decide ==
  /\ running = "reset" /\ mcusr_state' = {}
  /\ IF Skip(mcusr_state, word[Key])
     THEN StartSketch(WithoutKey)
     ELSE /\ running' = "boot" /\ word' = WithoutKey /\ Afresh
          /\ NoCommand /\ attached' \in BOOLEAN /\ UNCHANGED <<newBootloader, present>>

\* "Disable timer 1 interrupt", and enable it again behind the block.
TimerOn == doing # "block"

\* ISR(TIMER1_COMPA_vect): the time-out waits for a sketch to run.  It is
\* counted up to where it has run out.
Counting_WithoutSketch == ~present
Counting == present

CountTimeout ==
  /\ running = "boot" /\ TimerOn /\ Counting /\ Timeout <= BootPeriod
  /\ Timeout' = Timeout + 1
  /\ UNCHANGED <<cpu, present, word, watchdog, usb, commands, doing, attached,
                 hist>>

TimedOut == Timeout > BootPeriod

\* The main loop looks, between two commands.  Erased words are executed like
\* no instructions, up to the bootloader.
InLoop == running = "boot" /\ doing = "loop"

Leave ==
  /\ InLoop /\ TimedOut /\ UNCHANGED mcusr_state
  /\ IF present THEN StartSketch(word)
     ELSE /\ running' = "reset"
          /\ UNCHANGED <<newBootloader, present, word, watchdog>>
          /\ UNCHANGED <<usb, bootloader, hist>>

\* CDC_Task() finds a command: 'E' nearly runs out the clock, 'B' and 'g' set
\* it back, 'e' erases; of the others, some have arguments and some do not, and
\* 'm' writes the page of 'C' and 'c'.
HostCommand(t, p, next) ==
  /\ InLoop /\ attached /\ commands < MaxCommands /\ commands' = commands + 1
  /\ Timeout' = t /\ present' = p /\ doing' = next
  /\ UNCHANGED <<cpu, word, watchdog, usb, attached, hist>>
Exit == HostCommand(BootPeriod - 1, present, "answer")
Erase == HostCommand(Timeout, FALSE, "answer")
Block == HostCommand(0, present, "size")
Other == \/ HostCommand(Timeout, present, "argument")
         \/ \E p \in {TRUE, present} : HostCommand(Timeout, p, "answer")

\* FetchNextCommandByte() and WriteNextResponseByte() wait for the host, and no
\* longer if the cable is off.
Goes(from, p, next) ==
  /\ running = "boot" /\ doing = from /\ present' = p /\ doing' = next
  /\ UNCHANGED <<cpu, word, watchdog, usb, Timeout, commands, attached, hist>>

\* Before a page of flash is filled it is erased, and then it is written; what
\* comes without a cable is a block of type 0, and an answer '?'.
Waited ==
  \/ Goes("argument", present, "answer")
  \/ Goes("size", present, "answer")
  \/ attached /\ \E p \in {FALSE, present} : Goes("size", p, "block")
  \/ \E p \in {TRUE, present} : Goes("block", p, "answer")
  \/ Goes("answer", present, "loop")

Serves == attached /\ Waited
Unattached == ~attached /\ Waited

\* The cable is pulled, or put in again.
Cable ==
  /\ running = "boot" /\ attached' = ~attached
  /\ UNCHANGED <<cpu, present, word, watchdog, usb, Timeout, commands, doing,
                 hist>>

-----------------------------------------------------------------------------
ResetInit ==
  /\ newBootloader \in BOOLEAN
  /\ running = "reset" /\ mcusr_state = {"PORF"} /\ present \in BOOLEAN
  /\ word = [w \in Words |-> "nothing"]
  /\ wdtcsr = "off" /\ elapsed = 0 /\ wdtcsr_save = "off"
  /\ rate = 57600 /\ dtr = FALSE /\ Timeout = 0 /\ commands = 0
  /\ doing = "loop" /\ attached = TRUE
  /\ own = "off" /\ mine = "first"
  /\ touched = FALSE /\ overwritten = FALSE /\ disturbed = {}

ResetNext ==
  \/ \E r \in {1200, 57600} : SetLineCoding(r)
  \/ \E d \in BOOLEAN : SetControlLineState(d)
  \/ \E w \in {"off", "sketch"} : SetWatchdog(w)
  \/ \E v \in SketchData : WriteWord(v)
  \/ Kick \/ Tick \/ WatchdogResets \/ Button \/ PowerOn
  \/ Decide \/ CountTimeout \/ Leave
  \/ Exit \/ Erase \/ Block \/ Other \/ Serves \/ Unattached \/ Cable

ResetSpec == ResetInit /\ [][ResetNext]_resetVars

\* The timers run and the bootloader is executed; nothing makes the sketch or
\* the host do anything.
ResetFairSpec ==
  /\ ResetSpec /\ WF_resetVars(Tick) /\ WF_resetVars(WatchdogResets)
  /\ WF_resetVars(Decide) /\ WF_resetVars(CountTimeout) /\ WF_resetVars(Leave)
  /\ WF_resetVars(Unattached)

-----------------------------------------------------------------------------
(* Properties.                                                             *)

ResetTypeOK ==
  /\ running \in {"sketch", "boot", "reset"} /\ present \in BOOLEAN
  /\ mcusr_state \subseteq {"WDRF", "EXTRF", "PORF"}
  /\ word \in [Words -> {"key", "nothing"} \cup SketchData]
  /\ wdtcsr \in {"off", "sketch", "touch"} /\ elapsed \in 0 .. WdtPeriod
  /\ wdtcsr_save \in {"off", "sketch", "touch"}
  /\ Timeout \in 0 .. BootPeriod + 1 /\ doing \in Places
  /\ own \in {"off", "sketch"} /\ mine \in SketchData
  /\ newBootloader \in BOOLEAN /\ disturbed \subseteq Disturbances

\* "Restore the watchdog state in case the sketch was using it": a touch that
\* was called off leaves the watchdog as the sketch had set it.
WatchdogRestored == running = "sketch" /\ ~touched => wdtcsr = own

\* A touch that was called off leaves no key behind, and the sketch's word of
\* RAM as the sketch has last written it, under the touch or before.
MemoryRestored ==
  running = "sketch" /\ ~touched => word[Key] # "key" /\ word["pos"] = mine

\* Nothing of a touch that was called off is left behind, of the key and the
\* word of RAM whatever the sketch and the host did; the watchdog's setting is
\* restored for a host that asked once and a sketch that neither wrote over the
\* key nor set the watchdog meanwhile (the three properties below).
TouchUndone ==
  ResetTypeOK /\ MemoryRestored /\ (disturbed = {} => WatchdogRestored)

\* A watchdog reset ends in the bootloader if a touch asked for it, unless the
\* sketch wrote over its key, or there is no sketch, and "if it looks like an
\* accidental watchdog reset" in the sketch.
RightProgram ==
  [][running = "reset" /\ mcusr_state = {"WDRF"} /\ running' # "reset" =>
       (running' = "boot" <=> (touched /\ ~overwritten) \/ ~present)]_resetVars

\* "auto-reset into the bootloader is triggered when the port, already open at
\* 1200 bps, is closed", unless the sketch goes on calling wdt_reset(), stops
\* the watchdog after the touch, or writes over the key.
TouchResets ==
  <>[][~Kick /\ \A w \in {"off", "sketch"} : ~SetWatchdog(w)]_resetVars =>
    (running = "sketch" /\ touched
       ~> \/ running = "boot" \/ ~touched \/ overwritten
          \/ wdtcsr = "off" /\ "retimed" \in disturbed)

\* "Time out and start the sketch if one is present", of a host that goes on
\* with each command it has begun, or whose cable is pulled for long enough.
BootEnds ==
  []<>(running # "boot" \/ doing = "loop") =>
    (running = "boot" /\ present ~> running # "boot" \/ ~present)

-----------------------------------------------------------------------------
(* What the comments say, and the code does not do.                        *)

\* CDC.cpp:147, "to avoid spurious resets we set the watchdog to 120ms and
\* eventually cancel if DTR goes back high": of a touch that is repeated,
RepeatedCancelled ==
  running = "sketch" /\ ~touched /\ disturbed \subseteq {"repeated"} =>
    wdtcsr # "touch"

\* and of one whose key the sketch's own data have replaced.
OverwrittenCancelled ==
  running = "sketch" /\ ~touched /\ disturbed \subseteq {"overwritten"} =>
    wdtcsr # "touch"

\* CDC.cpp:153, "Restore the watchdog state in case the sketch was using it":
\* as the sketch has set it, under the touch too.
RetimedRestored ==
  running = "sketch" /\ ~touched /\ disturbed \subseteq {"retimed"} =>
    wdtcsr = own

\* Caterina.c:147, "Time out and start the sketch if one is present".
BootTimesOut == running = "boot" /\ present ~> running # "boot" \/ ~present
=============================================================================

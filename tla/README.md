# ArduinoCore-avr in TLA+

The Arduino core for AVR boards is a library that shares a few bytes of RAM and
a few registers between a sketch and its interrupt handlers. Most of it is
written without locks: a handler owns one index, the sketch the other, and a
comment says why that is enough. The modules here take those comments at their
word and check them in every interleaving.

The processor has one core. A handler runs to its end with interrupts off; the
sketch can be interrupted between any two machine instructions unless it has
switched interrupts off. So the grain of every model is the same: **a handler is
one action, a call of the sketch is one action per access to what a handler or
the hardware also touches**, and a section under `cli()` is one in which only
the hardware moves.

## 1. The parts of the system

| Part | Source | State | Operations | Model |
|---|---|---|---|---|
| Hardware serial port | `cores/arduino/HardwareSerial*.{h,cpp}` | two rings, `_written`, UCSRB, UDR | `begin` `end` `available` `peek` `read` `availableForWrite` `flush` `write`, two interrupts | `HardwareSerial`, `SerialPort`, `HardwareSerialPort` |
| Clock | `cores/arduino/wiring.c` | `timer0_overflow_count`, `timer0_millis`, `timer0_fract` | `millis` `micros` `delay`, overflow interrupt | `Timer0` |
| Two-wire driver | `libraries/Wire/src/utility/twi.c` | `twi_state`, three buffers with their indexes, `twi_inRepStart`, time-out flags | `twi_writeTo` `twi_readFrom`, `TWI_vect` | `Twi` |
| Tones | `cores/arduino/Tone.cpp` | `tone_pins`, `timer2_*`, timer registers | `tone` `noTone`, compare-match interrupt | `Tone` |
| SPI | `libraries/SPI/src` | `interruptMode/Mask/Save`, `initialized`, SPCR, EIMSK, SREG | transactions, `begin` `end`, `usingInterrupt` `notUsingInterrupt` | `Spi` |
| CDC port, line state | `cores/arduino/CDC.cpp` | `_usbLineInfo`, `wdtcsr_save`, key in RAM | `CDC_Setup` | `AutoReset` |
| Caterina | `bootloaders/caterina/Caterina.c` | MCUSR, key in RAM, `Timeout` | reset decision, commands | `AutoReset` |
| External interrupts | `cores/arduino/WInterrupts.c` | EIMSK, function table | `attachInterrupt` `detachInterrupt` | only EIMSK, in `Spi` |
| CDC port, data | `cores/arduino/CDC.cpp` | peek buffer, line state | `Serial_`: `begin` `read` `peek` `write` `flush` | `UsbSerial` |
| USB device core | `cores/arduino/USBCore.cpp` | endpoint banks, configuration | `USB_Send` `USB_Recv` `USB_Flush`, two interrupts | `UsbSerial` |
| PluggableUSB, HID | `cores/arduino/PluggableUSB.cpp`, `libraries/HID` | list of modules | `plug`, control requests | – |
| Wire | `libraries/Wire/src/Wire.cpp` | two buffers with indexes, `transmitting` | master calls, two services with their callbacks | `Wire` |
| SoftwareSerial | `libraries/SoftwareSerial/src` | one shared ring, `active_object`, pin-change mask | `begin` `listen` `stopListening` `end` `read`, interrupt | `SoftwareSerial` |
| Stream, Print, strings | `cores/arduino/Stream.cpp` ... | a timeout | searches, conversions | – |
| EEPROM | `libraries/EEPROM/src/EEPROM.h` | none of its own | `update` `put` | – |
| Pins, pulses, shifts | `cores/arduino/wiring_*.c` | registers | `digitalWrite` ... | – |
| optiboot | `bootloaders/optiboot` | MCUSR, watchdog, `address`, `length`, `buff`, flash | reset decision, commands, page programming | `Optiboot` |
| stk500v2, older bootloaders | `bootloaders/` | page buffer, addresses, flash | programming protocols | – |
| 16U2 bridge | `firmwares/atmegaxxu2/arduino-usbserial` | two rings with counts | main loop, receive interrupt | `Bridge` |
| 16U2 DFU | `firmwares/atmegaxxu2/arduino-usbdfu` | flash, protocol state | DFU requests | – |
| WiFi shield | `firmwares/wifishield` | sockets, connection manager | callbacks, SPI commands | – |
| Boards, variants, drivers | `boards.txt`, `variants/`, `drivers/` | none | – | – |

How they meet:

- The sketch calls everything from `loop()`; a library call may be made with
  interrupts on or off, and a handler may run in the middle of it.
- `delay()` polls `micros()`, and every time-out in the repository (Wire,
  Stream, USB) polls one of the two clocks. The clock is a shared service whose
  one assumption is that its handler is let in often enough.
- Wire sits on twi.c and hands it its callbacks, which run **inside** the
  handler. A call of the master and a callback share Wire's buffers.
- The SPI library switches off the handlers that use the bus; it manipulates
  the same EIMSK as `attachInterrupt()`.
- CDC and the bootloader never run together. They talk through a word of RAM, a
  watchdog and the cause of the reset.

What is hard, and what would have to hold:

- *Serial.* A ring with two owners; a shortcut around it; a completion flag
  (TXC) that is set by the hardware and cleared by software at the wrong
  moment only if nobody looks. Order and completeness of bytes; `flush()`
  neither early nor hanging; promises of the two `available` calls kept.
- *Clock.* Torn reads of four-byte counters, an overflow between three loads,
  wrap-around after 70 minutes, an error that adds up over days.
- *Two-wire.* A state machine in the handler, a caller that polls its state,
  a bus on which anybody may do anything at any time, and time-outs that leave
  a transfer half-way. Results must be true, buffers kept, the bus and the
  driver always free again.
- *Tone.* A slot and a timer given up in several steps while the handler may
  do the same; a count of two possible widths.
- *SPI.* Exclusion by masking, one saved byte for all, registration in any order.
- *Wire.* Two buffers shared by master calls and by callbacks that run inside the
  handler, with one flag to tell whose bytes they are.
- *USB.* Banks that the start-of-frame interrupt releases behind the sketch's
  back, a host that stops taking, resets the bus, and must be told where a
  transfer ends.
- *SoftwareSerial.* One ring for all ports and a pointer stored in two halves.
- *Bridge.* A ring whose count is kept apart from its pointers, filled by an
  interrupt that never asks whether there is room.
- *optiboot.* An erase that runs while its data comes, a reset at any moment, and
  a watchdog as the only way out.
- *Auto-reset.* A decision spread over a watchdog, a word of memory that
  belongs to the sketch, and a reset; a host that changes its mind.

The line-by-line list of hazards, with the properties that answer each, is
`hazards` in `PROJECT.json`.

## 2. The modules

### HardwareSerial, SerialPort, HardwareSerialPort

`HardwareSerial` has one action per interruptible step of each method (variable
`pc`; the names of the actions follow the methods), one per handler, and three
for the USART: `LoadShift`, `ShiftOut`, `Arrive`. `txHead`, `txTail` and their
like are the fields `_tx_buffer_head` ...; `written` is `_written`; `ucsrb`
holds the four enable bits, which `begin()` and `end()` change by a load and a
store (`RmwLoad`, `RmwStore`), because `sbi` through a pointer is not one
instruction. Bytes are numbered by the order in which they are written or
arrive, which makes order and loss visible without any data. UDR, the shift
register and TXC behave as the code's comments rely on: TXC is set when the shift
register runs dry with UDR empty. `MCHardwareSerial` splits the behaviours by
`direction`: the two halves of a port share UCSRB and nothing else.

A load or store of an index is one step, so `SizeAssumption` allows rings of 2 to 256:
the indexes of a larger one take two bytes, which the code guards in some places and
warns of in others (`HardwareSerial.h:37`). Nothing here is about such rings.

One assumption is on time: between the two stores of `write()`'s shortcut, under
`ATOMIC_BLOCK`, less than a frame goes by (`JustLoaded`).

`SerialPort` is the abstract promise: a bounded FIFO between `write()` and the
wire, and a `flush()` that returns only when it has run out. `HardwareSerialPort`
maps the shift register, UDR and the ring, in that order, to the FIFO.

The sketch of the model opens a port before it uses it, and, unless `ReBegin`,
does not open it twice.

### Timer0

The timer ticks at all times; `OverflowInterrupt` is the handler; `millis()` is
two loads (four bytes are two halves here), `micros()` its three, `delay()` a
loop over the steps of `micros()`. `now` and `handled` are unbounded history
that says what the counters ought to be.

Assumptions, each a named constant:

- `ClockAssumption`: a timer overflow is a whole number of milliseconds plus a
  whole number of the units of `timer0_fract`, which the code claims ("this
  doesn't lose precision") and which is so at 8 and 16 MHz.
- `Latency`: an overflow is served before the timer has counted that far, and
  before its last count. Without it no overflow counter works.
- `LookWithin`, `LookAgain`: how late `delay()` may look at the clock; the outer
  loop may be held up by `yield()`, for almost 2^32 microseconds, the inner one for
  a millisecond.
- The loads of TCNT0 and TIFR0 are adjacent instructions, less than 64 cycles
  apart, so at most one tick lies between.

### Twi

`twi` holds the driver's static variables and `hw` the registers, with what the
hardware is doing (`doing`). There is one action per case of `TWI_vect`, one per
step of the two master calls and their three polling loops, `GiveUp` for a
time-out in any of them, and `Stop` for `twi_stop()`, whose own time-out is an
alternative. The bus is the environment: a device acknowledges or not, the bus
fails, another master takes the bus, wins arbitration, addresses this node,
sends, takes, stops or restarts. The hardware holds the bus from TWINT until
TWCR is written, and a write of TWCR decides what it does next (`Resume`).
`Alone` is the assumption on the other masters that section 5 shows the driver to
need: none addresses this node during one of its own calls, other than while the
call waits for the driver.

`MCTwi` splits the behaviours by `role`: a master with time-outs among other
masters, a slave, a node that is both and `Alone` (`both`), or both and addressed
at any time (`racing`).

The `wait` argument is always 1, as in Wire; `Wire.begin()` is not called again;
when a time-out strikes is left open, since it depends on microseconds.

### Tone

The calls in the steps that the handler can separate, on timer 2, the only one
most boards use. When the timer matches is left open. A frequency stands for the
prescaler and compare value computed from it; the toggle count is made of two
pieces of `Byte` values, stored one after the other. The sketch calls `tone()` and
`noTone()` as it likes, `tone()` on the pin that is playing included: `toneBegin()`
then finds it in the slot and leaves the timer as it is (`Tone.cpp:132`).

A tone that ends calls `noTone(tone_pins[0])`. If the slot is free, because the sketch's
`noTone()` has given it up or a `tone()` was overtaken, that is `noTone(255)`, which goes on
to `digitalWrite(255, LOW)`: port and mask are read behind the ends of their tables and
some bits of some byte are cleared. `Astray` is what that may do: nothing, lower
any of the pins, or strike memory. From a struck memory on (`struck`) the model
stands still. Two more pieces of history, `overtaken` (the handler has ended a tone
under a `tone()` that had found its slot) and `torn` (it ran between the two stores of
the count), tell what the properties do not promise from what they do.

### Spi

The sketch and its handlers (two with a bit in EIMSK, one without) share the bus
by transactions. Settings are the name of whoever wrote them. Handlers use the
bus only while they are registered and do not nest. The sketch registers between
transactions, as `SPI.h:169` asks; it attaches, detaches and switches interrupts on and
off inside them too, and calls `end()` with or without `notUsingInterrupt()`. `changed`
collects the bits it set inside a transaction that will put the old ones back, and
`letIn` is set when one of these calls lets a registered handler into a transaction.

### AutoReset

`SetControlLineState` and `SetLineCoding` are the requests of `CDC_Setup()`;
`Decide`, `CountTimeout`, `Leave` and the commands are Caterina's `main()`. Both
bootloaders that the code tells apart are in it: whether the key is looked for
at `MAGIC_KEY_POS` or at `RAMEND - 1` is chosen at the start; the newer program
is not in the repository and is taken to be the same but for that address. Its
two words of RAM are the two places.

The sketch goes on meanwhile. The word at `MAGIC_KEY_POS` is among its own data, and
`WriteWord` stores to it at any time, over a key too: the backup avoids corruption "at
least a bit, not fully" (`CDC.cpp:132`). `SetWatchdog` and `Kick` are its `wdt_enable()`,
`wdt_disable()` and `wdt_reset()`, also while a reset is pending. `own` and `mine` are what
it last asked for, `overwritten` and `disturbed` what befell the touch.

A command of the bootloader is several steps: `HostCommand` is its first byte, and then the
program waits (`doing`) for more of a command, for a block's length, for the block itself, or
for the answer to be taken. It goes on when the host does (`Serves`), or without it when the
cable is off (`Unattached`, `Caterina.c:413`, `:439`). During a block the timer's
interrupt is off (`TimerOn`, `Caterina.c:302`), and the time-out is looked at in the main
loop only. Ticks of the watchdog and of the time-out are abstract. The brown-out
cause of a reset is left out: the code treats it like power-on.

### Wire

One action per step of `beginTransmission()`, `write()`, `endTransmission()`,
`requestFrom()` and `read()` between which a service may run, down to the single stores
of index and length; a service with its callback is one action, as it runs inside the
handler. `begin()`, and the two stores by which `requestFrom()` takes over what it got,
are one step each: a sketch that begins is not being addressed just then, and see
`MayEnd`. The driver is external and is the one of `Twi`: it takes what
`endTransmission()` hands over, returns any number of bytes for a request, and calls the
services at any time. A byte carries the turn in which it was written and its place, so
that bytes of two transfers, or of the sketch and of a callback, cannot be confused.

A `write()` about to store past the end of `txBuffer` (`PastEnd`) is where the model stands
still: of what that strikes nothing can be said.

`MayEnd` is an assumption: between `twi_readFrom()`'s return and the reset of the
index (`Wire.cpp:161` to `:164`) no other master's transfer to this node ends,
unless the read returned nothing.

### UsbSerial

`Serial_` above the two bulk endpoints: `fill` is the bank the CPU writes,
`queue` the released ones, `outBanks` those received. `USB_Send()` is `Send`,
`Space`, `Delay` and `Copy`, each under `LockEP` and so one step; `flush()` takes no
lock and is three. The start-of-frame handler, the bus reset, the two requests
that matter (SET_CONFIGURATION with a value, and SET_CONTROL_LINE_STATE, here `LineState`)
and the host are actions. A control request leaves endpoint 0 selected (`uenum`), on which
an unlocked `flush()` may then act. The host sends no empty packet and does not
unconfigure the device.

### SoftwareSerial

The calls that move the listener, and `read()`, in steps; the handler receives a
byte in one, as it holds the interrupts off meanwhile. The stores of the two
bytes of `active_object` are two steps with `Torn` between them. `Change` latches a
pin's change in `pcif`, of a port's pin that is enabled or of a pin that is another's
(`NULL`: all the vectors are this library's, `SoftwareSerial.cpp:228`); `PinChange` serves
it at any later time, the pin enabled still or not, calls `recv()` of whatever
`active_object` says then, and `recv()` sets that port's mask again at its end (`:189`).
`disturbed` says that a change was pending as ports began to change hands, or one of
another's pin came while they did; `astray` that the handler has followed a torn
pointer, where the model stands still.

### Bridge

The main loop of the 16U2 in the steps of `RingBuffer_Remove()`, against the
receive interrupt. `In` and `Out` are the pointers of the ring towards the host;
of the other ring only the count matters. The ring may have any size that the
count can hold (`LightweightRingBuff.h:46`). `stored` is history: the slots that were
filled and not read since, which is what the ring really holds, whatever `Count` says;
`overrun` is set when the interrupt fills one that was full, and cleared when the loop
finds the ring empty. The USB library gives and takes bytes or does not.

### Optiboot

A character is what it stands for at its place, with a framing error or
without; the host sends what it likes, or nothing, or pulls the reset line. It
loads an address before a page command and sends no more than a page. The
flash, its page buffer and the reset logic are external: an erase or a write of a
page below NRWWSTART takes time, a fill or a write meanwhile is ignored, a write
onto a page not erased ruins it, and so does a reset in the middle. The
watchdog has two half periods (`fed`); it is too slow only for the few
instructions from a reset to the first wait. `told` is history: it turns over at
each thing the host does.

### MC modules

`MCx` extends `x` with the sets that the configurations name, and, where a
component has sides that share little, with a variable (`direction`, `role`) chosen
at the start, which keeps each behaviour to one side and one run to each component.
Two instances hold two modules that share no state, and a behaviour is of one of them:
`MCTimers` (`which`: Timer0 or Tone) and `MCCdc` (`part`: the endpoints of UsbSerial in one
direction or the other, or AutoReset).
Definitions named
`_No...`, `_Off...`, `_Any` and the like, next to a definition of the code, are
its mistaken forms: substituted for it they make a property fail, which shows
that the property notices.

## 3. What is checked

| Run | Instance | States | What it shows |
|---|---|---|---|
| `serial` | rings of 3, 6 writes with all transmit calls and interrupts toggled, or 4 arrivals with parity errors and all receive calls; `begin`/`end` in both | 100 315 | `TransmitSafe`: bytes leave once each and in order, the data-register interrupt is never enabled over an empty ring, a promised byte of room is there. `AllBytesSent`: none is stranded. `ImplementsPort`: `SerialPort` with its fairness, and so `flush()` neither early nor hanging. `ReceiveInOrder`, `PromisedBytesAreThere`, `DropOnlyWhenFull`: the receive side |
| `timers` | clock: 4 ticks to an overflow, words of 12, 50 ticks; tones: two pins, three tones | 244 455 | The clock: `MillisExact`, `MillisNotTorn`, `MicrosExact` across pending overflows and wraps, `DelayExact` and `DelayReturns`. Tones: `AtRest`, no tone survives `noTone()` and timer, slot and pin agree, also after `tone()` on a pin that plays; `DurationExact`, the number of toggles; `ToneEnds` |
| `twi` | buffer of 2, lengths 1 to 3; roles master, slave, both; time-outs | 235 110 | `WriteTruthful`, `ReadTruthful`: results say what happened on the bus. `BusReleased`: the bus is given back. `SlaveTruthful`: what fits is delivered and sent in order. `CallsReturn`, `ReadyAgain` |
| `cdc` | endpoints: 2 banks of 2, writes of up to 5, 2 waits; touch: both bootloaders, watchdog and time-out of 2 ticks, 2 commands a stay | 59 421 | Endpoints: `SendInOrder`, `ReceiveInOrder`, no byte is lost, repeated or overtaken between resets; `TransferEnds`, after a complete write the host knows that it is over; `CallsReturn` whatever the host does or does not; `Delivered`, with a host that is awake bytes leave without a flush. Touch: it leads to the bootloader and only a touch does (`RightProgram`, `TouchResets`); called off it leaves neither key nor another word of the sketch's (`TouchUndone`); the bootloader ends (`BootEnds`) |
| `spi` | two external interrupts and a timer | 3 740 837 | `Exclusive` use and `BusRestored`, what was disabled is restored and the unit stays on while used, until the sketch itself lets a handler in |
| `wire` | buffers of 2, up to 3 bytes asked for | 369 906 | `ReadsFaithful`: a read returns one transfer, each byte once, in order and inside the buffer. `TransmissionFaithful`: what is sent was written since `beginTransmission()`, in order |
| `software_serial` | two ports, ring of 3 | 5 043 607 | `SwitchSafe`: the listener's pin is on; if no change is pending or foreign as ports change hands, no other pin is, and no handler follows half a pointer. `RingFaithful`: a port reads its own bytes, in order, and reports loss |
| `bridge` | ring of 3, count of 6 values | 333 080 | `RingSound`: pointers and count agree, the loop removes what is stored until the ring is overrun, and what was overrun heals. `Flushed`: every byte leaves |
| `optiboot` | a page on each side of NRWWSTART, pages of 2 words | 1 017 640 | `BootSafe`: an acknowledged page holds what was sent, whatever is cut short later; the sketch starts with the watchdog off and flash readable. `RunsTheSketch`: it does start when the host falls silent or sends noise |

The runs `twi_addressed_while_writing`, `tone_restarted` and `bridge_overrun` show
disagreements between a comment and the code; see section 5.

### Why the bounds are enough

- A ring of 3 has an empty, a partly filled, a full and a wrapped state, and 6
  writes go round it twice. The shortcut, the ring and the polled handler each
  follow each of the others. The receive ring takes 2 bytes and the hardware's
  FIFO 2 more, so 4 arrivals fill and overrun both.
- 50 ticks are 12 overflows; they wrap the 12-valued word eight times in
  microseconds and once in milliseconds, and the remainder carries at every third
  overflow. `Period` 4 leaves every phase of the timer to each of the three loads.
  The theorems of section 4 remove these bounds, and those of the other models.
- A transfer that fills the buffer, one of a single byte and one that is too
  long are the cases of the code's comparisons. `Byte` of 8 keeps the unsigned
  wraps apart from valid indexes. 4 bytes for a slave buffer of 2 are: it fits,
  the first too many, and one after the refusal.
- `IntWord` 8 and `Byte` 4 make the toggle count wrap its low piece; a tone of no
  toggle, of several and one without end are the three forms.
- A watchdog of 2 ticks gives one tick at which the touch can be called off or
  repeated; 2 commands allow an erase after a write and a write after an erase.
- Wire's buffers of 2 with 3 bytes asked for, or written by a callback, reach one
  past the end. Turns are counted modulo 3: one being read, one just received,
  and one that would betray a mixture.
- A write of 5 on banks of 2 fills both and needs a third; 2 and 4 are the full last
  packets that need an empty one, with a free bank or without. Two waits are a
  wait that succeeds after another and one that gives up.
- `ReadyAgain` says nothing of behaviours with time-outs: being ready again would
  be no merit of the handler there.
- Two ports are a listener and the one it replaces. A ring of 3 wraps and is full.
- The bridge's count of 6 values for a ring of 3 overruns the ring and goes round, as
  256 values do for 128. Of sizes that do not divide the count only the theorem speaks.
- Two pages are one that is erased in the background and one that is not. Two
  words give a whole page and a partial one; the two words sent for a page
  differ, and a page may be programmed again with other data.

Deadlock is checked everywhere: the models never stop, but for the stutter of a
program whose memory was struck.

### Fairness

- *Handlers* (WF, in Timer0 SF): the processor takes a pending interrupt. It is
  strong for the overflow handler because `delay()` keeps switching interrupts
  off and on; the processor executes one instruction after each `sei` and then
  looks.
- *A call that has started* keeps running (WF of the disjunction of its steps).
  Nothing forces a sketch to make a call.
- *Hardware* moves on: frames are shifted out, the timer ticks, devices answer
  within their time (WF). A start waits for a free bus that others use too, and
  the hardware sends it when it is free often enough (SF of `HwStart`).
- `GiveUp` (WF): `micros()` runs, so a polling loop with a time-out ends.
- In UsbSerial only a call runs on (WF of `Running`). Nothing makes the host take a packet
  or start a frame: `CallsReturn` holds without, since `USB_Send()` gives up, once the bus at
  last stays out of reset. `Delivered` is about a host that is awake and says so in
  its premise `HostFairness`.
- In Bridge the main loop runs and timer 0 overflows.
- In Optiboot the code, an operation on the flash and the watchdog's time go on
  (WF); nothing is assumed of the host.
- In `twi`, a call that waits for the driver sees it ready if it is so again and
  again (SF of `WaitReady`): between two transfers the bus is free for longer than
  a look takes.
- In AutoReset the timers run, the bootloader's main loop and its decision at reset go on,
  and so do its waits once the cable is off (WF). Nothing makes the host or the sketch do
  anything, and the properties name what they need of them. `TouchResets`: the sketch does not
  go on for ever calling `wdt_reset()` or setting the watchdog, does not stop it once touched and has not
  written over the key. `BootEnds`: the bootloader gets back to its main loop again and
  again, that is, the host goes on with each command it has begun or the cable stays off.

## 4. What is proved

Every safety property of section 3, invariants and properties of steps alike, is
a theorem: it holds for every value of the constants that the assumptions of its
module (`SizeAssumption` and the like, which every run evaluates) and the
premises named below admit. So the bounds of section 3 (`MaxTicks`, `MaxWrites`,
`MaxSize`, `Tries` ...) may be as large as one likes.
A premise excludes what section 5 shows to go wrong, and nothing else. `[]Alone` is
one on the environment: the theorem is about every behaviour in which it holds
throughout.

Some properties carry a premise inside, in terms of history: they promise something until
a hazard of section 5 has struck. `AtRest` is silent after a `tone()` was `overtaken`,
`DurationExact` of a count that is `torn`, `Exclusive` and `BusRestored` once a handler was
`letIn` and of the bits `changed`, the second half of `SwitchSafe` if `disturbed`,
`TransmissionFaithful` of the order if `disturbed`, `RingSound` of what a flush removes while
`overrun`, `TouchUndone` of the watchdog of a touch that was `disturbed`. Each of these is set
by the steps that do the damage and by no others, and section 5 names the property
that shows the damage.

All proofs go the same way. None of the properties is inductive: each says what
is true between calls, or of what a call returns. The invariant adds, part by part,
what each position inside a call knows (the value it loaded, what the handlers
may have changed since) and what the hardware may be doing meanwhile; for each action
one step shows which part it can disturb.

| Module | About | Theorems | Premises |
|---|---|---|---|
| `HardwareSerial_proofs` | HardwareSerial | `TypeCorrect` (`TypeOK`), `ReceiveCorrect` (`ReceiveInOrder`), `AvailableCorrect` (`PromisedBytesAreThere`), `DropCorrect` (`DropOnlyWhenFull`) | |
| | | `TransmitCorrect` (`TransmitSafe`), `PortCorrect` (`SerialPort` without its fairness) | `~ReBegin` |
| `Timers_proofs` | Timer0 | `ClockTypeCorrect`, `MillisCorrect` (`MillisExact`), `MillisUntorn` (`MillisNotTorn`), `MicrosCorrect` (`MicrosExact`), `DelayCorrect` (`DelayExact`) | |
| | Tone | `ToneCorrect` (`AtRest`) | |
| | | `DurationCorrect` (`DurationExact`) | `Fits` |
| `Twi_proofs` | Twi | `WriteCorrect` (`WriteTruthful`), `ReadCorrect` (`ReadTruthful`), `SlaveCorrect` (`SlaveTruthful`) | `[]Alone` |
| | | `ReleaseCorrect` (`BusReleased`) | `[]Alone`, `~ZeroRead` |
| | | `AloneHolds`: `[]Alone` itself | `~Addressed` or `Calls = {}` |
| `Wire_proofs` | Wire | `ReadCorrect` (`ReadsFaithful`), `TransmissionCorrect` (`TransmissionFaithful`) | |
| `Usb_proofs` | UsbSerial | `SendCorrect` (`SendInOrder`), `TransferCorrect` (`TransferEnds`), `ReceiveCorrect` (`ReceiveInOrder`) | |
| | Bridge | `RingCorrect` (`RingSound`) | |
| `SoftwareSerial_proofs` | SoftwareSerial | `SwitchCorrect` (`SwitchSafe`), `RingCorrect` (`RingFaithful`) | |
| `Spi_proofs` | Spi | `ExclusiveCorrect` (`Exclusive`), `RestoredCorrect` (`BusRestored`) | `MaxRefs < Byte` |
| `Bootloaders_proofs` | Optiboot | `BootCorrect` (`BootSafe`) | |
| | AutoReset | `TouchCorrect` (`TouchUndone`), `ProgramCorrect` (`RightProgram`) | |

The names of Tone, Bridge and AutoReset have prefixes where they would meet those
of the module that is proved about in the same place (Timer0, UsbSerial, Optiboot).

**HardwareSerial.** The receive side rests on `RxInv`. `TypeOK` alone is not
inductive: `todo` must be non-empty where its head is used and a local have been
set where it is returned (`LocalInv`, with `CallInv` tying the position to the
call). `RxRingInv` says that the ring from the tail on holds exactly the unread
bytes, and `RxCallInv` what each call learned before a handler came between: the
head it loaded can only be behind, the byte it loaded is still the oldest. The
modulus is taken out first: `SuccForm`, `FillForm`, `RingForm`, `PushForm` and
`PopForm` turn the ring's arithmetic into case distinctions.

The transmit side adds `TxInv`. `RankInv` numbers the bytes on the line, in the
two registers and in the ring without a gap. `UdrieInv` is what the code relies
on: the interrupt is on exactly while the ring holds something, except between
`write()`'s last two stores. `TxcInv` says of which byte TXC speaks, `WriteInv` how
far `write()` has got, `ClosedInv` that a port is drained when it is closed, and
`CreditInv` that promised room is there. `PortCorrect` is the step simulation:
each step of the port maps to one of `SerialPort` or to a stutter. With `ReBegin` the
copy of UCSRB may be stale, and `ClosedInv` and `UdrieInv` break.

**Timer0.** `MillisInv` keeps the quotient that the counter has lost in wrapping
as an existential. `ClockInv` counts an overflow once, whether handled or pending;
`SampleInv` holds it between the three loads of `micros()`, and is where `Latency`
is needed: a pending overflow can only be before the load of TCNT0 or, if the
count was the last one, after it. `DelayInv` says that `start` is the first look
plus the milliseconds taken off, modulo a word, and that the lag behind the clock
stays below a word: that is what `LookWithin` and `LookAgain` are for.

**Tone.** `RestInv` says who has the slot, the timer and the pin at each step
(`OwnerInv`, `LevelInv`), how far the timer has been set (`TimerInv`), and that
a tone that plays was asked for (`CalledInv`). The old tone may go on playing, and end,
under a `tone()` on its pin: only `SlotInv`, what the handler can find in the slot, holds
then (`overtaken`), and nothing once memory is `struck`.
`CountInv` carries the count through its two stores, between which the old tone may
count down what is there (`torn`). `Fits` says that every tone asked for fits the types
of the arithmetic.

**Twi.** One invariant (`Inv`) for a node that is master and slave by turns. `PhaseInv`
lists what the hardware and the bus can be doing in each state of the driver: nothing,
a start asked for, a byte on its way, an event not yet handled, a stop that did not
come, a call from another master (`Summoned`), or its transfer (`Serving`), from which
a call of this node's own is still kept out. `ProgressInv` ties the index to what the
device was given or gave; `EndedInv` and `TruthInv` carry that to what is returned, and
to the end of any transfer of another master in between. `ListenInv` and `AnswerInv`
relate the slave's index to the bytes taken and supplied. `SlaveKept` says of all the
steps of the node's own transfers that they leave these alone. Bus errors and time-outs
may strike in any phase. The premise is not for the proof's ease: without it the run
`twi_addressed_while_writing` refutes `WriteTruthful`, since another master's event
takes `twi_state` from a call that has just claimed it. It is met by a node that is only
a master or only a slave (`AloneHolds`). Reading no byte wraps the length (`ZeroRead`);
then what is returned is still true, but the buffer is not kept.

**Wire.** `RxInv` says that `rxBuffer` holds, from index to length, what is left of
one transfer; `TurnInv` that nothing below index, length or a loaded register is of
an older transmission; `OwnInv` that it is what `write()` accepted, as long as no
request came between; `TxRangeInv` that index and length stay in the buffer, up to the store that would not.

**UsbSerial.** `FlightInv` says that what is in the released banks and in the one
being filled continues what the host has seen and ends with what `USB_Send()` has
counted; `LastInv` that what the host gets last after a complete write is short;
`CopyInv` what the lock and the wait loop know of the bank's room; `ReceiveInv` the
same for the other direction. What `FlattenSeq` computes is needed for every number
of banks. It is recursive; `JoinsExist`, `JoinsAgree`, `FlattenAppend` and `FlattenHead`
prove it from the least element of a set of naturals (`NatLeast`, `Induction`).

**Bridge.** Until the ring is overrun, `Counted` is the distance between the pointers and
the number of the slots that are `stored` (`IndexInv`, `CountInv`), and the loop's cached
copy is never above it. Where the size divides the values of the count the distance
stays right modulo the size, overrun or not. `WindowInv` is why an overrun then heals: the slots
behind `In` hold the last bytes received whatever the count says. Of a ring of another
size nothing is claimed from an overrun until it has been seen empty.

**SoftwareSerial.** `CallInv` ties `active_object` to the position of the call, and
`MaskInv` says that an undisturbed change of hands has no pin on and no change pending
while it lasts; with that the handler cannot see a half. That the listener's pin is on holds
disturbed or not, since a late `recv()` can only set masks. `RingInv` says that the ring holds the
listener's bytes, numbered on.

**Spi.** `RegisteredInv` says that a transaction keeps out all that is registered,
`GuardInv` that what it took away is what is saved, but for the bits `changed` since,
`AloneInv` that a handler comes only between transactions of others. They hold until
`letIn`; `ReferenceInv`, that the count is that of the open `begin()` calls, needs the premise.

**Optiboot.** `SpmInv` says that only the page of the command is ever being erased or
written, and that it is one of the suspects; `BufferInv` and `PageInv` follow its
bytes from the host through the buffers into flash; `StoreInv` and `FlashFaithful`
keep the other pages. A reset can come at any step, since each part speaks of suspects.

**AutoReset.** `KeyInv` says that the key is in its word exactly while a touch asks for
a reset that the sketch has not written over, and where the sketch's own word is meanwhile;
`SettingInv` that the setting saved is the sketch's unless the touch was `disturbed`, and
`CauseInv` that what the bootloader decides on was put there by the reset it follows.
`ProgramCorrect` is a property of the deciding step.

**Only model-checked.** Liveness: `AllBytesSent`, the fairness that `ImplementsPort`
promises, `DelayReturns`, `CallsReturn` of Twi and of UsbSerial, `ReadyAgain`, `ToneEnds`, `TouchResets`,
`BootEnds`, `Delivered`, `Flushed` and `RunsTheSketch`. They need fairness and
enabledness, which are out of this prover's reach.

## 5. Where code and comments disagree

Three runs reproduce one each:

- `twi_addressed_while_writing` (`WriteTruthful`): `twi_writeTo()` waits `while (TWI_MTX ==
  twi_state)`. When another master wins and addresses this node the state
  becomes a slave's, the wait ends, no error was set and the call returns 0,
  "success", with nothing sent (`twi.c:315`).
- `tone_restarted` (`PlayingConfigured`): `tone()` on the pin that is playing finds the timer
  configured, "if we're already using the pin, the timer should be configured"
  (`Tone.cpp:131`). If the old tone then runs out, its handler frees the slot and
  puts the timer back to PWM, and the new tone is played by a timer in the wrong mode.
- `bridge_overrun` (`MinimumStored`): the receive interrupt inserts without the test for a
  full ring that `LightweightRingBuff.h:119` asks for (`Arduino-usbserial.c:227`). The count
  then exceeds what the ring holds, and the loop removes more bytes than "may safely be
  performed" by `RingBuffer_GetCount()` (`LightweightRingBuff.h:100`).

The next ones are properties of the modules, each under the heading "What the comments
say, and the code does not do" with the comment it quotes, and no run checks them. Named as the
INVARIANT or PROPERTY of the component's configuration, TLC shows the trace.

| Property | Module, configuration | What goes wrong |
|---|---|---|
| `StopStops` | Tone, `Timers.cfg` | An overtaken `tone()` plays on a timer whose slot is free: `noTone()` on its pin finds no slot and leaves the timer running (`Tone.cpp:485`) |
| `RestartedExact` | Tone, `Timers.cfg` | The handler counts down half of the old count and half of the new one: the restarted tone has another length (`Tone.cpp:388`) |
| `EndsItsPin` | Tone, `Timers.cfg` | A tone ends with its slot free already: the handler's `noTone(255)` reads the pin tables out of range and clears bits of some byte (`Tone.cpp:554`, `:494`) |
| `RepeatedCancelled` | AutoReset, `Cdc.cfg` | The second close at 1200 baud overwrites `wdtcsr_save` with the watchdog of the first; called off, the board resets all the same (`CDC.cpp:140`) |
| `OverwrittenCancelled` | AutoReset, `Cdc.cfg` | The sketch writes over the key of an old bootloader; the next line state finds no key and does not take the touch back, and the watchdog stays on (`CDC.cpp:143`) |
| `RetimedRestored` | AutoReset, `Cdc.cfg` | The sketch sets its watchdog under a touch; called off, the setting from before the touch is put back (`CDC.cpp:155`) |
| `BootTimesOut` | AutoReset, `Cdc.cfg` | A host silent in the middle of a command keeps the bootloader for ever: the waits know only a pulled cable, and a block is received with the timer's interrupt off (`Caterina.c:411`, `:302`) |
| `StoppedDisabled` | SoftwareSerial, `SoftwareSerial.cfg` | A change latched before the mask goes off is served after it; `recv()` of a port that is being stopped sets the mask again, and it stays on (`SoftwareSerial.cpp:189`) |
| `ReceiverWhole` | SoftwareSerial, `SoftwareSerial.cfg` | Such a change, or one of a pin that others use, served between the two stores of `active_object`: the handler follows half of one pointer and half of another (`:99`) |
| `ConflictsPrevented` | Spi, `Spi.cfg` | The last `end()` forgets the mode but not the mask, and registered handlers are no longer kept out after the next `begin()` (`SPI.cpp:75`); a handler attached inside a transaction is not kept out either |
| `AttachedEnabled` | Spi, `Spi.cfg` | An interrupt attached inside a transaction is lost at its end, which puts EIMSK back (`SPI.h:276`) |
| `RepliesToMaster` | Wire, `Wire.cfg` | A request callback while a transmission is being built finds `transmitting` set: its `write()` goes into the sketch's buffer, is sent as part of the transmission, and the other master gets nothing (`Wire.cpp:242`) |
| `StoresInBounds` | Wire, `Wire.cfg` | Run between the two resets of `beginTransmission()`, the callback leaves the index at the end and the length at 0: the next `write()` tests the length and stores at the index (`Wire.cpp:245`, `:250`) |
| `AlwaysReadyAgain` | Twi, `Twi.cfg` | After more bytes than the buffer holds, `twi_reply(0)` answers the refused byte and takes TWEA away; the node hears nothing any more and `twi_state` stays `TWI_SRX`, so the next master call waits for ever unless a time-out is set (`twi.c:618`). `ReadyAgain` leaves it out by `SR_DATA_NACK` |

Others are seen by changing a constant of a passing configuration, or say nothing
against a sentence of the documentation:

- `ReBegin = TRUE` in `serial`: `begin()` on an open port edits UCSRB by a load
  and a store. A handler in between makes the copy stale, and its interrupt is
  enabled again over an empty ring; over a full one it is disabled, and `write()`
  waits for ever (`HardwareSerial.cpp:149`). `TransmitSafe` and
  `ImplementsPort` fail.
- `Lengths` with 0 in `twi`: reading no bytes makes the length wrap, and the buffer
  is overrun (`twi.c:183`); `BusReleased`, which holds the type invariant, fails.
- The role `racing`: a start requested while a slave interrupt is pending clears it
  (`twi.c:310`); `SlaveTruthful` fails.
- The first byte too many for a slave has been acknowledged when the handler finds
  no room for it: it is dropped although the sender saw it taken (`twi.c:600`).
- A tone above 32 767 Hz: `2 * frequency` wraps (`Tone.cpp:352`); with a frequency
  of 5 among `ShortTones` and `IntWord` 8 `DurationExact` fails.
- `MaxRefs` above `Byte`: 256 calls of `begin()` wrap the count (`SPI.cpp:62`);
  `BusRestored` fails.
- `TouchResets` without its premise fails: `wdt_reset()` in the sketch (`CDC.cpp:141`).
- A sketch that writes over the key also keeps a touch from its bootloader: the reset
  comes, and starts the sketch again (`Caterina.c:124`); `RightProgram` says so.
- `USB_Send()` waits 250 times in all, not since the last progress, and returns -1
  for a write of which only the final empty packet is missing (`USBCore.cpp:288`).
- `flush()` of the USB port acts on whichever endpoint an interrupt has selected
  meanwhile (`USBCore.cpp:665`); `SendInOrder` holds all the same.
- An empty packet from the host would never be released by `USB_Recv()`
  (`USBCore.cpp:243`): the model's host sends none.
- `begin()` on a SoftwareSerial port that listens sets its delays to 0 for a while and
  may garble the byte received then (`SoftwareSerial.cpp:306`); `RingFaithful` allows it.
- `RingBuffer_InitBuffer()` does not reset `Count` (`LightweightRingBuff.h:85`); it is
  called once.
- optiboot fills a page buffer of full size from a partial page: the rest is what
  the RAM held (`optiboot.c:426`). A page that was being programmed when the board was
  reset is not looked at before the sketch starts, and neither addresses nor
  lengths are checked (`optiboot.c:382`).
- An erase after the time-out has run out lets `main()` jump to erased flash, which
  runs on into the bootloader (`Caterina.c:148`); `Leave` has both outcomes.

## 6. What is not modelled

- *Vendored, generated, binary*: the AVR32 framework, lwIP and the WiFi library of
  the shield, `wifi_dnld`, LUFA, hex files, drivers, board tables. Code under them is
  the environment at most.
- *Register access without history*: pins, analog conversion, pulses, shifts, EEPROM
  cells. One lookup and one store; timing is in cycles, which a model of steps has
  no use for. The same holds for `delayMicroseconds()`.
- *Text*: Print, String, IPAddress, parsing of numbers.
- *Within modelled parts*: frame formats and baud rates of the serial port; the
  choice of prescalers in Tone and its other timers; transfers of SPI; bit rates,
  slave addresses and general calls of the two-wire bus; the bytes of Caterina's
  blocks and its USB traffic; `setClock()` and the time-out settings of Wire, which go
  straight to the driver; the rest of the control requests, descriptors, suspend and
  wake-up of USB; sending and the sampling of bits in SoftwareSerial; the line
  coding of the bridge and its ring to the USART but for the count; optiboot's
  skipped commands, software UART and virtual boot partition.
- *Other bootloaders*: stk500v2 and the older ones program a page in the steps of
  optiboot; what differs is the framing. The DFU bootloader is built on a library
  that is not here.
- *The shield's connection manager and sockets*: driven by callbacks of a library
  that is present as a binary only; when it calls, and what it may refuse, would
  be guesses (`wl_cm.c:279` is where one of them would matter).
- *Wire composed with Twi*: `Wire` takes the driver as its environment, with every
  outcome that `Twi` allows and the services at any time.

## 7. Plan

Done: what a sketch shares with interrupts, in the core and in the libraries, and
two programs of the boards, the bridge and a bootloader. What is left to model, in
the order of what matters most: the message parser and block writes of stk500v2
(`stk500boot.c:723`, `:997`, `:1013`) and Caterina's blocks; `findMulti()` against
the definition of a substring (`Stream.cpp:255`); PluggableUSB's list
(`PluggableUSB.cpp:75`, `:83`); the function table of WInterrupts in two bytes
(`WInterrupts.c:71`).

Proofs: all safety properties of the models have theirs, under the premises of
section 4. What is left is to prove more than the runs ask: a driver of `Wire` that is
`Twi` and not its environment; the same for what the plan adds.

To run a check: `tlc -config Timers.cfg MCTimers`; a proof:
`tlapm Timers_proofs.tla`. `PROJECT.json` lists every run with its module and
configuration, and for each definition of a model the lines it stands for.

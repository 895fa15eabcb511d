-------------------------------- MODULE Tone --------------------------------
(***************************************************************************)
(* tone() and noTone(), cores/arduino/Tone.cpp, on timer 2: the one slot   *)
(* tone_pins[0], the sketch's two calls in the steps that the compare-     *)
(* match handler can separate, and the handler.                            *)
(*                                                                         *)
(* The four bytes of timer2_toggle_count are two of Byte values each.  A   *)
(* prescaler and a compare value stand for the frequency they are computed *)
(* from.  When the timer matches is left open: the handler may run at any  *)
(* moment its interrupt is enabled.                                        *)
(***************************************************************************)
EXTENDS Integers, FiniteSets

CONSTANTS
  Pins,          \* digital pins
  Tones,         \* what tone() is asked: [frequency, duration], 0 for ever
  IntWord,       \* the number of values of an unsigned int
  Byte,          \* of half of the toggle count
  PerSecond      \* 1000

NoPin == 255
Long == Byte * Byte
Forever == Long - 1                    \* -1
Negative(count) == 2 * count >= Long

ASSUME ToneAssumption ==
  /\ NoPin \notin Pins
  /\ Tones \subseteq [frequency : Nat \ {0}, duration : Nat]
  /\ IntWord \in Nat \ {0} /\ Byte \in Nat \ {0, 1} /\ PerSecond \in Nat \ {0}

VARIABLES
  tone_pins,     \* the pin that has the timer, or NoPin
  timer2,        \* mode, prescaler, compare value, interrupt enabled
  pin,           \* timer2_pin_port and timer2_pin_mask
  toggle_count,
  level,         \* what each pin puts out
  at, arg, want, \* the sketch's call: its pin and its tone
  called,        \* history: pins whose last call was tone()
  playing,       \* history: the tone started last
  played,        \* history: how often it has toggled its pin, up to Long
  torn,          \* history: the handler ran between the stores of its count
  overtaken,     \* history: the handler has ended a tone() under way
  struck         \* history: a write has gone astray into memory, from where
                 \* on nothing is said

toneCall == <<at, arg, want>>
mishaps == <<torn, overtaken, struck>>
toneVars == <<tone_pins, timer2, pin, toggle_count, level, toneCall, called,
              playing, played, mishaps>>

\* 2 * frequency * duration / 1000: the product of the two ints is an unsigned
\* int, the rest an unsigned long.
ToggleCount(t) ==
  IF t.duration = 0 THEN Forever
  ELSE ((((2 * t.frequency) % IntWord) * t.duration) % Long) \div PerSecond

TimerOff == [mode |-> "pwm", prescaler |-> 0, ocr |-> 0, ocie |-> FALSE]

-----------------------------------------------------------------------------
(* The sketch's calls.                                                     *)

Continue(p) == at' = p /\ UNCHANGED <<arg, want>>
HistoryKept == UNCHANGED <<called, playing, played, mishaps>>

\* On any pin, one that is playing included: "new play() called".
CallTone(p, t) ==
  /\ at = "idle"
  /\ at' = "begin" /\ arg' = p /\ want' = t /\ called' = called \cup {p}
  /\ UNCHANGED <<tone_pins, timer2, pin, toggle_count, level, playing, played,
                 mishaps>>

CallNoTone(p) ==
  /\ at = "idle" /\ at' = "release" /\ arg' = p /\ called' = called \ {p}
  /\ UNCHANGED <<tone_pins, timer2, pin, toggle_count, level, want, playing,
                 played, mishaps>>

\* toneBegin(): "if we're already using the pin, the timer should be
\* configured".
Begin ==
  /\ at = "begin"
  /\ Continue(IF tone_pins = arg THEN "prescale" ELSE "search")
  /\ HistoryKept /\ UNCHANGED <<tone_pins, timer2, pin, toggle_count, level>>

\* "search for an unused timer"; without one the tone is not played.
Search ==
  /\ at = "search"
  /\ IF tone_pins = NoPin
     THEN tone_pins' = arg /\ Continue("configure")
     ELSE UNCHANGED tone_pins /\ Continue("idle")
  /\ HistoryKept /\ UNCHANGED <<timer2, pin, toggle_count, level>>

Configure ==
  /\ at = "configure" /\ Continue("prescale")
  /\ timer2' = [timer2 EXCEPT !.mode = "ctc", !.prescaler = 0]
  /\ pin' = arg
  /\ HistoryKept /\ UNCHANGED <<tone_pins, toggle_count, level>>

Prescale ==
  /\ at = "prescale" /\ Continue("compare")
  /\ timer2' = [timer2 EXCEPT !.prescaler = want.frequency]
  /\ HistoryKept /\ UNCHANGED <<tone_pins, pin, toggle_count, level>>

Compare ==
  /\ at = "compare" /\ Continue("countLow")
  /\ timer2' = [timer2 EXCEPT !.ocr = want.frequency]
  /\ HistoryKept /\ UNCHANGED <<tone_pins, pin, toggle_count, level>>

LowByte(count) == count % Byte

CountLow ==
  /\ at = "countLow" /\ Continue("countHigh")
  /\ toggle_count' =
       (toggle_count \div Byte) * Byte + LowByte(ToggleCount(want))
  /\ torn' = FALSE
  /\ UNCHANGED <<tone_pins, timer2, pin, level, called, playing, played,
                 overtaken, struck>>

CountHigh ==
  /\ at = "countHigh" /\ Continue("enable")
  /\ toggle_count' =
       (ToggleCount(want) \div Byte) * Byte + (toggle_count % Byte)
  /\ playing' = want /\ played' = 0
  /\ UNCHANGED <<tone_pins, timer2, pin, level, called, mishaps>>

Enable ==
  /\ at = "enable" /\ Continue("idle")
  /\ timer2' = [timer2 EXCEPT !.ocie = TRUE]
  /\ HistoryKept /\ UNCHANGED <<tone_pins, pin, toggle_count, level>>

\* noTone(): the slot is given up first, then the timer, then the pin.
Release ==
  /\ at = "release"
  /\ IF tone_pins = arg
     THEN tone_pins' = NoPin /\ Continue("disable")
     ELSE UNCHANGED tone_pins /\ Continue("low")
  /\ HistoryKept /\ UNCHANGED <<timer2, pin, toggle_count, level>>

\* disableTimer(): once the interrupt is off the handler cannot come between.
Disabled_KeepsInterrupt == [TimerOff EXCEPT !.ocie = timer2.ocie]
Disabled == TimerOff

Disable ==
  /\ at = "disable" /\ Continue("low") /\ timer2' = Disabled
  /\ HistoryKept /\ UNCHANGED <<tone_pins, pin, toggle_count, level>>

Low ==
  /\ at = "low" /\ Continue("idle") /\ level' = [level EXCEPT ![arg] = 0]
  /\ HistoryKept /\ UNCHANGED <<tone_pins, timer2, pin, toggle_count>>

-----------------------------------------------------------------------------
(* ISR(TIMER2_COMPA_vect).                                                 *)

CountDown_StopsAtOne(count) ==
  IF count > 1 /\ ~Negative(count) THEN count - 1 ELSE count
CountDown(count) ==
  IF count > 0 /\ ~Negative(count) THEN count - 1 ELSE count

Over_AtOne(count) == count \in {0, 1}
Over(count) == count = 0

Toggle ==
  /\ timer2.ocie /\ ~Over(toggle_count)
  /\ level' = IF pin \in Pins THEN [level EXCEPT ![pin] = 1 - @] ELSE level
  /\ toggle_count' = CountDown(toggle_count)
  /\ played' = IF Negative(toggle_count) \/ played = Long THEN played
                ELSE played + 1
  /\ torn' = (torn \/ at = "countHigh")
  /\ UNCHANGED <<tone_pins, timer2, pin, toneCall, called, playing, overtaken,
                 struck>>

\* noTone(tone_pins[0]) always finds its own argument in the slot, even NoPin.
Freed(slot) == NoPin

\* digitalWrite(pin, 0).
Lowered ==
  /\ level' = [level EXCEPT ![tone_pins] = 0]
  /\ UNCHANGED <<pin, toggle_count, struck>> /\ tone_pins' = Freed(tone_pins)

\* digitalWrite(255, 0): the port and the mask are read behind the ends of
\* their tables, so that some bits of some byte are cleared: of none that
\* matters here, of an output port, or of memory.  What it may clear in timer
\* 2's registers, Configure sets anew.
Astray ==
  /\ tone_pins' = Freed(tone_pins) /\ UNCHANGED <<pin, toggle_count>>
  /\ \/ /\ level' \in [Pins -> {0, 1}] /\ \A p \in Pins : level'[p] <= level[p]
        /\ UNCHANGED struck
     \/ UNCHANGED level /\ struck' = TRUE

\* tone() under way, once it has found its slot.
Setting == {"configure", "prescale", "compare", "countLow", "countHigh", "enable"}

\* noTone(tone_pins[0]).  The slot may be free: noTone() has freed it and not
\* stopped the timer yet, or this tone() was overtaken when it was called.
End ==
  /\ timer2.ocie /\ Over(toggle_count) /\ timer2' = TimerOff
  /\ IF tone_pins \in Pins THEN Lowered ELSE Astray
  /\ overtaken' = (overtaken \/ at \in Setting)
  /\ UNCHANGED <<toneCall, called, playing, played, torn>>

-----------------------------------------------------------------------------
ToneInit ==
  /\ tone_pins = NoPin /\ timer2 = TimerOff /\ pin = NoPin /\ toggle_count = 0
  /\ level = [p \in Pins |-> 0]
  /\ at = "idle" /\ arg = NoPin /\ want = [frequency |-> 0, duration |-> 0]
  /\ called = {} /\ playing = want /\ played = 0
  /\ torn = FALSE /\ overtaken = FALSE /\ struck = FALSE

Running ==
  \/ Begin \/ Search \/ Configure \/ Prescale \/ Compare \/ CountLow
  \/ CountHigh \/ Enable \/ Release \/ Disable \/ Low
Handler == Toggle \/ End

ToneStep ==
  \/ Running \/ Handler
  \/ \E p \in Pins : CallNoTone(p) \/ \E t \in Tones : CallTone(p, t)

\* Memory has been struck: the program may do anything.
ToneNext == IF struck THEN UNCHANGED toneVars ELSE ToneStep

ToneSpec == ToneInit /\ [][ToneNext]_toneVars

\* The timer matches again and again, and a call keeps running.
ToneFairSpec == ToneSpec /\ WF_toneVars(Running) /\ WF_toneVars(Handler)
-----------------------------------------------------------------------------
(* Properties.                                                             *)

ToneTypeOK ==
  /\ tone_pins \in Pins \cup {NoPin} /\ pin \in Pins \cup {NoPin}
  /\ toggle_count \in 0 .. Long - 1 /\ level \in [Pins -> {0, 1}]
  /\ timer2.mode \in {"pwm", "ctc"} /\ timer2.ocie \in BOOLEAN
  /\ called \subseteq Pins /\ played \in 0 .. Long
  /\ torn \in BOOLEAN /\ overtaken \in BOOLEAN /\ struck \in BOOLEAN

\* A pin is toggled only between tone() and noTone() on it, and is left low:
\* noTone() cannot leave a tone playing, whatever the handler does meanwhile.
Silenced ==
  at = "idle" =>
    \A p \in Pins :
      IF timer2.ocie /\ pin = p THEN p \in called ELSE level[p] = 0

\* "if we're already using the pin, the timer should be configured": a tone is
\* played by a timer in its mode, at its frequency, on the pin in the slot, and
\* the slot is free again when its tone has ended, for the next one.
TimerSet ==
  at = "idle" =>
    IF timer2.ocie
    THEN /\ tone_pins = pin
         /\ timer2 = [mode |-> "ctc", prescaler |-> playing.frequency,
                     ocr |-> playing.frequency, ocie |-> TRUE]
    ELSE tone_pins = NoPin

\* Between calls the pins, the slot and the timer agree, tones started anew on
\* their pin included: only when the old tone ended under the new tone(), or
\* when a write has gone astray, may they not (PlayingConfigured).
AtRest == ToneTypeOK /\ (~overtaken /\ ~struck => Silenced /\ TimerSet)

\* "frequency (in hertz) and duration (in milliseconds)": a tone that was left
\* to itself has ended after so many toggles, and one without a duration never,
\* unless the old tone toggled its pin between the stores of the new count.
DurationExact ==
  at = "idle" /\ ~timer2.ocie /\ pin \in called /\ ~torn /\ ~struck =>
    /\ playing.duration # 0
    /\ played = (2 * playing.frequency * playing.duration) \div PerSecond

\* A tone with a duration ends, or another is played in its place, although
\* the handler may have counted down half of its count.
ToneEnds ==
  timer2.ocie /\ playing.duration # 0 /\ at = "idle"
    ~> ~timer2.ocie \/ at = "countLow" \/ struck

-----------------------------------------------------------------------------
(* What the comments say, and the code does not do.                        *)

\* Tone.cpp:131, "if we're already using the pin, the timer should be
\* configured": a tone is played by a timer in tone()'s mode.
PlayingConfigured == at = "idle" /\ timer2.ocie => timer2.mode = "ctc"

\* Tone.cpp:57, "infinitely (until stop() method called, or new play()
\* called)": noTone() on the pin that is playing stops the timer.
StopStops == at = "idle" /\ timer2.ocie => pin \in called

\* Tone.cpp:241, "frequency (in hertz) and duration (in milliseconds)": of a
\* tone() on a pin that is playing too, its count stored under the handler.
RestartedExact ==
  at = "idle" /\ ~timer2.ocie /\ pin \in called /\ ~overtaken /\ ~struck =>
    played = (2 * playing.frequency * playing.duration) \div PerSecond

\* Tone.cpp:551, "need to call noTone() so that the tone_pins[] entry is
\* reset": a tone that ends finds its pin in the slot.
EndsItsPin == [][End => tone_pins = pin]_toneVars
=============================================================================

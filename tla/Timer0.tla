------------------------------- MODULE Timer0 -------------------------------
(***************************************************************************)
(* The clock of the core: timer 0, its overflow handler, millis(),         *)
(* micros() and delay().                                                   *)
(*                                                                         *)
(* The timer keeps counting while the sketch runs, interrupts on or off;   *)
(* an overflow raises TOV0 and the handler clears it when it is let in.    *)
(* Counters are Word values wide, as unsigned long is 2^32; a load of one  *)
(* takes several instructions and is split in two here.                    *)
(*                                                                         *)
(* History: now is the number of ticks since power-on and handled the      *)
(* number of times the handler ran, neither of them wrapping; sampled is   *)
(* the tick at which the current call last read TCNT0, begun the tick at   *)
(* which delay() first did and asked its argument; before is handled when  *)
(* the current call started.                                               *)
(***************************************************************************)
EXTENDS Integers

CONSTANTS
  Period,     \* ticks per overflow (256)
  TickUs,     \* microseconds per tick: 64 / clockCyclesPerMicrosecond()
  PerMilli,   \* microseconds per millisecond (1000)
  FractUnit,  \* what timer0_fract counts in (8 microseconds: ">> 3")
  Word,       \* 2^32
  Half,       \* what one of the two loads of a counter holds
  Latency,    \* an overflow is handled before the timer has counted this far
  LookWithin, \* a call that has started reads TCNT0 within this many ticks,
  LookAgain,  \* and the inner loop of delay() again within this many
  MaxTicks,   \* bound: ticks
  Delays      \* the arguments given to delay()

OverflowUs == Period * TickUs            \* MICROSECONDS_PER_TIMER0_OVERFLOW
MillisInc  == OverflowUs \div PerMilli   \* MILLIS_INC
FractInc   == (OverflowUs % PerMilli) \div FractUnit
FractMax   == PerMilli \div FractUnit

\* "this doesn't lose precision": the units divide what they count.
ASSUME ClockAssumption ==
  /\ Period \in Nat /\ Period >= 2 /\ TickUs \in Nat /\ TickUs >= 1
  /\ PerMilli \in Nat /\ FractUnit \in Nat /\ FractUnit >= 1
  /\ FractMax >= 1 /\ PerMilli = FractMax * FractUnit
  /\ OverflowUs = MillisInc * PerMilli + FractInc * FractUnit
  /\ MillisInc \in Nat /\ FractInc \in 0 .. FractMax - 1
ASSUME WordAssumption ==
  /\ Word \in Nat /\ Half \in 1 .. Word
  /\ LookWithin \in Nat \ {0} /\ LookWithin * TickUs + PerMilli <= Word
  /\ LookAgain \in Nat \ {0} /\ LookAgain * TickUs <= PerMilli
ASSUME BoundAssumption ==
  /\ Latency \in 1 .. Period - 2 /\ MaxTicks \in Nat /\ Delays \subseteq Nat

VARIABLES
  tcnt, tov, ie,                       \* TCNT0, TIFR0.TOV0, SREG.I
  timer0_overflow_count, timer0_millis, timer0_fract,
  call, pc, m, t, start, ms, ret,      \* the sketch's call and its locals
  now, handled, sampled, begun, asked, before      \* history

timer == <<tcnt, tov, now>>
handler == <<timer0_overflow_count, timer0_millis, timer0_fract, handled>>
delayLocals == <<start, ms, begun, asked>>
sketch == <<call, pc, m, t, ret, sampled, before, delayLocals>>
vars == <<timer, ie, handler, sketch>>

-----------------------------------------------------------------------------
(* The timer and its handler.                                              *)

\* The timer ticks.  Assumed of the rest of the program: interrupts are not
\* kept off for longer than Latency, and a call that has started, its yield()
\* included, reads TCNT0 within LookWithin.  The loads of TCNT0 and TIFR0 are
\* adjacent instructions: less than 64 cycles, so at most one tick, between.
Patience == IF call = "catchingUp" THEN LookAgain ELSE LookWithin
InTime == /\ tov => tcnt + 1 < Latency
          /\ pc # "idle" => now < sampled + Patience
          /\ pc = "tifr" => now = sampled

Tick ==
  /\ now < MaxTicks /\ InTime
  /\ now' = now + 1
  /\ tcnt' = (tcnt + 1) % Period
  /\ tov' = (tov \/ tcnt = Period - 1)
  /\ UNCHANGED <<ie, handler, sketch>>

AtomicSection_None == {}
AtomicSection == {"tcnt", "tifr", "millisHigh"}
Masked == ~ie \/ pc \in AtomicSection

\* The body of the handler: whole milliseconds, and a carry out of the rest.
Carry_Late(f) == f > FractMax
Carry(f) == f >= FractMax

CountOverflow ==
  LET f == timer0_fract + FractInc
      carry == IF Carry(f) THEN 1 ELSE 0
  IN  /\ timer0_fract' = f - carry * FractMax
      /\ timer0_millis' = (timer0_millis + MillisInc + carry) % Word

\* ISR(TIMER0_OVF_vect).
OverflowInterrupt ==
  /\ tov /\ ~Masked
  /\ tov' = FALSE
  /\ CountOverflow
  /\ timer0_overflow_count' = (timer0_overflow_count + 1) % Word
  /\ handled' = handled + 1
  /\ UNCHANGED <<tcnt, now, ie, sketch>>

-----------------------------------------------------------------------------
(* The sketch.                                                             *)

Idle == pc = "idle"
Goto(p) == pc' = p /\ UNCHANGED <<timer, ie, handler>>

\* delay() is only called with interrupts on: without the handler the count
\* it waits for does not advance.
StartCall(c, n) ==
  /\ Idle /\ (c = "delay" => ie)
  /\ Goto(IF c = "millis" THEN "millis" ELSE "micros")
  /\ call' = c /\ ms' = n /\ asked' = n
  /\ before' = handled /\ sampled' = now /\ begun' = now
  /\ m' = 0 /\ t' = 0 /\ start' = 0 /\ ret' = 0

SetI(b) == Idle /\ ie' = b /\ UNCHANGED <<timer, handler, sketch>>

\* millis(): the loads of a counter, inside the section with interrupts off.
MillisLow ==
  /\ pc = "millis" /\ Goto("millisHigh")
  /\ m' = timer0_millis % Half
  /\ UNCHANGED <<call, t, ret, sampled, before, delayLocals>>

MillisHigh ==
  /\ pc = "millisHigh" /\ Goto("idle")
  /\ ret' = (timer0_millis \div Half) * Half + m
  /\ UNCHANGED <<call, m, t, sampled, before, delayLocals>>

\* micros(): the overflow count, then TCNT0, then TIFR0, with interrupts off.
MicrosCount ==
  /\ pc = "micros" /\ Goto("tcnt")
  /\ m' = timer0_overflow_count
  /\ UNCHANGED <<call, t, ret, sampled, before, delayLocals>>

MicrosTcnt ==
  /\ pc = "tcnt" /\ Goto("tifr")
  /\ t' = tcnt /\ sampled' = now
  /\ UNCHANGED <<call, m, ret, before, delayLocals>>

\* An overflow that is pending is counted, unless TCNT0 was read as its last
\* count: then the overflow came after that.
Pending_NoLastCount(count) == tov
Pending(count) == tov /\ count < Period - 1

Micros ==
  (((IF Pending(t) THEN m + 1 ELSE m) * Period + t) * TickUs) % Word

MicrosTifr ==
  /\ pc = "tifr" /\ call = "micros" /\ Goto("idle")
  /\ ret' = Micros
  /\ UNCHANGED <<call, m, t, sampled, before, delayLocals>>

\* delay(): the first call of micros() sets start; each later one takes off a
\* millisecond once it has gone by.
DelayStart ==
  /\ pc = "tifr" /\ call = "delay" /\ Goto("loop")
  /\ call' = "delaying" /\ start' = Micros /\ begun' = sampled
  /\ UNCHANGED <<m, t, ms, ret, sampled, before, asked>>

MilliGone_NoWrap(clock) == clock >= (start + PerMilli) % Word
MilliGone(clock) == (clock - start) % Word >= PerMilli

NextMilli_FromNow(clock) == clock
NextMilli(clock) == (start + PerMilli) % Word

\* call tells the two loops apart: after a look that took a millisecond off
\* the inner loop looks again, without the yield() of the outer one.
Delaying == call \in {"delaying", "catchingUp"}

DelayTest ==
  /\ pc = "tifr" /\ Delaying /\ Goto("loop")
  /\ IF MilliGone(Micros)
     THEN call' = "catchingUp" /\ ms' = ms - 1 /\ start' = NextMilli(Micros)
     ELSE call' = "delaying" /\ UNCHANGED <<ms, start>>
  /\ UNCHANGED <<m, t, ret, sampled, before, begun, asked>>

\* Both loops test ms; yield() does nothing but can be interrupted.
DelayLoop ==
  /\ pc = "loop" /\ Goto(IF ms > 0 THEN "micros" ELSE "idle")
  /\ UNCHANGED <<call, m, t, ret, sampled, before, delayLocals>>

-----------------------------------------------------------------------------
Init ==
  /\ tcnt = 0 /\ tov = FALSE /\ ie = TRUE
  /\ timer0_overflow_count = 0 /\ timer0_millis = 0 /\ timer0_fract = 0
  /\ call = "none" /\ pc = "idle"
  /\ m = 0 /\ t = 0 /\ start = 0 /\ ms = 0 /\ ret = 0
  /\ now = 0 /\ handled = 0 /\ sampled = 0 /\ begun = 0 /\ asked = 0
  /\ before = 0

SketchStep ==
  \/ MillisLow \/ MillisHigh \/ MicrosCount \/ MicrosTcnt \/ MicrosTifr
  \/ DelayStart \/ DelayTest \/ DelayLoop

Next ==
  \/ Tick \/ OverflowInterrupt \/ SketchStep
  \/ StartCall("millis", 0) \/ StartCall("micros", 0)
  \/ \E n \in Delays : StartCall("delay", n)
  \/ \E b \in BOOLEAN : SetI(b)

Spec == Init /\ [][Next]_vars

\* Time passes and a call that has started keeps running.  A pending overflow
\* gets in although the loop of delay() keeps switching interrupts off: the
\* processor looks for it after every section.
FairSpec == Spec /\ WF_vars(Tick) /\ SF_vars(OverflowInterrupt)
                 /\ WF_vars(SketchStep)

-----------------------------------------------------------------------------
(* Properties.                                                             *)

TypeOK ==
  /\ tcnt \in 0 .. Period - 1 /\ tov \in BOOLEAN /\ ie \in BOOLEAN
  /\ timer0_overflow_count \in 0 .. Word - 1 /\ timer0_millis \in 0 .. Word - 1
  /\ timer0_fract \in 0 .. FractMax - 1
  /\ call \in {"none", "millis", "micros", "delay", "delaying",
              "catchingUp"}
  /\ pc \in {"idle", "millis", "millisHigh", "micros", "tcnt", "tifr", "loop"}
  /\ m \in 0 .. Word - 1 /\ t \in 0 .. Period - 1 /\ start \in 0 .. Word - 1
  /\ ms \in Nat /\ ret \in Nat /\ asked \in Nat /\ before \in Nat
  /\ now \in Nat /\ handled \in Nat /\ sampled \in Nat /\ begun \in Nat

\* timer0_millis is the whole milliseconds of the overflows handled, to the
\* unit, for ever: the carry out of timer0_fract makes the scaled remainder
\* exact ("this doesn't lose precision"), across the wrap of the counter; and
\* no counter of the clock, or value loaded from one, leaves its width.
MillisAt(n) == ((n * OverflowUs) \div PerMilli) % Word
MillisExact ==
  /\ TypeOK
  /\ timer0_millis = MillisAt(handled)
  /\ timer0_fract * FractUnit = (handled * OverflowUs) % PerMilli

\* What millis() returns is a value timer0_millis had during the call, never
\* one put together from two of them ("we might get an inconsistent value").
MillisNotTorn ==
  Idle /\ call = "millis" => \E n \in before .. handled : ret = MillisAt(n)

\* micros() is the time at which TCNT0 was read, whether or not an overflow
\* was pending then or happens between its loads: it never jumps by a period.
MicrosExact ==
  Idle /\ call = "micros" => ret = (sampled * TickUs) % Word

\* Each look of delay() at the clock takes a millisecond off exactly when that
\* many have gone by since the first look: no millisecond is counted early,
\* and a late look makes the next one no later, across the wrap of micros().
Gone == (sampled - begun) * TickUs
DelayExact ==
  [][pc = "tifr" /\ pc' = "loop" /\ Delaying =>
       (ms' < ms <=> Gone >= (asked - ms + 1) * PerMilli)]_vars

\* delay() returns, when the bound on ticks leaves it the time.
DelayUnderWay ==
  /\ Delaying /\ pc = "loop"
  /\ (now + LookWithin) * TickUs + ms * PerMilli <= MaxTicks * TickUs
DelayReturns == DelayUnderWay ~> Idle
=============================================================================

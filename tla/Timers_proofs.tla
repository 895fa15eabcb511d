---------------------------- MODULE Timers_proofs ----------------------------
(***************************************************************************)
(* Proofs about the two timers the core shares with a sketch.              *)
(*                                                                         *)
(* Timer0, for every period, word width, clock rate whose units divide     *)
(* exactly, and bound: ClockInv relates the ticks since power-on to the    *)
(* overflows handled, the one pending and the timer, so no overflow is     *)
(* lost or counted twice; the other parts relate each counter and each     *)
(* local to that time.                                                     *)
(*                                                                         *)
(* Tone, on timer 2, for every set of pins and tones:                      *)
(* OwnerInv says who has the slot, the timer and the pin at each step of   *)
(* the sketch's call, SlotInv what is left of that when the handler has    *)
(* ended a tone under tone(), and CountInv what is left of the tone that   *)
(* plays.                                                                  *)
(***************************************************************************)
EXTENDS Timer0, Tone, TLAPS

-----------------------------------------------------------------------------
(* Division with remainder.                                                *)

\* A number is its quotient and its remainder.
LEMMA DivModForm ==
  ASSUME NEW W \in Nat, W >= 1, NEW a \in Int
  PROVE  /\ a = (a \div W) * W + (a % W)
         /\ a % W \in 0 .. W - 1 /\ a \div W \in Int
OBVIOUS

\* They are the only ones.
LEMMA DivModUnique ==
  ASSUME NEW W \in Nat, W >= 1, NEW q \in Int, NEW r \in 0 .. W - 1
  PROVE  (q * W + r) % W = r /\ (q * W + r) \div W = q
OBVIOUS

\* Whole words do not show in a remainder.
LEMMA ModShift ==
  ASSUME NEW W \in Nat, W >= 1, NEW q \in Int, NEW a \in Int
  PROVE  (a + q * W) % W = a % W
<1> DEFINE k == a \div W
           r == a % W
<1>1. k \in Int /\ r \in 0 .. W - 1 /\ a = k * W + r  BY DivModForm
<1> HIDE DEF k, r
<1>2. a + q * W = (k + q) * W + r  BY <1>1
<1>3. ((k + q) * W + r) % W = r  BY <1>1, DivModUnique
<1>4. (k * W + r) % W = r  BY <1>1, DivModUnique
<1> QED  BY <1>1, <1>2, <1>3, <1>4

\* Arithmetic on a wrapped counter wraps to the same value.
LEMMA ModScale ==
  ASSUME NEW W \in Nat, W >= 1, NEW x \in Int, NEW c \in Int, NEW d \in Int
  PROVE  ((x % W) * c + d) % W = (x * c + d) % W
<1> DEFINE k == x \div W
           r == x % W
<1>1. k \in Int /\ r \in 0 .. W - 1 /\ x = k * W + r  BY DivModForm
<1> HIDE DEF k, r
<1>2. x * c + d = (r * c + d) + (k * c) * W  BY <1>1
<1>3. ((r * c + d) + (k * c) * W) % W = (r * c + d) % W
  <2>1. r * c + d \in Int /\ k * c \in Int  BY <1>1
  <2> QED  BY <2>1, ModShift
<1> QED  BY <1>2, <1>3 DEF r

\* The one case the handler needs: adding to a wrapped counter.
LEMMA ModPlus ==
  ASSUME NEW W \in Nat, W >= 1, NEW x \in Int, NEW d \in Int
  PROVE  ((x % W) + d) % W = (x + d) % W
<1> DEFINE k == x \div W
           r == x % W
<1>1. k \in Int /\ r \in 0 .. W - 1 /\ x = k * W + r  BY DivModForm
<1> HIDE DEF k, r
<1>2. x + d = (r + d) + k * W  BY <1>1
<1>3. ((r + d) + k * W) % W = (r + d) % W
  <2>1. r + d \in Int  BY <1>1
  <2> QED  BY <1>1, <2>1, ModShift
<1> QED  BY <1>2, <1>3 DEF r

\* What the assumptions say of the constants the definitions derive.
LEMMA Derived ==
  /\ Period \in Nat /\ Period >= 2 /\ TickUs \in Nat /\ TickUs >= 1
  /\ OverflowUs \in Nat /\ MillisInc \in Nat /\ PerMilli \in Nat
  /\ FractUnit \in Nat /\ FractUnit >= 1 /\ FractMax \in Nat /\ FractMax >= 1
  /\ FractInc \in 0 .. FractMax - 1
  /\ PerMilli = FractMax * FractUnit /\ PerMilli >= 1
  /\ OverflowUs = MillisInc * PerMilli + FractInc * FractUnit
  /\ Word \in Nat /\ Word >= 1 /\ Half \in Nat /\ Half >= 1
  /\ Latency \in 1 .. Period - 2 /\ Delays \subseteq Nat
  /\ LookWithin \in Nat /\ LookWithin >= 1
  /\ LookWithin * TickUs + PerMilli <= Word
  /\ LookAgain \in Nat /\ LookAgain >= 1 /\ LookAgain * TickUs <= PerMilli
<1>1. FractMax \in Nat
  BY ClockAssumption, DivModForm DEF FractMax
<1>2. OverflowUs \in Nat  BY ClockAssumption DEF OverflowUs
<1>3. PerMilli >= 1  BY <1>1, ClockAssumption
<1> QED  BY <1>1, <1>2, <1>3, ClockAssumption, WordAssumption, BoundAssumption

-----------------------------------------------------------------------------
(* The type invariant.                                                     *)

\* delay() looks at the clock only while it has a millisecond to take off.
LoopInv == Delaying /\ pc \in {"micros", "tcnt", "tifr"} => ms >= 1

\* micros() returns a word.
LEMMA MicrosType == TypeOK => Micros \in 0 .. Word - 1
<1> SUFFICES ASSUME TypeOK PROVE Micros \in 0 .. Word - 1  OBVIOUS
<1> DEFINE a == ((IF Pending(t) THEN m + 1 ELSE m) * Period + t) * TickUs
<1>1. m \in Nat /\ t \in Nat  BY Derived DEF TypeOK
<1>2. (IF Pending(t) THEN m + 1 ELSE m) \in Nat  BY <1>1
<1>3. a \in Int  BY <1>1, <1>2, Derived
<1> HIDE DEF a
<1>4. a % Word \in 0 .. Word - 1  BY <1>3, Derived, DivModForm
<1> QED  BY <1>4 DEF Micros, a

\* The timer's flag and count, and the handler's counters, stay in range.
LEMMA ClockTypeStep == TypeOK /\ [Next]_vars =>
  /\ tcnt' \in 0 .. Period - 1 /\ tov' \in BOOLEAN /\ ie' \in BOOLEAN
  /\ timer0_overflow_count' \in 0 .. Word - 1
  /\ timer0_millis' \in 0 .. Word - 1 /\ timer0_fract' \in 0 .. FractMax - 1
  /\ now' \in Nat /\ handled' \in Nat
<1> SUFFICES ASSUME TypeOK, [Next]_vars
             PROVE  /\ tcnt' \in 0 .. Period - 1 /\ tov' \in BOOLEAN
                    /\ ie' \in BOOLEAN
                    /\ timer0_overflow_count' \in 0 .. Word - 1
                    /\ timer0_millis' \in 0 .. Word - 1
                    /\ timer0_fract' \in 0 .. FractMax - 1
                    /\ now' \in Nat /\ handled' \in Nat
    OBVIOUS
<1>0. /\ tcnt \in 0 .. Period - 1 /\ tov \in BOOLEAN /\ ie \in BOOLEAN
      /\ timer0_overflow_count \in 0 .. Word - 1
      /\ timer0_millis \in 0 .. Word - 1 /\ timer0_fract \in 0 .. FractMax - 1
      /\ now \in Nat /\ handled \in Nat
  BY DEF TypeOK
<1>1. CASE Tick
  <2>1. (tcnt + 1) % Period \in 0 .. Period - 1
    BY <1>0, Derived, DivModForm
  <2> QED  BY <1>0, <1>1, <2>1, Derived DEF Tick, handler
<1>2. CASE OverflowInterrupt
  <2> DEFINE f == timer0_fract + FractInc
             carry == IF Carry(f) THEN 1 ELSE 0
  <2>1. carry \in 0 .. 1  OBVIOUS
  <2>2. f - carry * FractMax \in 0 .. FractMax - 1
    BY <1>0, Derived DEF Carry
  <2>3. timer0_millis + MillisInc + carry \in Int  BY <1>0, <2>1, Derived
  <2>4. (timer0_millis + MillisInc + carry) % Word \in 0 .. Word - 1
    BY <2>3, Derived, DivModForm
  <2>5. (timer0_overflow_count + 1) % Word \in 0 .. Word - 1
    BY <1>0, Derived, DivModForm
  <2>6. /\ timer0_fract' = f - carry * FractMax
        /\ timer0_millis' = (timer0_millis + MillisInc + carry) % Word
    BY <1>2 DEF OverflowInterrupt, CountOverflow
  <2> HIDE DEF f, carry
  <2>7. /\ timer0_fract' \in 0 .. FractMax - 1
        /\ timer0_millis' \in 0 .. Word - 1
    BY <2>2, <2>4, <2>6
  <2>8. tov' \in BOOLEAN /\ ie' \in BOOLEAN
    BY <1>0, <1>2, Zenon DEF OverflowInterrupt
  <2>9. /\ handled' = handled + 1
        /\ timer0_overflow_count' = (timer0_overflow_count + 1) % Word
        /\ UNCHANGED <<tcnt, now>>
    BY <1>2 DEF OverflowInterrupt
  <2>10. handled' \in Nat  BY <1>0, <2>9
  <2> QED  BY <1>0, <2>5, <2>7, <2>8, <2>9, <2>10, Zenon
<1>3. CASE UNCHANGED <<timer, handler>> /\ ie' \in BOOLEAN
  BY <1>0, <1>3 DEF timer, handler
<1>4. ASSUME SketchStep \/ (\E c \in {"millis", "micros"} : StartCall(c, 0))
             \/ (\E n \in Delays : StartCall("delay", n))
             \/ (\E b \in BOOLEAN : SetI(b)) \/ UNCHANGED vars
      PROVE  UNCHANGED <<timer, handler>> /\ ie' \in BOOLEAN
  BY <1>0, <1>4 DEF SketchStep, StartCall, SetI, Goto, MillisLow, MillisHigh,
     MicrosCount, MicrosTcnt, MicrosTifr, DelayStart, DelayTest, DelayLoop,
     vars, timer, handler
<1> QED  BY <1>1, <1>2, <1>3, <1>4 DEF Next

\* The sketch's locals stay in range, and delay() enters its inner loop only
\* with a millisecond to take off.
LEMMA SketchTypeStep == TypeOK /\ LoopInv /\ [Next]_vars =>
  /\ LoopInv'
  /\ call' \in {"none", "millis", "micros", "delay", "delaying", "catchingUp"}
  /\ pc' \in {"idle", "millis", "millisHigh", "micros", "tcnt", "tifr", "loop"}
  /\ m' \in 0 .. Word - 1 /\ t' \in 0 .. Period - 1 /\ start' \in 0 .. Word - 1
  /\ ms' \in Nat /\ ret' \in Nat /\ asked' \in Nat /\ before' \in Nat
  /\ sampled' \in Nat /\ begun' \in Nat
<1> DEFINE Locals ==
      /\ call \in {"none", "millis", "micros", "delay", "delaying", "catchingUp"}
      /\ pc \in {"idle", "millis", "millisHigh", "micros", "tcnt", "tifr", "loop"}
      /\ m \in 0 .. Word - 1 /\ t \in 0 .. Period - 1
      /\ start \in 0 .. Word - 1
      /\ ms \in Nat /\ ret \in Nat /\ asked \in Nat /\ before \in Nat
      /\ sampled \in Nat /\ begun \in Nat
<1> SUFFICES ASSUME TypeOK, LoopInv, [Next]_vars PROVE LoopInv' /\ Locals'
    OBVIOUS
<1>0. /\ Locals /\ now \in Nat /\ handled \in Nat
      /\ timer0_millis \in Nat /\ tcnt \in 0 .. Period - 1
      /\ timer0_overflow_count \in 0 .. Word - 1
      /\ Delays \subseteq Nat /\ Word \in Nat /\ Word >= 1 /\ Period >= 1
      /\ Period \in Nat /\ Half \in 1 .. Word /\ PerMilli \in Nat
  BY Derived, WordAssumption DEF TypeOK
<1>1. CASE UNCHANGED sketch
  BY <1>0, <1>1 DEF sketch, delayLocals, LoopInv, Delaying
<1>2. ASSUME NEW c \in {"millis", "micros", "delay"}, NEW n \in Nat,
             StartCall(c, n)
      PROVE  LoopInv' /\ Locals'
  BY <1>0, <1>2 DEF StartCall, Goto, LoopInv, Delaying
<1>3. CASE MillisLow
  <2>1. timer0_millis % Half \in 0 .. Word - 1  BY <1>0
  <2> QED  BY <1>0, <1>3, <2>1
           DEF MillisLow, Goto, delayLocals, LoopInv, Delaying
<1>4. CASE MillisHigh
  <2>1. (timer0_millis \div Half) * Half + m \in Nat
    <3>1. timer0_millis \div Half \in Nat  BY <1>0
    <3> QED  BY <1>0, <3>1
  <2> QED  BY <1>0, <1>4, <2>1
           DEF MillisHigh, Goto, delayLocals, LoopInv, Delaying
<1>5. CASE MicrosCount
  BY <1>0, <1>5 DEF MicrosCount, Goto, delayLocals, LoopInv, Delaying
<1>6. CASE MicrosTcnt
  BY <1>0, <1>6 DEF MicrosTcnt, Goto, delayLocals, LoopInv, Delaying
<1>7. CASE MicrosTifr
  BY <1>0, <1>7, MicrosType
     DEF MicrosTifr, Goto, delayLocals, LoopInv, Delaying
<1>8. CASE DelayStart
  BY <1>0, <1>8, MicrosType DEF DelayStart, Goto, LoopInv, Delaying
<1>9. CASE DelayTest
  <2>1. (start + PerMilli) % Word \in 0 .. Word - 1  BY <1>0
  <2>2. ms >= 1  BY <1>9 DEF DelayTest, LoopInv
  <2> QED  BY <1>0, <1>9, <2>1, <2>2
           DEF DelayTest, NextMilli, Goto, LoopInv, Delaying
<1>10. CASE DelayLoop
  BY <1>0, <1>10 DEF DelayLoop, Goto, delayLocals, LoopInv, Delaying
<1>11. ASSUME Tick \/ OverflowInterrupt \/ (\E b \in BOOLEAN : SetI(b))
              \/ UNCHANGED vars
       PROVE  UNCHANGED sketch
  BY <1>11 DEF Tick, OverflowInterrupt, SetI, vars
<1> HIDE DEF Locals
<1> QED
  BY <1>0, <1>1, <1>2, <1>3, <1>4, <1>5, <1>6, <1>7, <1>8, <1>9, <1>10, <1>11
  DEF Next, SketchStep

\* The type invariant is preserved.
LEMMA TypeStep == TypeOK /\ LoopInv /\ [Next]_vars => TypeOK' /\ LoopInv'
BY ClockTypeStep, SketchTypeStep DEF TypeOK

LEMMA TypeInit == Init => TypeOK /\ LoopInv
<1> SUFFICES ASSUME Init PROVE TypeOK /\ LoopInv  OBVIOUS
<1>1. 0 \in 0 .. Period - 1 /\ 0 \in 0 .. Word - 1 /\ 0 \in 0 .. FractMax - 1
  BY Derived
<1>2. LoopInv  BY DEF Init, LoopInv, Delaying
<1>3. TypeOK  BY <1>1 DEF Init, TypeOK
<1> QED  BY <1>2, <1>3

\* Every counter of the clock stays inside its width and every local of its
\* calls inside its type; in particular delay() never takes a millisecond off
\* an ms that is 0 already.
THEOREM ClockTypeCorrect == Spec => []TypeOK
<1>1. Init => TypeOK /\ LoopInv  BY TypeInit
<1>2. (TypeOK /\ LoopInv) /\ [Next]_vars => (TypeOK /\ LoopInv)'  BY TypeStep
<1> QED  BY <1>1, <1>2, PTL DEF Spec
-----------------------------------------------------------------------------
(* The clock.                                                              *)

Overflows == handled + (IF tov THEN 1 ELSE 0)

\* The ticks since power-on are the overflows handled, the one pending and
\* what the timer shows, and a pending one is young.
ClockInv ==
  /\ now = Overflows * Period + tcnt
  /\ tov => tcnt < Latency
  /\ timer0_overflow_count = handled % Word

\* timer0_millis and timer0_fract are what the overflows handled add up to.
MillisInv ==
  \E n \in Nat : /\ handled * OverflowUs = n * PerMilli
                                             + timer0_fract * FractUnit
                 /\ timer0_millis = n % Word

LEMMA ClockStep == TypeOK /\ ClockInv /\ [Next]_vars => ClockInv'
<1> SUFFICES ASSUME TypeOK, ClockInv, [Next]_vars PROVE ClockInv'  OBVIOUS
<1>0. /\ tcnt \in 0 .. Period - 1 /\ handled \in Nat /\ tov \in BOOLEAN
      /\ now \in Nat /\ Period \in Nat /\ Latency \in 1 .. Period - 2
      /\ Word \in Nat /\ Word >= 1
      /\ timer0_overflow_count = handled % Word
  BY Derived DEF TypeOK, ClockInv
<1>1. CASE Tick
  <2>1. CASE tcnt = Period - 1
    <3>1. ~tov  BY <1>0, <2>1 DEF ClockInv
    <3>a. (Period - 1 + 1) % Period = 0  BY <1>0
    <3>b. tov'  BY <1>1, <2>1, Zenon DEF Tick
    <3>2. tov' /\ tcnt' = 0 /\ now' = now + 1 /\ handled' = handled
      BY <1>0, <1>1, <2>1, <3>a, <3>b DEF Tick, handler
    <3>3. now = handled * Period + (Period - 1)
      BY <1>0, <2>1, <3>1 DEF ClockInv, Overflows
    <3>4. now + 1 = (handled + 1) * Period  BY <1>0, <3>3
    <3> QED  BY <1>0, <1>1, <3>2, <3>4 DEF ClockInv, Overflows, Tick, handler
  <2>2. CASE tcnt # Period - 1
    <3>1. tcnt' = tcnt + 1
      BY <1>0, <1>1, <2>2 DEF Tick
    <3>2. now' = now + 1 /\ handled' = handled /\ tov' = tov
      BY <1>0, <1>1, <2>2 DEF Tick, handler
    <3>3. tov => tcnt + 1 < Latency  BY <1>1 DEF Tick, InTime
    <3> QED
      BY <1>0, <1>1, <3>1, <3>2, <3>3 DEF ClockInv, Overflows, Tick, handler
  <2> QED  BY <2>1, <2>2
<1>2. CASE OverflowInterrupt
  <2>1. tov /\ tov' = FALSE /\ handled' = handled + 1
        /\ UNCHANGED <<tcnt, now>>
        /\ timer0_overflow_count' = (timer0_overflow_count + 1) % Word
    BY <1>2 DEF OverflowInterrupt
  <2>2. ((handled % Word) + 1) % Word = (handled + 1) % Word
    <3>1. handled \in Int /\ 1 \in Int  BY <1>0
    <3> QED  BY <1>0, <3>1, ModPlus, Zenon
  <2> QED  BY <1>0, <2>1, <2>2 DEF ClockInv, Overflows
<1>3. ASSUME SketchStep \/ (\E c \in {"millis", "micros"} : StartCall(c, 0))
             \/ (\E n \in Delays : StartCall("delay", n))
             \/ (\E b \in BOOLEAN : SetI(b)) \/ UNCHANGED vars
      PROVE  UNCHANGED <<timer, handler>>
  BY <1>3 DEF SketchStep, StartCall, SetI, Goto, MillisLow, MillisHigh,
     MicrosCount, MicrosTcnt, MicrosTifr, DelayStart, DelayTest, DelayLoop,
     vars
<1>4. UNCHANGED <<timer, handler>> => ClockInv'
  BY DEF timer, handler, ClockInv, Overflows
<1> QED  BY <1>1, <1>2, <1>3, <1>4 DEF Next

LEMMA MillisStep == TypeOK /\ MillisInv /\ [Next]_vars => MillisInv'
<1> SUFFICES ASSUME TypeOK, MillisInv, [Next]_vars PROVE MillisInv'  OBVIOUS
<1>1. CASE OverflowInterrupt
  <2>1. PICK n \in Nat :
          /\ handled * OverflowUs = n * PerMilli + timer0_fract * FractUnit
          /\ timer0_millis = n % Word
    BY DEF MillisInv
  <2> DEFINE f == timer0_fract + FractInc
             carry == IF Carry(f) THEN 1 ELSE 0
             after == n + MillisInc + carry
  <2>2. carry \in 0 .. 1  OBVIOUS
  <2>3. /\ timer0_fract' = f - carry * FractMax
        /\ timer0_millis' = (timer0_millis + MillisInc + carry) % Word
        /\ handled' = handled + 1
    BY <1>1 DEF OverflowInterrupt, CountOverflow
  <2> HIDE DEF carry
  <2>4. timer0_fract \in Nat /\ handled \in Nat  BY DEF TypeOK
  <2>5. after \in Nat  BY <2>2, Derived
  <2>6. (handled + 1) * OverflowUs = handled * OverflowUs + OverflowUs
    BY <2>4, Derived
  <2>7. (n + MillisInc + carry) * PerMilli
          = n * PerMilli + MillisInc * PerMilli + carry * PerMilli
    BY <2>2, Derived
  <2>8. (f - carry * FractMax) * FractUnit
          = timer0_fract * FractUnit + FractInc * FractUnit
              - carry * PerMilli
    <3>1. CASE carry = 0  BY <3>1, <2>4, Derived
    <3>2. CASE carry = 1  BY <3>2, <2>4, Derived
    <3> QED  BY <2>2, <3>1, <3>2
  <2>9. handled' * OverflowUs = after * PerMilli + timer0_fract' * FractUnit
    <3> DEFINE A == n * PerMilli
               B == timer0_fract * FractUnit
               C == MillisInc * PerMilli
               D == carry * PerMilli
               E == FractInc * FractUnit
    <3>1. A \in Int /\ B \in Int /\ C \in Int /\ D \in Int /\ E \in Int
      BY <2>2, <2>4, Derived
    <3>2. handled * OverflowUs = A + B /\ OverflowUs = C + E
      BY <2>1, Derived
    <3>3. after * PerMilli = A + C + D  BY <2>7
    <3>4. timer0_fract' * FractUnit = B + E - D  BY <2>3, <2>8
    <3>5. handled' * OverflowUs = (A + B) + (C + E)  BY <2>3, <2>6, <3>2
    <3> HIDE DEF A, B, C, D, E
    <3> QED  BY <3>1, <3>3, <3>4, <3>5
  <2>10. timer0_millis' = after % Word
    <3>1. ((n % Word) + (MillisInc + carry)) % Word
            = (n + (MillisInc + carry)) % Word
      <4>1. n \in Int /\ MillisInc + carry \in Int  BY <2>2, Derived
      <4>2. Word \in Nat /\ Word >= 1  BY Derived
      <4> QED  BY <4>1, <4>2, ModPlus, Zenon
    <3>2. n % Word \in Int  BY Derived, DivModForm
    <3> QED  BY <2>1, <2>2, <2>3, <3>1, <3>2, Derived
  <2> HIDE DEF after
  <2> QED  BY <2>5, <2>9, <2>10 DEF MillisInv
<1>2. ASSUME Tick \/ SketchStep
             \/ (\E c \in {"millis", "micros"} : StartCall(c, 0))
             \/ (\E n \in Delays : StartCall("delay", n))
             \/ (\E b \in BOOLEAN : SetI(b)) \/ UNCHANGED vars
      PROVE  UNCHANGED handler
  BY <1>2 DEF Tick, SketchStep, StartCall, SetI, Goto, MillisLow, MillisHigh,
     MicrosCount, MicrosTcnt, MicrosTifr, DelayStart, DelayTest, DelayLoop,
     vars
<1>3. UNCHANGED handler => MillisInv'  BY DEF handler, MillisInv
<1> QED  BY <1>1, <1>2, <1>3 DEF Next

\* The sum form gives the quotient and the remainder the property states.
LEMMA MillisForm == TypeOK /\ MillisInv => MillisExact
<1> SUFFICES ASSUME TypeOK, MillisInv PROVE MillisExact  OBVIOUS
<1>1. PICK n \in Nat :
        /\ handled * OverflowUs = n * PerMilli + timer0_fract * FractUnit
        /\ timer0_millis = n % Word
  BY DEF MillisInv
<1> DEFINE r == timer0_fract * FractUnit
<1>2. r \in 0 .. PerMilli - 1
  <2>1. timer0_fract \in Nat /\ timer0_fract <= FractMax - 1
    BY Derived DEF TypeOK
  <2>2. timer0_fract * FractUnit <= (FractMax - 1) * FractUnit
    BY <2>1, Derived
  <2>3. (FractMax - 1) * FractUnit = PerMilli - FractUnit  BY Derived
  <2> QED  BY <2>1, <2>2, <2>3, Derived
<1> HIDE DEF r
<1>3. (n * PerMilli + r) % PerMilli = r /\ (n * PerMilli + r) \div PerMilli = n
  BY <1>2, Derived, DivModUnique
<1> QED  BY <1>1, <1>3 DEF MillisExact, MillisAt, r

LEMMA ClockInit == Init => ClockInv /\ MillisInv
<1> SUFFICES ASSUME Init PROVE ClockInv /\ MillisInv  OBVIOUS
<1>1. 0 % Word = 0  BY Derived
<1>2. ClockInv  BY <1>1, Derived DEF Init, ClockInv, Overflows
<1>3. handled * OverflowUs = 0 * PerMilli + timer0_fract * FractUnit
  BY Derived DEF Init
<1>4. MillisInv  BY <1>1, <1>3 DEF Init, MillisInv
<1> QED  BY <1>2, <1>4

\* timer0_millis is exact for ever: whole milliseconds of the overflows
\* handled, and the rest of them in timer0_fract, at every clock rate whose
\* units divide what they count; and every counter keeps its width.
THEOREM MillisCorrect == Spec => []MillisExact
<1> DEFINE I == TypeOK /\ LoopInv /\ MillisInv
<1>1. Init => I  BY TypeInit, ClockInit
<1>2. I /\ [Next]_vars => I'  BY TypeStep, MillisStep
<1>3. I => MillisExact  BY MillisForm
<1> QED  BY <1>1, <1>2, <1>3, PTL DEF Spec
-----------------------------------------------------------------------------
(* Reading the clock.                                                      *)

\* The difference of two wrapped times that are less than a word apart.
LEMMA ModDifference ==
  ASSUME NEW W \in Nat, W >= 1, NEW a \in Int, NEW b \in Int,
         a - b \in 0 .. W - 1
  PROVE  ((a % W) - (b % W)) % W = a - b
<1> DEFINE ka == a \div W
           ra == a % W
           kb == b \div W
           rb == b % W
<1>1. ka \in Int /\ ra \in 0 .. W - 1 /\ a = ka * W + ra  BY DivModForm
<1>2. kb \in Int /\ rb \in 0 .. W - 1 /\ b = kb * W + rb  BY DivModForm
<1> HIDE DEF ka, ra, kb, rb
<1>3. ra - rb = (a - b) + (kb - ka) * W  BY <1>1, <1>2
<1>4. ((a - b) + (kb - ka) * W) % W = (a - b) % W
  <2>1. a - b \in Int /\ kb - ka \in Int  BY <1>1, <1>2
  <2> QED  BY <2>1, ModShift
<1>5. (0 * W + (a - b)) % W = a - b  BY DivModUnique
<1> QED  BY <1>3, <1>4, <1>5 DEF ra, rb

\* Each program point belongs to its calls.
PathInv ==
  /\ pc \in {"millis", "millisHigh"} => call = "millis"
  /\ pc \in {"micros", "tcnt", "tifr"} => call \in {"micros", "delay"} \/ Delaying
  /\ pc = "loop" => Delaying

\* Between its loads micros() holds the count of the overflows handled and
\* the time at which it read TCNT0.
SampledAt == (handled + (IF Pending(t) THEN 1 ELSE 0)) * Period + t
SampleInv ==
  /\ pc \in {"tcnt", "tifr"} => m = timer0_overflow_count
  /\ pc = "tifr" => /\ sampled = SampledAt
                    /\ now = sampled => t = tcnt
                    /\ now <= sampled + 1

LEMMA PathStep == PathInv /\ [Next]_vars => PathInv'
<1> SUFFICES ASSUME PathInv, [Next]_vars PROVE PathInv'  OBVIOUS
<1>1. CASE UNCHANGED <<pc, call>>  BY <1>1 DEF PathInv, Delaying
<1>2. ASSUME NEW c \in {"millis", "micros", "delay"}, NEW n, StartCall(c, n)
      PROVE  PathInv'
  BY <1>2 DEF StartCall, Goto, PathInv, Delaying
<1>3. CASE SketchStep
  BY <1>3 DEF SketchStep, MillisLow, MillisHigh, MicrosCount, MicrosTcnt,
     MicrosTifr, DelayStart, DelayTest, DelayLoop, Goto, PathInv, Delaying
<1>4. ASSUME Tick \/ OverflowInterrupt \/ (\E b \in BOOLEAN : SetI(b))
             \/ UNCHANGED vars
      PROVE  UNCHANGED <<pc, call>>
  BY <1>4 DEF Tick, OverflowInterrupt, SetI, vars, sketch
<1> QED  BY <1>1, <1>2, <1>3, <1>4 DEF Next

LEMMA SampleStep ==
  TypeOK /\ ClockInv /\ SampleInv /\ [Next]_vars => SampleInv'
<1> SUFFICES ASSUME TypeOK, ClockInv, SampleInv, [Next]_vars PROVE SampleInv'
    OBVIOUS
<1>0. /\ tcnt \in 0 .. Period - 1 /\ t \in 0 .. Period - 1
      /\ handled \in Nat /\ now \in Nat /\ sampled \in Nat
      /\ Period \in Nat /\ Latency \in 1 .. Period - 2
  BY Derived DEF TypeOK
<1>1. CASE Tick
  <2>1. UNCHANGED <<pc, m, t, sampled, timer0_overflow_count, handled>>
    BY <1>1 DEF Tick, sketch, handler
  <2>2. now' = now + 1  BY <1>1 DEF Tick
  <2>3. CASE pc = "tifr"
    <3>1. now = sampled /\ t = tcnt
      BY <1>1, <2>3 DEF Tick, InTime, SampleInv
    <3>2. Pending(t)' <=> Pending(t)
      <4>1. CASE t = Period - 1
        BY <1>0, <2>1, <4>1 DEF Pending
      <4>2. CASE t # Period - 1
        <5>1. tov' <=> tov  BY <1>1, <3>1, <4>2 DEF Tick
        <5> QED  BY <2>1, <5>1 DEF Pending
      <4> QED  BY <4>1, <4>2
    <3>3. SampledAt' = SampledAt  BY <2>1, <3>2 DEF SampledAt
    <3> QED  BY <1>0, <2>1, <2>2, <2>3, <3>1, <3>3 DEF SampleInv
  <2>4. CASE pc # "tifr"
    BY <2>1, <2>4 DEF SampleInv
  <2> QED  BY <2>3, <2>4
<1>2. CASE OverflowInterrupt
  BY <1>2 DEF OverflowInterrupt, Masked, AtomicSection, sketch, SampleInv
<1>3. CASE MicrosCount
  BY <1>3 DEF MicrosCount, Goto, handler, SampleInv
<1>4. CASE MicrosTcnt
  <2>1. /\ pc = "tcnt" /\ pc' = "tifr" /\ t' = tcnt /\ sampled' = now
        /\ UNCHANGED <<m, timer, handler>>
    BY <1>4 DEF MicrosTcnt, Goto
  <2>2. now = Overflows * Period + tcnt /\ (tov => tcnt < Period - 1)
    BY <1>0 DEF ClockInv
  <2>3. SampledAt' = Overflows * Period + tcnt
    BY <2>1, <2>2 DEF SampledAt, Overflows, Pending, timer, handler
  <2> QED  BY <1>0, <2>1, <2>2, <2>3 DEF SampleInv, timer, handler
<1>5. CASE UNCHANGED vars
  <2>1. UNCHANGED <<pc, m, t, sampled, now, tcnt, SampledAt,
                    timer0_overflow_count>>
    BY <1>5 DEF vars, timer, handler, sketch, SampledAt, Pending
  <2> QED  BY <2>1 DEF SampleInv
<1>6. ASSUME MillisLow \/ MillisHigh \/ MicrosTifr \/ DelayStart \/ DelayTest
             \/ DelayLoop \/ (\E c \in {"millis", "micros"} : StartCall(c, 0))
             \/ (\E n \in Delays : StartCall("delay", n))
             \/ (\E b \in BOOLEAN : SetI(b))
      PROVE  pc' \notin {"tcnt", "tifr"}
  BY <1>6 DEF MillisLow, MillisHigh, MicrosTifr, DelayStart, DelayTest,
     DelayLoop, StartCall, SetI, Goto, Idle, sketch
<1>7. pc' \notin {"tcnt", "tifr"} => SampleInv'  BY DEF SampleInv
<1> QED  BY <1>1, <1>2, <1>3, <1>4, <1>5, <1>6, <1>7 DEF Next, SketchStep

\* The wrapped arithmetic of micros() gives the time sampled, wrapped.
LEMMA MicrosValue ==
  TypeOK /\ ClockInv /\ SampleInv /\ pc = "tifr" =>
    Micros = (sampled * TickUs) % Word
<1> SUFFICES ASSUME TypeOK, ClockInv, SampleInv, pc = "tifr"
             PROVE  Micros = (sampled * TickUs) % Word
    OBVIOUS
<1> DEFINE p == IF Pending(t) THEN 1 ELSE 0
           d == (p * Period + t) * TickUs
<1>1. p \in 0 .. 1  OBVIOUS
<1>2. m = handled % Word /\ sampled = (handled + p) * Period + t
  BY DEF SampleInv, ClockInv, SampledAt
<1>3. (IF Pending(t) THEN m + 1 ELSE m) = m + p
  <2>1. m \in Nat  BY Derived DEF TypeOK
  <2> QED  BY <2>1
<1> HIDE DEF p
<1>4. m \in Nat /\ t \in Nat /\ handled \in Nat /\ Period \in Nat
      /\ TickUs \in Nat /\ Word \in Nat /\ Word >= 1
  BY Derived DEF TypeOK
<1>5. Micros = (((m + p) * Period + t) * TickUs) % Word
  BY <1>3 DEF Micros
<1>6. ((m + p) * Period + t) * TickUs = m * (Period * TickUs) + d
  BY <1>1, <1>4
<1>7. sampled * TickUs = handled * (Period * TickUs) + d
  BY <1>1, <1>2, <1>4
<1>8. d \in Int /\ Period * TickUs \in Int /\ handled \in Int
  BY <1>1, <1>4
<1> HIDE DEF d
<1>9. ((handled % Word) * (Period * TickUs) + d) % Word
        = (handled * (Period * TickUs) + d) % Word
  BY <1>4, <1>8, ModScale
<1> QED  BY <1>2, <1>5, <1>6, <1>7, <1>9

\* Only the end of micros() makes what it returns.
LEMMA MicrosStep ==
  TypeOK /\ ClockInv /\ SampleInv /\ PathInv /\ MicrosExact /\ [Next]_vars
    => MicrosExact'
<1> SUFFICES ASSUME TypeOK, ClockInv, SampleInv, PathInv, MicrosExact,
                    [Next]_vars
             PROVE  MicrosExact'
    OBVIOUS
<1>1. CASE MicrosTifr
  <2>1. /\ pc = "tifr" /\ ret' = Micros /\ UNCHANGED sampled
    BY <1>1 DEF MicrosTifr
  <2>2. Micros = (sampled * TickUs) % Word  BY <2>1, MicrosValue
  <2> QED  BY <2>1, <2>2 DEF MicrosExact
<1>2. ASSUME UNCHANGED <<pc, call, ret, sampled>> PROVE MicrosExact'
  BY <1>2 DEF MicrosExact, Idle
<1>3. ASSUME MillisLow \/ MillisHigh \/ MicrosCount \/ MicrosTcnt
             \/ DelayStart \/ DelayTest \/ DelayLoop
             \/ (\E c \in {"millis", "micros"} : StartCall(c, 0))
             \/ (\E n \in Delays : StartCall("delay", n))
      PROVE  ~(pc' = "idle" /\ call' = "micros")
  BY <1>3 DEF MillisLow, MillisHigh, MicrosCount, MicrosTcnt, DelayStart,
     DelayTest, DelayLoop, StartCall, Goto, PathInv, Delaying
<1>4. ASSUME Tick \/ OverflowInterrupt \/ (\E b \in BOOLEAN : SetI(b))
             \/ UNCHANGED vars
      PROVE  UNCHANGED <<pc, call, ret, sampled>>
  BY <1>4 DEF Tick, OverflowInterrupt, SetI, vars, sketch
<1>5. ~(pc' = "idle" /\ call' = "micros") => MicrosExact'
  BY DEF MicrosExact, Idle
<1> QED  BY <1>1, <1>2, <1>3, <1>4, <1>5 DEF Next, SketchStep

ReadInv == TypeOK /\ LoopInv /\ ClockInv /\ PathInv /\ SampleInv

LEMMA ReadInit == Init => ReadInv /\ MicrosExact
BY TypeInit, ClockInit
DEF ReadInv, Init, PathInv, SampleInv, Delaying, MicrosExact, Idle

LEMMA ReadStep == ReadInv /\ [Next]_vars => ReadInv'
BY TypeStep, ClockStep, PathStep, SampleStep DEF ReadInv

\* micros() returns the time at which it read the timer, whatever overflows
\* are pending or happen between its loads, and however often it wrapped.
THEOREM MicrosCorrect == Spec => []MicrosExact
<1> DEFINE I == ReadInv /\ MicrosExact
<1>1. Init => I  BY ReadInit
<1>2. I /\ [Next]_vars => I'  BY ReadStep, MicrosStep DEF ReadInv
<1>3. I => MicrosExact  OBVIOUS
<1> QED  BY <1>1, <1>2, <1>3, PTL DEF Spec
-----------------------------------------------------------------------------
(* millis() is not torn.                                                   *)

\* The first load of millis() stays one of the counter the second will read.
TornInv ==
  /\ call = "millis" => before <= handled
  /\ pc = "millisHigh" => m = timer0_millis % Half
  /\ MillisNotTorn

LEMMA TornStep ==
  TypeOK /\ MillisInv /\ PathInv /\ TornInv /\ [Next]_vars => TornInv'
<1> SUFFICES ASSUME TypeOK, MillisInv, PathInv, TornInv, [Next]_vars
             PROVE  TornInv'
    OBVIOUS
<1>0. handled \in Nat /\ before \in Nat  BY DEF TypeOK
<1>1. CASE OverflowInterrupt
  <2>1. /\ pc # "millisHigh" /\ handled' = handled + 1
        /\ UNCHANGED <<pc, call, ret, before>>
    BY <1>1 DEF OverflowInterrupt, Masked, AtomicSection, sketch
  <2>2. before .. handled \subseteq before .. handled + 1  BY <1>0
  <2>3. MillisNotTorn'
    BY <2>1, <2>2 DEF TornInv, MillisNotTorn, Idle, MillisAt
  <2> QED  BY <1>0, <2>1, <2>3 DEF TornInv
<1>2. CASE MillisHigh
  <2>1. timer0_millis \in Int /\ Half \in Nat /\ Half >= 1
    BY Derived DEF TypeOK
  <2>2. (timer0_millis \div Half) * Half + (timer0_millis % Half)
          = timer0_millis
    BY <2>1, DivModForm
  <2>3. /\ pc = "millisHigh" /\ pc' = "idle"
        /\ ret' = (timer0_millis \div Half) * Half + m
        /\ UNCHANGED <<call, before, handled>>
    BY <1>2 DEF MillisHigh, Goto, handler
  <2>4. call = "millis" /\ before <= handled /\ m = timer0_millis % Half
    BY <2>3 DEF PathInv, TornInv
  <2>5. ret' = MillisAt(handled)
    BY <2>2, <2>3, <2>4, MillisForm DEF MillisExact
  <2>6. handled \in before .. handled  BY <1>0, <2>4
  <2>7. MillisNotTorn'
    BY <2>3, <2>5, <2>6 DEF MillisNotTorn, MillisAt
  <2> QED  BY <2>3, <2>4, <2>7 DEF TornInv
<1>3. CASE MillisLow
  BY <1>3 DEF MillisLow, Goto, handler, TornInv, MillisNotTorn, Idle
<1>4. ASSUME NEW c \in {"millis", "micros", "delay"}, NEW n, StartCall(c, n)
      PROVE  TornInv'
  BY <1>0, <1>4 DEF StartCall, Goto, handler, TornInv, MillisNotTorn, Idle
<1>5. ASSUME MicrosCount \/ MicrosTcnt \/ MicrosTifr \/ DelayStart
             \/ DelayTest \/ DelayLoop
      PROVE  call' # "millis" /\ pc' # "millisHigh"
  BY <1>5 DEF MicrosCount, MicrosTcnt, MicrosTifr, DelayStart, DelayTest,
     DelayLoop, Goto, PathInv, Delaying
<1>6. ASSUME Tick \/ (\E b \in BOOLEAN : SetI(b)) \/ UNCHANGED vars
      PROVE  UNCHANGED <<pc, call, ret, before, m, handler>>
  BY <1>6 DEF Tick, SetI, vars, sketch
<1>7. call' # "millis" /\ pc' # "millisHigh" => TornInv'
  BY DEF TornInv, MillisNotTorn
<1>8. UNCHANGED <<pc, call, ret, before, m, handler>> => TornInv'
  BY DEF handler, TornInv, MillisNotTorn, Idle, MillisAt
<1> QED
  BY <1>1, <1>2, <1>3, <1>4, <1>5, <1>6, <1>7, <1>8 DEF Next, SketchStep

\* millis() returns a value the counter had during the call: the handler
\* never runs between the loads of its bytes.
THEOREM MillisUntorn == Spec => []MillisNotTorn
<1> DEFINE I == ReadInv /\ MillisInv /\ TornInv
<1>1. Init => I
  BY ReadInit, ClockInit DEF Init, TornInv, MillisNotTorn, Idle
<1>2. I /\ [Next]_vars => I'
  BY ReadStep, MillisStep, TornStep DEF ReadInv
<1>3. I => MillisNotTorn  BY DEF TornInv
<1> QED  BY <1>1, <1>2, <1>3, PTL DEF Spec

-----------------------------------------------------------------------------
(* delay() counts milliseconds exactly.                                    *)

\* The microseconds at the last look at the clock that are not counted yet.
Base == begun * TickUs + (asked - ms) * PerMilli
Lag == sampled * TickUs - Base
Slack == IF call = "catchingUp" THEN Word - PerMilli ELSE PerMilli

\* start is the time up to which delay() has counted, and the time not yet
\* counted fits a word at every look.
DelayInv ==
  /\ call = "delay" => ms = asked
  /\ pc # "idle" => sampled <= now /\ now <= sampled + Patience
  /\ Delaying => start = Base % Word
  /\ Delaying /\ pc \in {"loop", "micros", "tcnt"} => 0 <= Lag /\ Lag < Slack
  /\ Delaying /\ pc = "tifr" => 0 <= Lag /\ Lag < Word

LEMMA LookNumbers == TypeOK =>
  /\ sampled \in Nat /\ begun \in Nat /\ asked \in Nat /\ ms \in Nat
  /\ now \in Nat /\ Base \in Int /\ Lag \in Int /\ Patience \in Nat
  /\ Patience >= 1
  /\ Slack \in Int /\ Slack + Patience * TickUs <= Word
<1> SUFFICES ASSUME TypeOK
             PROVE  /\ sampled \in Nat /\ begun \in Nat /\ asked \in Nat
                    /\ ms \in Nat /\ now \in Nat /\ Base \in Int /\ Lag \in Int
                    /\ Patience \in Nat /\ Patience >= 1 /\ Slack \in Int
                    /\ Slack + Patience * TickUs <= Word
    OBVIOUS
<1>1. /\ sampled \in Nat /\ begun \in Nat /\ asked \in Nat /\ ms \in Nat
      /\ now \in Nat
  BY DEF TypeOK
<1>2. Base \in Int  BY <1>1, Derived DEF Base
<1>3. Lag \in Int  BY <1>1, <1>2, Derived DEF Lag
<1>4. CASE call = "catchingUp"
  BY <1>1, <1>2, <1>3, <1>4, Derived DEF Patience, Slack
<1>5. CASE call # "catchingUp"
  BY <1>1, <1>2, <1>3, <1>5, Derived DEF Patience, Slack
<1> QED  BY <1>4, <1>5

\* The wrapped test of delay() sees the time that is not counted yet.
LEMMA MilliGoneForm ==
  ReadInv /\ DelayInv /\ Delaying /\ pc = "tifr" =>
    (MilliGone(Micros) <=> Lag >= PerMilli)
<1> SUFFICES ASSUME ReadInv, DelayInv, Delaying, pc = "tifr"
             PROVE  MilliGone(Micros) <=> Lag >= PerMilli
    OBVIOUS
<1>1. Micros = (sampled * TickUs) % Word  BY MicrosValue DEF ReadInv
<1>2. start = Base % Word /\ 0 <= Lag /\ Lag < Word  BY DEF DelayInv
<1>3. /\ sampled \in Nat /\ Base \in Int /\ Lag \in Int
  BY LookNumbers DEF ReadInv
<1>4. TickUs \in Nat /\ Word \in Nat /\ Word >= 1 /\ PerMilli \in Nat
  BY Derived
<1>5. sampled * TickUs \in Int  BY <1>3, <1>4
<1>6. sampled * TickUs - Base = Lag  BY DEF Lag
<1>7. sampled * TickUs - Base \in 0 .. Word - 1  BY <1>2, <1>3, <1>4, <1>6
<1>8. (((sampled * TickUs) % Word) - (Base % Word)) % Word = Lag
  BY <1>3, <1>4, <1>5, <1>6, <1>7, ModDifference
<1> QED  BY <1>1, <1>2, <1>8 DEF MilliGone

LEMMA DelayStep == ReadInv /\ DelayInv /\ [Next]_vars => DelayInv'
<1> SUFFICES ASSUME ReadInv, DelayInv, [Next]_vars PROVE DelayInv'  OBVIOUS
<1>0. TypeOK /\ TypeOK'  BY TypeStep DEF ReadInv
<1>a. /\ sampled \in Nat /\ begun \in Nat /\ asked \in Nat /\ ms \in Nat
      /\ now \in Nat /\ Base \in Int /\ Lag \in Int /\ Patience \in Nat
      /\ Patience >= 1 /\ Slack \in Int /\ Slack + Patience * TickUs <= Word
  BY <1>0, LookNumbers
<1>b. Patience' \in Nat /\ Patience' >= 1
  BY Derived DEF Patience
<1>c. TickUs \in Nat /\ TickUs >= 1 /\ Word \in Nat /\ PerMilli \in Nat
      /\ PerMilli >= 1 /\ Word >= 1
  BY Derived
<1>1. CASE Tick
  <2>1. now' = now + 1 /\ UNCHANGED sketch
        /\ (pc # "idle" => now < sampled + Patience)
    BY <1>1 DEF Tick, InTime
  <2>2. UNCHANGED <<call, pc, ms, asked, sampled, start, Base, Lag, Slack,
                    Patience, Delaying>>
    BY <2>1 DEF sketch, delayLocals, Base, Lag, Slack, Patience, Delaying
  <2>3. pc # "idle" => sampled <= now + 1 /\ now + 1 <= sampled + Patience
    BY <1>a, <2>1 DEF DelayInv
  <2> QED  BY <2>1, <2>2, <2>3 DEF DelayInv
<1>2. CASE UNCHANGED <<call, pc, ms, asked, sampled, start, begun, now>>
  BY <1>2 DEF DelayInv, Base, Lag, Slack, Patience, Delaying
<1>3. ASSUME NEW c \in {"millis", "micros", "delay"}, NEW n, StartCall(c, n)
      PROVE  DelayInv'
  <2>1. /\ call' = c /\ ms' = n /\ asked' = n /\ sampled' = now /\ now' = now
    BY <1>3 DEF StartCall, Goto, timer
  <2>2. \A p \in Nat : now <= now /\ now <= now + p  BY <1>a
  <2>3. sampled' <= now' /\ now' <= sampled' + Patience'
    BY <1>b, <2>1, <2>2
  <2>4. ~Delaying'  BY <2>1 DEF Delaying
  <2> QED  BY <2>1, <2>3, <2>4 DEF DelayInv
<1>4. CASE MillisLow \/ MillisHigh \/ MicrosCount \/ MicrosTifr \/ DelayLoop
  <2>1. UNCHANGED <<call, ms, asked, sampled, start, begun, now>>
    BY <1>4 DEF MillisLow, MillisHigh, MicrosCount, MicrosTifr, DelayLoop,
       Goto, timer, delayLocals
  <2>2. UNCHANGED <<Base, Lag, Slack, Patience, Delaying>>
    BY <2>1 DEF Base, Lag, Slack, Patience, Delaying
  <2>3. /\ pc # "idle"
        /\ Delaying /\ pc' # "idle" =>
             pc \in {"loop", "micros", "tcnt"} /\ pc' \in {"micros", "tcnt"}
    BY <1>4 DEF MillisLow, MillisHigh, MicrosCount, MicrosTifr, DelayLoop,
       Goto, ReadInv, PathInv, Delaying
  <2> QED  BY <2>1, <2>2, <2>3 DEF DelayInv
<1>5. CASE MicrosTcnt
  <2>1. /\ pc = "tcnt" /\ pc' = "tifr" /\ sampled' = now
        /\ UNCHANGED <<call, ms, asked, start, begun, now>>
    BY <1>5 DEF MicrosTcnt, Goto, timer, delayLocals
  <2>2. UNCHANGED <<Base, Patience, Delaying>>
    BY <2>1 DEF Base, Patience, Delaying
  <2>3. sampled <= now /\ now <= sampled + Patience
    BY <2>1 DEF DelayInv
  <2>4. Delaying => 0 <= Lag' /\ Lag' < Word
    <3>1. SUFFICES ASSUME Delaying PROVE 0 <= Lag' /\ Lag' < Word  OBVIOUS
    <3>2. 0 <= Lag /\ Lag < Slack  BY <2>1, <3>1 DEF DelayInv
    <3>3. Lag' = Lag + (now - sampled) * TickUs
      <4>1. Lag' = now * TickUs - Base  BY <2>1, <2>2 DEF Lag
      <4> QED  BY <1>a, <1>c, <4>1 DEF Lag
    <3>4. PICK k \in Nat : k = now - sampled /\ k <= Patience
      BY <1>a, <2>3
    <3>5. 0 <= k * TickUs /\ k * TickUs <= Patience * TickUs
      BY <1>a, <1>c, <3>4
    <3>6. k * TickUs \in Int /\ Patience * TickUs \in Int
      BY <1>a, <1>c, <3>4
    <3> QED  BY <1>a, <1>c, <3>2, <3>3, <3>4, <3>5, <3>6
  <2>5. sampled' <= now' /\ now' <= sampled' + Patience'
    <3>1. \A p \in Nat : now <= now /\ now <= now + p  BY <1>a
    <3>2. now' = now /\ sampled' = now  BY <2>1
    <3> QED  BY <1>b, <3>1, <3>2
  <2> QED  BY <2>1, <2>2, <2>4, <2>5 DEF DelayInv
<1>6. CASE DelayStart
  <2>1. /\ pc = "tifr" /\ call = "delay" /\ pc' = "loop" /\ call' = "delaying"
        /\ start' = Micros /\ begun' = sampled
        /\ UNCHANGED <<ms, asked, sampled, now>>
    BY <1>6 DEF DelayStart, Goto, timer
  <2>2. Micros = (sampled * TickUs) % Word
    BY <2>1, MicrosValue DEF ReadInv
  <2>3. ms = asked /\ sampled <= now /\ now <= sampled + Patience
    BY <2>1 DEF DelayInv
  <2>4. Base' = sampled * TickUs /\ Lag' = 0
    <3>1. (asked - ms) * PerMilli = 0  BY <1>a, <1>c, <2>3
    <3>2. Base' = sampled * TickUs + (asked - ms) * PerMilli
      BY <2>1 DEF Base
    <3>3. sampled * TickUs \in Int  BY <1>a, <1>c
    <3>4. Base' = sampled * TickUs  BY <3>1, <3>2, <3>3
    <3>5. Lag' = sampled * TickUs - Base'  BY <2>1 DEF Lag
    <3> QED  BY <3>3, <3>4, <3>5
  <2>5. Patience' = Patience /\ Slack' = PerMilli
    BY <2>1 DEF Patience, Slack
  <2> QED  BY <1>c, <2>1, <2>2, <2>3, <2>4, <2>5 DEF DelayInv
<1>7. CASE DelayTest
  <2>1. /\ pc = "tifr" /\ Delaying /\ pc' = "loop"
        /\ UNCHANGED <<begun, asked, sampled, now>>
    BY <1>7 DEF DelayTest, Goto, timer
  <2>2. start = Base % Word /\ 0 <= Lag /\ Lag < Word /\ sampled <= now
    BY <2>1 DEF DelayInv
  <2>3. now' <= sampled' + Patience' /\ sampled' <= now'
    <3>1. now <= sampled + 1  BY <2>1 DEF ReadInv, SampleInv
    <3>2. \A p \in Nat : p >= 1 => now <= sampled + p  BY <1>a, <3>1
    <3>3. now' = now /\ sampled' = sampled  BY <2>1
    <3> QED  BY <1>b, <2>2, <3>2, <3>3
  <2>4. CASE MilliGone(Micros)
    <3>1. /\ call' = "catchingUp" /\ ms' = ms - 1
          /\ start' = (start + PerMilli) % Word
      BY <1>7, <2>4 DEF DelayTest, NextMilli
    <3>2. Base' = Base + PerMilli
      <4>1. Base' = begun * TickUs + (asked - (ms - 1)) * PerMilli
        BY <2>1, <3>1 DEF Base
      <4>2. (asked - (ms - 1)) * PerMilli = (asked - ms) * PerMilli + PerMilli
        BY <1>a, <1>c
      <4>3. begun * TickUs \in Int /\ (asked - ms) * PerMilli \in Int
        BY <1>a, <1>c
      <4> QED  BY <1>c, <4>1, <4>2, <4>3 DEF Base
    <3>3. Lag' = Lag - PerMilli
      <4>1. Lag' = sampled * TickUs - Base'  BY <2>1 DEF Lag
      <4>2. sampled * TickUs \in Int  BY <1>a, <1>c
      <4> QED  BY <1>a, <1>c, <3>2, <4>1, <4>2 DEF Lag
    <3>4. Lag >= PerMilli  BY <2>1, <2>4, MilliGoneForm
    <3>5. ((Base % Word) + PerMilli) % Word = (Base + PerMilli) % Word
      <4>1. PerMilli \in Int  BY <1>c
      <4> QED  BY <1>a, <1>c, <4>1, ModPlus, Zenon
    <3>6. 0 <= Lag' /\ Lag' < Word - PerMilli
      BY <1>a, <1>c, <2>2, <3>3, <3>4
    <3>7. Slack' = Word - PerMilli /\ call' # "delay" /\ Delaying'
      BY <3>1 DEF Slack, Delaying
    <3> QED  BY <2>1, <2>2, <2>3, <3>1, <3>2, <3>5, <3>6, <3>7 DEF DelayInv
  <2>5. CASE ~MilliGone(Micros)
    <3>1. call' = "delaying" /\ UNCHANGED <<ms, start>>
      BY <1>7, <2>5 DEF DelayTest
    <3>2. Base' = Base /\ Lag' = Lag /\ Slack' = PerMilli
      BY <2>1, <3>1 DEF Base, Lag, Slack
    <3>3. Lag < PerMilli  BY <1>a, <1>c, <2>1, <2>5, MilliGoneForm
    <3> QED  BY <2>1, <2>2, <2>3, <3>1, <3>2, <3>3 DEF DelayInv
  <2> QED  BY <2>4, <2>5
<1>8. ASSUME OverflowInterrupt \/ (\E b \in BOOLEAN : SetI(b)) \/ UNCHANGED vars
      PROVE  UNCHANGED <<call, pc, ms, asked, sampled, start, begun, now>>
  BY <1>8 DEF OverflowInterrupt, SetI, vars, sketch, delayLocals, timer
<1> QED
  BY <1>1, <1>2, <1>3, <1>4, <1>5, <1>6, <1>7, <1>8 DEF Next, SketchStep

\* A look of delay() takes a millisecond off exactly when one has gone by.
LEMMA LookStep ==
  ReadInv /\ DelayInv /\ [Next]_vars =>
    (pc = "tifr" /\ pc' = "loop" /\ Delaying =>
      (ms' < ms <=> Gone >= (asked - ms + 1) * PerMilli))
<1> SUFFICES ASSUME ReadInv, DelayInv, [Next]_vars,
                    pc = "tifr", pc' = "loop", Delaying
             PROVE  ms' < ms <=> Gone >= (asked - ms + 1) * PerMilli
    OBVIOUS
<1>1. DelayTest
  BY DEF Next, SketchStep, Tick, OverflowInterrupt, SetI, vars, sketch,
     StartCall, MillisLow, MillisHigh, MicrosCount, MicrosTcnt, MicrosTifr,
     DelayStart, DelayLoop, Idle, Delaying
<1>2. /\ sampled \in Nat /\ begun \in Nat /\ asked \in Nat /\ ms \in Nat
  BY LookNumbers DEF ReadInv
<1>3. TickUs \in Nat /\ PerMilli \in Nat  BY Derived
<1>4. ms' < ms <=> MilliGone(Micros)
  <2>1. CASE MilliGone(Micros)
    BY <1>1, <1>2, <2>1 DEF DelayTest
  <2>2. CASE ~MilliGone(Micros)
    BY <1>1, <1>2, <2>2 DEF DelayTest
  <2> QED  BY <2>1, <2>2
<1>5. MilliGone(Micros) <=> Lag >= PerMilli  BY MilliGoneForm
<1>6. Lag = Gone - (asked - ms) * PerMilli
  BY <1>2, <1>3 DEF Lag, Base, Gone
<1>7. (asked - ms + 1) * PerMilli = (asked - ms) * PerMilli + PerMilli
  BY <1>2, <1>3
<1>8. Gone \in Int /\ (asked - ms) * PerMilli \in Int
  BY <1>2, <1>3 DEF Gone
<1> QED  BY <1>3, <1>4, <1>5, <1>6, <1>7, <1>8

\* delay() counts no millisecond early and makes up for every late look,
\* across the wrap of micros().
THEOREM DelayCorrect == Spec => DelayExact
<1> DEFINE I == ReadInv /\ DelayInv
<1>1. Init => I
  BY ReadInit DEF Init, DelayInv, Delaying
<1>2. I /\ [Next]_vars => I'  BY ReadStep, DelayStep
<1>3. I /\ [Next]_vars =>
        (pc = "tifr" /\ pc' = "loop" /\ Delaying =>
           (ms' < ms <=> Gone >= (asked - ms + 1) * PerMilli))
  BY LookStep
<1> QED  BY <1>1, <1>2, <1>3, PTL DEF Spec, DelayExact

-----------------------------------------------------------------------------
(* The other timer the core shares with a sketch, timer 2: module Tone.    *)

USE ToneAssumption

\* The sketch is between calls or has not yet changed, or no longer changes,
\* the slot and the timer.
Steady == {"idle", "begin", "search", "release", "low"}

ToneTypes ==
  /\ ToneTypeOK
  /\ timer2 \in [mode : {"pwm", "ctc"}, prescaler : Nat, ocr : Nat, ocie : BOOLEAN]
  /\ at \in Steady \cup Setting \cup {"disable"}
  /\ at # "idle" => arg \in Pins
  /\ at \in Setting \cup {"begin", "search"} => want \in Tones /\ arg \in called
  /\ at \in {"release", "disable", "low"} => arg \notin called

\* Unless a write has gone astray, the slot has the pin the timer toggles, or
\* none.
SlotInv ==
  /\ at \in Steady /\ tone_pins # NoPin => timer2.ocie /\ pin = tone_pins
  /\ at \in Setting => tone_pins \in {arg, NoPin}
  /\ at \in Setting \ {"configure"} => pin = arg
  /\ at = "disable" => tone_pins = NoPin /\ pin = arg

\* Unless a tone() was overtaken, too, the slot is free only when the interrupt
\* is off, or noTone() about to turn it off.
OwnerInv ==
  /\ at \in Setting => tone_pins = arg
  /\ at = "configure" => ~timer2.ocie
  /\ at \in Steady =>
       IF timer2.ocie THEN tone_pins = pin /\ pin \in Pins
       ELSE tone_pins = NoPin

\* A tone that plays was asked for, and noTone() has not passed it over.
CalledInv ==
  timer2.ocie /\ at # "disable" =>
    /\ pin \in called \/ (at = "release" /\ pin = arg)
    /\ at = "low" => pin # arg

LevelInv ==
  \A p \in Pins :
    /\ p # pin \/ ~timer2.ocie
    /\ at \in {"disable", "low"} => p # arg
    => level[p] = 0

\* How far the timer has been set.
TimerInv ==
  /\ at \in Setting \ {"configure"} => timer2.mode = "ctc"
  /\ at \in Setting \ {"configure", "prescale"} =>
       timer2.prescaler = want.frequency
  /\ at \in {"countLow", "countHigh", "enable"} => timer2.ocr = want.frequency
  /\ at = "enable" => playing = want
  /\ at \in Steady /\ timer2.ocie =>
       timer2 = [mode |-> "ctc", prescaler |-> playing.frequency,
                 ocr |-> playing.frequency, ocie |-> TRUE]

SoundInv == OwnerInv /\ CalledInv /\ LevelInv /\ TimerInv

RestInv ==
  /\ ToneTypes
  /\ ~struck => SlotInv
  /\ ~struck /\ ~overtaken => SoundInv

\* The count of the tone whose count has been stored.
Counted ==
  /\ playing \in Tones
  /\ ~torn => IF playing.duration = 0 THEN toggle_count = Forever
              ELSE toggle_count + played = ToggleCount(playing)

\* The count of a tone that plays, and of one that has ended and was not
\* followed by another, unless the old tone toggled between two stores of it.
CountInv ==
  /\ at = "countHigh" /\ ~torn =>
       toggle_count % Byte = ToggleCount(want) % Byte
  /\ at = "enable" => Counted
  /\ at \in Steady /\ timer2.ocie => Counted
  /\ /\ at \in Steady /\ ~timer2.ocie /\ pin \in called /\ ~torn
     /\ at \in {"begin", "search"} => pin # arg
     => /\ playing \in Tones /\ playing.duration # 0
        /\ played = ToggleCount(playing)

\* Every tone asked for fits the types of tone()'s arithmetic.
Fits ==
  \A z \in Tones : /\ 2 * z.frequency < IntWord
                   /\ 2 * z.frequency * z.duration < Long
                   /\ ~Negative((2 * z.frequency * z.duration) \div PerSecond)

-----------------------------------------------------------------------------
(* The toggle count, made of two pieces.                                   *)

LEMMA LongFacts ==
  /\ Byte \in Nat /\ Byte >= 2 /\ Long \in Nat /\ Long >= 4
  /\ Long = Byte * Byte
  /\ Forever \in 0 .. Long - 1 /\ Forever # 0
  /\ Negative(Forever)
<1>1. Byte \in Nat /\ Byte >= 2
  OBVIOUS
<1>2. Byte * Byte \in Nat /\ Byte * Byte >= 4
  BY <1>1
<1>. QED
  BY <1>1, <1>2 DEF Long, Forever, Negative

\* A count of less than a long has two pieces of less than Byte.
LEMMA TwoPieces ==
  ASSUME NEW B \in Nat, B >= 1, NEW h \in 0 .. B - 1, NEW l \in 0 .. B - 1
  PROVE  /\ h * B + l \in 0 .. B * B - 1
         /\ (h * B + l) % B = l /\ (h * B + l) \div B = h
<1>1. h * B \in Nat /\ h * B <= (B - 1) * B /\ (B - 1) * B = B * B - B
  OBVIOUS
<1>2. h * B + l \in 0 .. B * B - 1
  BY <1>1
<1>3. h \in Int
  OBVIOUS
<1>. QED
  BY <1>2, <1>3, DivModUnique

LEMMA PiecesOf ==
  ASSUME NEW B \in Nat, B >= 1, NEW a \in 0 .. B * B - 1
  PROVE  /\ a = (a \div B) * B + (a % B)
         /\ a % B \in 0 .. B - 1 /\ a \div B \in 0 .. B - 1
<1> DEFINE q == a \div B
           r == a % B
<1>1. a \in Int /\ 0 <= a /\ a < B * B
  OBVIOUS
<1>2. q \in Int /\ r \in 0 .. B - 1 /\ a = q * B + r
  BY <1>1, DivModForm
<1> HIDE DEF q, r
<1>3. q >= 0
  <2>1. SUFFICES ASSUME q <= -1 PROVE FALSE
    BY <1>2
  <2>2. q * B <= -1 * B
    BY <1>2, <2>1
  <2>. QED
    BY <1>1, <1>2, <2>2
<1>4. q <= B - 1
  <2>1. SUFFICES ASSUME q >= B PROVE FALSE
    BY <1>2
  <2>2. q * B >= B * B
    BY <1>2, <2>1
  <2>. QED
    BY <1>1, <1>2, <2>2
<1>. QED
  BY <1>2, <1>3, <1>4 DEF q, r

LEMMA ToggleCountType ==
  ASSUME NEW z \in Tones
  PROVE  ToggleCount(z) \in 0 .. Long - 1
<1>1. CASE z.duration = 0
  BY <1>1, LongFacts DEF ToggleCount
<1>2. CASE z.duration # 0
  <2> DEFINE f == (2 * z.frequency) % IntWord
             x == f * z.duration
             y == x % Long
  <2>1. /\ PerSecond \in Nat /\ PerSecond >= 1 /\ IntWord \in Nat /\ IntWord >= 1
        /\ z.frequency \in Nat /\ z.duration \in Nat /\ 2 * z.frequency \in Int
    OBVIOUS
  <2>2. f \in Nat
    <3> DEFINE g == 2 * z.frequency
    <3>1. g \in Int
      BY <2>1
    <3> HIDE DEF g
    <3>2. g % IntWord \in 0 .. IntWord - 1
      BY <2>1, <3>1, DivModForm
    <3>. QED
      BY <2>1, <3>2 DEF g
  <2> HIDE DEF f
  <2>3. x \in Int
    BY <2>1, <2>2
  <2> HIDE DEF x
  <2>4. y \in 0 .. Long - 1
    <3>1. Long \in Nat /\ Long >= 1
      BY LongFacts
    <3>. QED
      BY <2>3, <3>1, DivModForm
  <2> HIDE DEF y
  <2>5. y \div PerSecond \in 0 .. Long - 1
    <3> DEFINE q == y \div PerSecond
               r == y % PerSecond
    <3>1. y \in Int /\ y >= 0 /\ y <= Long - 1
      BY <2>4, LongFacts
    <3>2. q \in Int /\ r \in 0 .. PerSecond - 1 /\ y = q * PerSecond + r
      BY <2>1, <3>1, DivModForm
    <3> HIDE DEF q, r
    <3>3. q >= 0
      <4>1. SUFFICES ASSUME q <= -1 PROVE FALSE
        BY <3>2
      <4>2. q * PerSecond <= -1 * PerSecond
        BY <2>1, <3>2, <4>1
      <4>. QED
        BY <2>1, <3>1, <3>2, <4>2
    <3>4. q <= q * PerSecond
      BY <2>1, <3>2, <3>3
    <3>5. q <= y
      BY <2>1, <3>1, <3>2, <3>3, <3>4
    <3>. QED
      BY <3>1, <3>2, <3>3, <3>5, LongFacts DEF q
  <2>. QED
    BY <1>2, <2>5 DEF ToggleCount, f, x, y
<1>. QED
  BY <1>1, <1>2

\* What fits is counted without wrapping, and the count is not negative.
LEMMA FittingCount ==
  ASSUME Fits, NEW z \in Tones, z.duration # 0
  PROVE  /\ ToggleCount(z) = (2 * z.frequency * z.duration) \div PerSecond
         /\ ~Negative(ToggleCount(z))
<1>1. /\ IntWord \in Nat /\ IntWord >= 1 /\ z.frequency \in Nat
      /\ z.duration \in Nat
  OBVIOUS
<1>2. 2 * z.frequency < IntWord /\ 2 * z.frequency * z.duration < Long
  BY DEF Fits
<1> DEFINE f == 2 * z.frequency
<1>3. f \in 0 .. IntWord - 1
  BY <1>1, <1>2
<1>4. f % IntWord = f
  <2> HIDE DEF f
  <2>1. (0 * IntWord + f) % IntWord = f
    BY <1>1, <1>3, DivModUnique
  <2>2. 0 * IntWord + f = f
    BY <1>1, <1>3
  <2>. QED
    BY <2>1, <2>2
<1> DEFINE x == f * z.duration
<1>5. x \in 0 .. Long - 1
  BY <1>1, <1>2, LongFacts
<1>6. x % Long = x
  <2> HIDE DEF x
  <2>1. (0 * Long + x) % Long = x
    BY <1>5, LongFacts, DivModUnique
  <2>2. 0 * Long + x = x
    BY <1>5, LongFacts
  <2>. QED
    BY <2>1, <2>2
<1>7. ToggleCount(z) = x \div PerSecond
  BY <1>4, <1>6 DEF ToggleCount
<1>8. x = 2 * z.frequency * z.duration
  OBVIOUS
<1>. QED
  BY <1>7, <1>8 DEF Fits

-----------------------------------------------------------------------------
(* Between calls the pins, the slot and the timer agree.                   *)

LEMMA RestInitially == ToneInit => RestInv
<1>. SUFFICES ASSUME ToneInit PROVE RestInv
  OBVIOUS
<1>. USE DEF ToneInit, NoPin, TimerOff
<1>1. ToneTypes
  <2>1. timer2 \in [mode : {"pwm", "ctc"}, prescaler : Nat, ocr : Nat, ocie : BOOLEAN]
    OBVIOUS
  <2>2. torn \in BOOLEAN /\ overtaken \in BOOLEAN /\ struck \in BOOLEAN
    OBVIOUS
  <2>3. ToneTypeOK
    BY <2>1, <2>2, LongFacts DEF ToneTypeOK
  <2>. QED
    BY <2>1, <2>3 DEF ToneTypes, Steady, Setting
<1>2. SlotInv /\ OwnerInv /\ CalledInv /\ LevelInv /\ TimerInv
  BY DEF SlotInv, OwnerInv, CalledInv, LevelInv, TimerInv, Steady, Setting
<1>. QED
  BY <1>1, <1>2 DEF RestInv, SoundInv

\* Either piece of a count may be of another count's.
LEMMA MixedCount ==
  ASSUME ToneTypes, NEW c \in 0 .. Long - 1
  PROVE  /\ (toggle_count \div Byte) * Byte + (c % Byte) \in 0 .. Long - 1
         /\ (c \div Byte) * Byte + (toggle_count % Byte) \in 0 .. Long - 1
<1>1. Byte \in Nat /\ Byte >= 1 /\ Long = Byte * Byte
  BY LongFacts
<1>2. c \in 0 .. Byte * Byte - 1 /\ toggle_count \in 0 .. Byte * Byte - 1
  BY <1>1 DEF ToneTypes, ToneTypeOK
<1> DEFINE ch == c \div Byte
           cl == c % Byte
           th == toggle_count \div Byte
           tl == toggle_count % Byte
<1>3. /\ ch \in 0 .. Byte - 1 /\ cl \in 0 .. Byte - 1
      /\ th \in 0 .. Byte - 1 /\ tl \in 0 .. Byte - 1
  BY <1>1, <1>2, PiecesOf
<1> HIDE DEF ch, cl, th, tl
<1>4. /\ th * Byte + cl \in 0 .. Byte * Byte - 1
      /\ ch * Byte + tl \in 0 .. Byte * Byte - 1
  BY <1>1, <1>3, TwoPieces
<1>. QED
  BY <1>1, <1>4 DEF ch, cl, th, tl

LEMMA TypesStep ==
  ASSUME ToneTypes, [ToneNext]_toneVars
  PROVE  ToneTypes'
<1>. USE DEF Steady, Setting
<1>1. CASE UNCHANGED toneVars
  BY <1>1 DEF toneVars, toneCall, mishaps, ToneTypes, ToneTypeOK
<1>2. ASSUME NEW p \in Pins, CallNoTone(p) PROVE ToneTypes'
  BY <1>2 DEF CallNoTone, mishaps, ToneTypes, ToneTypeOK
<1>3. ASSUME NEW p \in Pins, NEW z \in Tones, CallTone(p, z) PROVE ToneTypes'
  BY <1>3 DEF CallTone, mishaps, ToneTypes, ToneTypeOK
<1>4. CASE Begin \/ Search
  BY <1>4 DEF Begin, Search, Continue, HistoryKept, mishaps, ToneTypes, ToneTypeOK
<1>5. CASE Configure \/ Prescale \/ Compare \/ Enable
  <2>1. /\ UNCHANGED <<toggle_count, level, called, played, tone_pins>>
        /\ UNCHANGED <<torn, overtaken, struck, arg, want>>
        /\ pin' \in {pin, arg} /\ arg \in Pins
        /\ at \in Setting /\ at' \in {"prescale", "compare", "countLow", "idle"}
    BY <1>5 DEF Configure, Prescale, Compare, Enable, Continue, HistoryKept,
      mishaps, ToneTypes
  <2>2. want \in Tones /\ want.frequency \in Nat
    BY <2>1 DEF ToneTypes
  <2>3. timer2' \in [mode : {"pwm", "ctc"}, prescaler : Nat, ocr : Nat,
                     ocie : BOOLEAN]
    <3>1. timer2 \in [mode : {"pwm", "ctc"}, prescaler : Nat, ocr : Nat,
                      ocie : BOOLEAN]
      BY DEF ToneTypes
    <3>2. \/ timer2' = [timer2 EXCEPT !.mode = "ctc", !.prescaler = 0]
          \/ timer2' = [timer2 EXCEPT !.prescaler = want.frequency]
          \/ timer2' = [timer2 EXCEPT !.ocr = want.frequency]
          \/ timer2' = [timer2 EXCEPT !.ocie = TRUE]
      BY <1>5 DEF Configure, Prescale, Compare, Enable
    <3>. QED
      <4>1. CASE timer2' = [timer2 EXCEPT !.mode = "ctc", !.prescaler = 0]
        BY <3>1, <4>1
      <4>2. CASE timer2' = [timer2 EXCEPT !.prescaler = want.frequency]
        BY <2>2, <3>1, <4>2
      <4>3. CASE timer2' = [timer2 EXCEPT !.ocr = want.frequency]
        BY <2>2, <3>1, <4>3
      <4>4. CASE timer2' = [timer2 EXCEPT !.ocie = TRUE]
        BY <3>1, <4>4
      <4>. QED
        BY <3>2, <4>1, <4>2, <4>3, <4>4
  <2>. QED
    BY <2>1, <2>3 DEF ToneTypes, ToneTypeOK
<1>6. CASE CountLow \/ CountHigh
  <2>1. /\ UNCHANGED <<timer2, level, called, tone_pins, pin, arg, want>>
        /\ UNCHANGED <<overtaken, struck>> /\ torn' \in {torn, FALSE}
        /\ at \in Setting /\ at' \in Setting /\ played' \in {0, played}
    BY <1>6 DEF CountLow, CountHigh, Continue, mishaps
  <2>2. ToggleCount(want) \in 0 .. Long - 1
    BY <2>1, ToggleCountType DEF ToneTypes
  <2>3. toggle_count' \in 0 .. Long - 1
    BY <1>6, <2>2, MixedCount DEF CountLow, CountHigh, LowByte
  <2>4. torn' \in BOOLEAN
    BY <2>1 DEF ToneTypes, ToneTypeOK
  <2>5. played' \in 0 .. Long
    BY <2>1, LongFacts DEF ToneTypes, ToneTypeOK
  <2>6. ToneTypeOK'
    BY <2>1, <2>3, <2>4, <2>5 DEF ToneTypes, ToneTypeOK
  <2>. QED
    BY <2>1, <2>6 DEF ToneTypes
<1>7. CASE Release \/ Disable \/ Low
  <2>1. timer2' \in [mode : {"pwm", "ctc"}, prescaler : Nat, ocr : Nat,
                     ocie : BOOLEAN]
    <3>1. timer2' \in {timer2, TimerOff}
      BY <1>7 DEF Release, Disable, Disabled, Low, HistoryKept
    <3>. QED
      <4>1. CASE timer2' = timer2
        BY <4>1 DEF ToneTypes
      <4>2. CASE timer2' = TimerOff
        BY <4>2 DEF TimerOff
      <4>. QED
        BY <3>1, <4>1, <4>2
  <2>2. level' \in [Pins -> {0, 1}]
    BY <1>7 DEF Release, Disable, Low, ToneTypes, ToneTypeOK
  <2>. QED
    BY <1>7, <2>1, <2>2 DEF Release, Disable, Low, Continue, HistoryKept,
      mishaps, ToneTypes, ToneTypeOK
<1>8. CASE Toggle
  <2>1. toggle_count' \in 0 .. Long - 1 /\ played' \in 0 .. Long
    BY <1>8, LongFacts DEF Toggle, CountDown, ToneTypes, ToneTypeOK
  <2>2. level' \in [Pins -> {0, 1}]
    BY <1>8 DEF Toggle, ToneTypes, ToneTypeOK
  <2>3. torn' \in BOOLEAN
    BY <1>8 DEF Toggle, ToneTypes, ToneTypeOK
  <2>. QED
    BY <1>8, <2>1, <2>2, <2>3 DEF Toggle, toneCall, ToneTypes, ToneTypeOK
<1>9. CASE End
  <2>1. timer2' \in [mode : {"pwm", "ctc"}, prescaler : Nat, ocr : Nat,
                     ocie : BOOLEAN]
    BY <1>9 DEF End, TimerOff
  <2>2. level' \in [Pins -> {0, 1}]
    BY <1>9 DEF End, Lowered, Astray, ToneTypes, ToneTypeOK
  <2>3. tone_pins' \in Pins \cup {NoPin} /\ pin' \in Pins \cup {NoPin}
        /\ toggle_count' \in 0 .. Long - 1 /\ struck' \in BOOLEAN
    BY <1>9 DEF End, Lowered, Astray, Freed, ToneTypes, ToneTypeOK
  <2>4. overtaken' \in BOOLEAN
    BY <1>9 DEF End, ToneTypes, ToneTypeOK
  <2>. QED
    BY <1>9, <2>1, <2>2, <2>3, <2>4 DEF End, toneCall, ToneTypes, ToneTypeOK
<1>. QED
  BY <1>1, <1>2, <1>3, <1>4, <1>5, <1>6, <1>7, <1>8, <1>9
  DEF ToneNext, ToneStep, Running, Handler

\* A write gone astray stays in the history, and so does a tone() overtaken.
LEMMA MishapsStay ==
  ASSUME ToneTypes, [ToneNext]_toneVars
  PROVE  (struck => struck') /\ (overtaken => overtaken')
BY DEF ToneNext, ToneStep, Running, Handler, Begin, Search, Configure, Prescale, Compare,
  CountLow, CountHigh, Enable, Release, Disable, Low, Toggle, End, Lowered,
  Astray, CallTone, CallNoTone, HistoryKept, mishaps, toneVars, ToneTypes,
  ToneTypeOK

LEMMA SlotStep ==
  ASSUME ToneTypes, SlotInv, ~struck', [ToneNext]_toneVars
  PROVE  SlotInv'
<1>. USE DEF Steady, Setting, SlotInv
<1>0. NoPin \notin Pins
  OBVIOUS
<1>1. CASE UNCHANGED toneVars
  BY <1>1 DEF toneVars, toneCall
<1>2. ASSUME NEW p \in Pins, CallNoTone(p) PROVE SlotInv'
  BY <1>2 DEF CallNoTone
<1>3. ASSUME NEW p \in Pins, NEW z \in Tones, CallTone(p, z) PROVE SlotInv'
  BY <1>3 DEF CallTone
<1>4. CASE Begin \/ Search
  BY <1>0, <1>4 DEF Begin, Search, Continue, ToneTypes
<1>5. CASE Configure \/ Prescale \/ Compare \/ CountLow \/ CountHigh
  BY <1>5 DEF Configure, Prescale, Compare, CountLow, CountHigh, Continue
<1>6. CASE Enable
  <2>1. timer2'.ocie
    BY <1>6 DEF Enable, ToneTypes
  <2>. QED
    BY <1>6, <2>1 DEF Enable, Continue
<1>7. CASE Release \/ Disable \/ Low
  BY <1>0, <1>7 DEF Release, Disable, Low, Continue, ToneTypes
<1>8. CASE Toggle
  BY <1>8 DEF Toggle, toneCall
<1>9. CASE End
  <2>1. tone_pins' = NoPin /\ UNCHANGED <<pin, at, arg>>
    BY <1>9 DEF End, Lowered, Astray, Freed, toneCall
  <2>. QED
    BY <2>1
<1>. QED
  BY <1>1, <1>2, <1>3, <1>4, <1>5, <1>6, <1>7, <1>8, <1>9
  DEF ToneNext, ToneStep, Running, Handler

LEMMA CallsSound ==
  ASSUME ToneTypes, SlotInv, SoundInv, NEW p \in Pins,
         CallNoTone(p) \/ (\E z \in Tones : CallTone(p, z))
  PROVE  SoundInv'
<1>. USE DEF Steady, Setting, SoundInv
<1>1. /\ at = "idle" /\ at' \in {"begin", "release"} /\ arg' = p
      /\ called' = IF at' = "begin" THEN called \cup {p} ELSE called \ {p}
      /\ UNCHANGED <<tone_pins, timer2, pin, level, playing>>
  BY DEF CallTone, CallNoTone
<1>2. OwnerInv' /\ CalledInv'
  BY <1>1 DEF OwnerInv, CalledInv
<1>3. LevelInv' /\ TimerInv'
  BY <1>1 DEF LevelInv, TimerInv
<1>. QED
  BY <1>2, <1>3

\* toneBegin(): the slot is the call's own only if the timer plays its pin.
LEMMA BeginSound ==
  ASSUME ToneTypes, SlotInv, SoundInv, Begin \/ Search
  PROVE  SoundInv'
<1>. USE DEF Steady, Setting, SoundInv
<1>1. /\ at \in {"begin", "search"} /\ arg \in Pins /\ NoPin \notin Pins
      /\ arg \in called
      /\ UNCHANGED <<arg, want, called, playing, timer2, pin, level>>
  BY DEF Begin, Search, Continue, HistoryKept, ToneTypes
<1>2. CASE Begin /\ tone_pins = arg
  <2>1. at' = "prescale" /\ UNCHANGED tone_pins /\ timer2.ocie /\ pin = arg
    BY <1>1, <1>2 DEF Begin, Continue, OwnerInv
  <2>2. OwnerInv' /\ CalledInv'
    BY <1>1, <1>2, <2>1 DEF OwnerInv, CalledInv
  <2>3. LevelInv' /\ TimerInv'
    BY <1>1, <2>1 DEF LevelInv, TimerInv
  <2>. QED
    BY <2>2, <2>3
<1>3. CASE (Begin /\ tone_pins # arg) \/ (Search /\ tone_pins # NoPin)
  <2>1. at' \in {"search", "idle"} /\ UNCHANGED tone_pins
    BY <1>1, <1>3 DEF Begin, Search, Continue
  <2>2. OwnerInv' /\ CalledInv'
    BY <1>1, <2>1 DEF OwnerInv, CalledInv
  <2>3. LevelInv' /\ TimerInv'
    BY <1>1, <2>1 DEF LevelInv, TimerInv
  <2>. QED
    BY <2>2, <2>3
<1>4. CASE Search /\ tone_pins = NoPin
  <2>1. tone_pins' = arg /\ at' = "configure" /\ ~timer2.ocie
    BY <1>1, <1>4 DEF Search, Continue, OwnerInv
  <2>2. OwnerInv' /\ CalledInv'
    BY <1>1, <2>1 DEF OwnerInv, CalledInv
  <2>3. LevelInv' /\ TimerInv'
    BY <1>1, <2>1 DEF LevelInv, TimerInv
  <2>. QED
    BY <2>2, <2>3
<1>. QED
  BY <1>2, <1>3, <1>4

\* The slot is the call's while the timer is set.
LEMMA SettingSound ==
  ASSUME ToneTypes, SlotInv, SoundInv,
         \/ Configure \/ Prescale \/ Compare
         \/ CountLow \/ CountHigh \/ Enable
  PROVE  SoundInv'
<1>. USE DEF Steady, Setting, SoundInv
<1>1. /\ at \in Setting /\ arg \in Pins /\ tone_pins = arg
      /\ want \in Tones /\ want.frequency \in Nat /\ arg \in called
      /\ UNCHANGED <<arg, want, called, tone_pins, level>>
  BY DEF Configure, Prescale, Compare, CountLow, CountHigh, Enable, Continue,
    HistoryKept, ToneTypes, OwnerInv
<1>2. timer2 \in [mode : {"pwm", "ctc"}, prescaler : Nat, ocr : Nat, ocie : BOOLEAN]
  BY DEF ToneTypes
<1>3. CASE Configure
  <2>1. /\ at = "configure" /\ at' = "prescale" /\ pin' = arg
        /\ timer2' = [timer2 EXCEPT !.mode = "ctc", !.prescaler = 0]
    BY <1>3 DEF Configure, Continue
  <2>2. ~timer2'.ocie /\ timer2'.mode = "ctc" /\ ~timer2.ocie
    BY <1>2, <2>1 DEF OwnerInv
  <2>3. OwnerInv' /\ CalledInv'
    BY <1>1, <2>1, <2>2 DEF OwnerInv, CalledInv
  <2>4. LevelInv' /\ TimerInv'
    BY <1>1, <2>1, <2>2 DEF LevelInv, TimerInv
  <2>. QED
    BY <2>3, <2>4
<1>4. CASE Prescale \/ Compare
  <2>1. /\ at \in {"prescale", "compare"} /\ UNCHANGED pin
        /\ at' = IF at = "prescale" THEN "compare" ELSE "countLow"
        /\ timer2' = IF at = "prescale"
                     THEN [timer2 EXCEPT !.prescaler = want.frequency]
                     ELSE [timer2 EXCEPT !.ocr = want.frequency]
    BY <1>4 DEF Prescale, Compare, Continue
  <2>2. /\ timer2'.ocie = timer2.ocie /\ timer2'.mode = timer2.mode
        /\ timer2'.prescaler
             = IF at = "prescale" THEN want.frequency ELSE timer2.prescaler
        /\ at = "compare" => timer2'.ocr = want.frequency
    BY <1>1, <1>2, <2>1
  <2>3. pin = arg
    BY <2>1 DEF SlotInv
  <2>4. OwnerInv' /\ CalledInv'
    BY <1>1, <2>1, <2>2, <2>3 DEF OwnerInv, CalledInv
  <2>5. LevelInv'
    BY <1>1, <2>1, <2>2 DEF LevelInv
  <2>6. TimerInv'
    BY <1>1, <2>1, <2>2 DEF TimerInv
  <2>. QED
    BY <2>4, <2>5, <2>6
<1>5. CASE CountLow \/ CountHigh
  <2>1. /\ at \in {"countLow", "countHigh"} /\ UNCHANGED <<pin, timer2>>
        /\ at' \in {"countHigh", "enable"}
        /\ at' = "enable" => playing' = want
    BY <1>5 DEF CountLow, CountHigh, Continue
  <2>2. OwnerInv' /\ CalledInv'
    BY <1>1, <2>1 DEF SlotInv, OwnerInv, CalledInv
  <2>3. LevelInv' /\ TimerInv'
    BY <1>1, <2>1 DEF LevelInv, TimerInv
  <2>. QED
    BY <2>2, <2>3
<1>6. CASE Enable
  <2>1. /\ at = "enable" /\ at' = "idle" /\ UNCHANGED <<pin, playing>>
        /\ timer2' = [timer2 EXCEPT !.ocie = TRUE]
    BY <1>6 DEF Enable, Continue, HistoryKept
  <2>2. /\ timer2'.ocie = TRUE /\ timer2'.mode = timer2.mode
        /\ timer2'.prescaler = timer2.prescaler /\ timer2'.ocr = timer2.ocr
        /\ timer2' \in [mode : {"pwm", "ctc"}, prescaler : Nat, ocr : Nat,
                        ocie : BOOLEAN]
    BY <1>2, <2>1
  <2>3. pin = arg /\ timer2.mode = "ctc" /\ playing = want
        /\ timer2.prescaler = want.frequency /\ timer2.ocr = want.frequency
    BY <2>1 DEF SlotInv, TimerInv
  <2>4. timer2' = [mode |-> "ctc", prescaler |-> playing.frequency,
                   ocr |-> playing.frequency, ocie |-> TRUE]
    BY <2>2, <2>3
  <2>5. OwnerInv' /\ CalledInv'
    BY <1>1, <2>1, <2>2, <2>3 DEF OwnerInv, CalledInv
  <2>6. LevelInv'
    BY <1>1, <2>1, <2>2 DEF LevelInv
  <2>7. TimerInv'
    BY <2>1, <2>4 DEF TimerInv
  <2>. QED
    BY <2>5, <2>6, <2>7
<1>. QED
  BY <1>3, <1>4, <1>5, <1>6

\* noTone(): the slot, the timer and the pin in turn.
LEMMA ReleaseSound ==
  ASSUME ToneTypes, SlotInv, SoundInv, Release \/ Disable \/ Low
  PROVE  SoundInv'
<1>. USE DEF Steady, Setting, SoundInv
<1>1. /\ arg \in Pins /\ arg # NoPin /\ arg \notin called
      /\ UNCHANGED <<arg, called, pin, playing>>
  BY DEF Release, Disable, Low, Continue, HistoryKept, ToneTypes
<1>2. CASE Release /\ tone_pins = arg
  <2>1. /\ at = "release" /\ at' = "disable" /\ tone_pins' = NoPin
        /\ UNCHANGED <<timer2, level>>
    BY <1>2 DEF Release, Continue
  <2>2. timer2.ocie /\ pin = arg
    BY <1>1, <1>2, <2>1 DEF OwnerInv
  <2>3. OwnerInv' /\ CalledInv'
    BY <1>1, <2>1, <2>2 DEF OwnerInv, CalledInv
  <2>4. LevelInv' /\ TimerInv'
    BY <1>1, <2>1, <2>2 DEF LevelInv, TimerInv
  <2>. QED
    BY <2>3, <2>4
<1>3. CASE Release /\ tone_pins # arg
  <2>1. /\ at = "release" /\ at' = "low" /\ UNCHANGED <<tone_pins, timer2, level>>
    BY <1>3 DEF Release, Continue
  <2>2. timer2.ocie => pin # arg
    BY <1>3, <2>1 DEF OwnerInv
  <2>3. OwnerInv' /\ CalledInv'
    BY <1>1, <2>1, <2>2 DEF OwnerInv, CalledInv
  <2>4. LevelInv' /\ TimerInv'
    BY <1>1, <2>1, <2>2 DEF LevelInv, TimerInv
  <2>. QED
    BY <2>3, <2>4
<1>4. CASE Disable
  <2>1. /\ at = "disable" /\ at' = "low" /\ ~timer2'.ocie
        /\ UNCHANGED <<tone_pins, level>>
    BY <1>4 DEF Disable, Disabled, TimerOff, Continue
  <2>2. OwnerInv' /\ CalledInv'
    BY <1>1, <2>1 DEF SlotInv, OwnerInv, CalledInv
  <2>3. LevelInv' /\ TimerInv'
    BY <1>1, <2>1 DEF SlotInv, LevelInv, TimerInv
  <2>. QED
    BY <2>2, <2>3
<1>5. CASE Low
  <2>1. /\ at = "low" /\ at' = "idle" /\ level' = [level EXCEPT ![arg] = 0]
        /\ UNCHANGED <<tone_pins, timer2>>
    BY <1>5 DEF Low, Continue
  <2>2. level'[arg] = 0 /\ \A p \in Pins : p # arg => level'[p] = level[p]
    BY <1>1, <2>1 DEF ToneTypes, ToneTypeOK
  <2>3. OwnerInv' /\ CalledInv'
    BY <1>1, <2>1 DEF OwnerInv, CalledInv
  <2>4. LevelInv'
    BY <1>1, <2>1, <2>2 DEF LevelInv
  <2>5. TimerInv'
    BY <1>1, <2>1 DEF TimerInv
  <2>. QED
    BY <2>3, <2>4, <2>5
<1>. QED
  BY <1>2, <1>3, <1>4, <1>5

\* The handler, at any of the call's steps while its interrupt is on.
LEMMA ToggleSound ==
  ASSUME ToneTypes, SlotInv, SoundInv, Toggle PROVE SoundInv'
<1>. USE DEF Steady, Setting, SoundInv
<1>1. /\ timer2.ocie
      /\ UNCHANGED <<tone_pins, timer2, pin, at, arg, want, called, playing>>
  BY DEF Toggle, toneCall
<1>2. \A p \in Pins : p # pin => level'[p] = level[p]
  BY DEF Toggle, ToneTypes, ToneTypeOK
<1>3. OwnerInv' /\ CalledInv'
  BY <1>1 DEF OwnerInv, CalledInv
<1>4. LevelInv' /\ TimerInv'
  BY <1>1, <1>2 DEF LevelInv, TimerInv
<1>. QED
  BY <1>3, <1>4

LEMMA EndSound ==
  ASSUME ToneTypes, SlotInv, SoundInv, End, ~struck', ~overtaken'
  PROVE  SoundInv'
<1>. USE DEF Steady, Setting, SoundInv
<1>1. /\ timer2.ocie /\ tone_pins' = NoPin /\ ~timer2'.ocie
      /\ UNCHANGED <<pin, at, arg, want, called, playing>>
      /\ at \in Steady \cup {"disable"}
  BY DEF End, Lowered, Astray, Freed, TimerOff, toneCall, ToneTypes
<1>2. level \in [Pins -> {0, 1}]
  BY DEF ToneTypes, ToneTypeOK
<1>3. CASE tone_pins \in Pins
  <2>1. \A p \in Pins : level'[p] = IF p = tone_pins THEN 0 ELSE level[p]
    BY <1>2, <1>3 DEF End, Lowered
  <2>2. at \in Steady /\ pin = tone_pins
    BY <1>1, <1>3 DEF SlotInv, OwnerInv
  <2>3. LevelInv'
    BY <1>1, <2>1, <2>2 DEF LevelInv
  <2>. QED
    BY <1>1, <2>3 DEF OwnerInv, CalledInv, TimerInv
<1>4. CASE tone_pins \notin Pins
  <2>1. level' \in [Pins -> {0, 1}] /\ \A p \in Pins : level'[p] <= level[p]
    BY <1>4, <1>2 DEF End, Astray
  <2>2. at = "disable" /\ pin = arg
    BY <1>1, <1>4 DEF SlotInv, OwnerInv
  <2>3. \A p \in Pins : level[p] = 0 => level'[p] = 0
    BY <1>2, <2>1
  <2>4. LevelInv'
    BY <1>1, <2>2, <2>3 DEF LevelInv
  <2>. QED
    BY <1>1, <2>2, <2>4 DEF OwnerInv, CalledInv, TimerInv
<1>. QED
  BY <1>3, <1>4

LEMMA RestStep ==
  ASSUME RestInv, [ToneNext]_toneVars
  PROVE  RestInv'
<1>1. ToneTypes /\ ToneTypes'
  BY TypesStep DEF RestInv
<1>2. ~struck' => SlotInv /\ SlotInv'
  BY <1>1, MishapsStay, SlotStep DEF RestInv
<1>3. ASSUME ~struck', ~overtaken' PROVE SoundInv'
  <2>1. SlotInv /\ SoundInv
    BY <1>1, <1>3, MishapsStay DEF RestInv
  <2>2. CASE UNCHANGED toneVars
    BY <2>1, <2>2 DEF toneVars, toneCall, SoundInv, OwnerInv, CalledInv,
      LevelInv, TimerInv, Steady, Setting
  <2>3. ASSUME NEW p \in Pins,
               CallNoTone(p) \/ (\E z \in Tones : CallTone(p, z))
        PROVE  SoundInv'
    BY <1>1, <2>1, <2>3, CallsSound
  <2>4. CASE Running
    BY <1>1, <2>1, <2>4, BeginSound, SettingSound, ReleaseSound DEF Running
  <2>5. CASE Handler
    BY <1>1, <1>3, <2>1, <2>5, ToggleSound, EndSound DEF Handler
  <2>. QED
    BY <2>2, <2>3, <2>4, <2>5 DEF ToneNext, ToneStep
<1>. QED
  BY <1>1, <1>2, <1>3 DEF RestInv

\* Between calls the pins, the slot and the timer agree, wherever the handler
\* has toggled or ended a tone under a call, unless it ended the old tone under
\* a tone() on its pin, or a write went astray: for all pins and tones.
THEOREM ToneCorrect == ToneSpec => []AtRest
<1>1. RestInv => AtRest
  <2> SUFFICES ASSUME RestInv PROVE AtRest
    OBVIOUS
  <2>1. ToneTypeOK
    BY DEF RestInv, ToneTypes
  <2>2. ASSUME ~overtaken, ~struck PROVE Silenced /\ TimerSet
    <3>1. SoundInv
      BY <2>2 DEF RestInv
    <3>2. Silenced
      BY <3>1 DEF SoundInv, CalledInv, LevelInv, Silenced
    <3>3. TimerSet
      BY <3>1 DEF SoundInv, OwnerInv, TimerInv, TimerSet, Steady
    <3>. QED
      BY <3>2, <3>3
  <2>. QED
    BY <2>1, <2>2 DEF AtRest
<1>. QED
  BY RestInitially, RestStep, <1>1, PTL DEF ToneSpec

-----------------------------------------------------------------------------
(* A tone that is left to itself toggles its pin as often as was asked.    *)

LEMMA CountInitially == ToneInit => CountInv
BY DEF ToneInit, TimerOff, CountInv, Steady

\* The two pieces are stored one after the other.
LEMMA CountLowKeeps ==
  ASSUME RestInv, CountLow PROVE CountInv'
<1>1. /\ at = "countLow" /\ at' = "countHigh" /\ UNCHANGED want
      /\ want \in Tones
      /\ toggle_count' = (toggle_count \div Byte) * Byte
                           + (ToggleCount(want) % Byte)
  BY DEF CountLow, LowByte, Continue, RestInv, ToneTypes, Setting
<1> DEFINE c == ToggleCount(want)
           th == toggle_count \div Byte
           cl == c % Byte
<1>2. Byte \in Nat /\ Byte >= 1
  BY LongFacts
<1>3. c \in 0 .. Byte * Byte - 1 /\ toggle_count \in 0 .. Byte * Byte - 1
  BY <1>1, ToggleCountType, LongFacts DEF RestInv, ToneTypes, ToneTypeOK
<1> HIDE DEF c
<1>4. th \in 0 .. Byte - 1 /\ cl \in 0 .. Byte - 1
  BY <1>2, <1>3, PiecesOf
<1> HIDE DEF th, cl
<1>5. (th * Byte + cl) % Byte = cl
  BY <1>2, <1>4, TwoPieces
<1>6. toggle_count' % Byte = cl
  BY <1>1, <1>5 DEF th, cl, c
<1>7. ToggleCount(want)' = c
  BY <1>1 DEF c, ToggleCount, Forever, Long
<1>8. (toggle_count % Byte = ToggleCount(want) % Byte)'
  BY <1>6, <1>7 DEF cl
<1>. QED
  BY <1>1, <1>8 DEF CountInv, Steady

LEMMA CountHighKeeps ==
  ASSUME RestInv, CountInv, CountHigh PROVE CountInv'
<1>1. /\ at = "countHigh" /\ at' = "enable" /\ UNCHANGED <<want, torn>>
      /\ want \in Tones /\ played' = 0 /\ playing' = want
      /\ toggle_count' = (ToggleCount(want) \div Byte) * Byte
                           + (toggle_count % Byte)
  BY DEF CountHigh, Continue, mishaps, RestInv, ToneTypes, Setting
<1>2. ~torn => toggle_count % Byte = ToggleCount(want) % Byte
  BY <1>1 DEF CountInv
<1> DEFINE c == ToggleCount(want)
<1>3. Byte \in Nat /\ Byte >= 1
  BY LongFacts
<1>4. c \in 0 .. Byte * Byte - 1
  BY <1>1, ToggleCountType, LongFacts
<1>5. ~torn => toggle_count' = c
  <2>1. ~torn => toggle_count' = (c \div Byte) * Byte + (c % Byte)
    BY <1>1, <1>2
  <2> HIDE DEF c
  <2>2. c = (c \div Byte) * Byte + (c % Byte)
    BY <1>3, <1>4, PiecesOf
  <2>. QED
    BY <2>1, <2>2
<1>6. ToggleCount(playing)' = c
  BY <1>1 DEF ToggleCount, Forever, Long
<1>7. want.duration = 0 => c = Forever
  BY DEF ToggleCount
<1> HIDE DEF c
<1>8. c + 0 = c
  BY <1>4
<1>9. ~torn' => IF playing'.duration = 0 THEN toggle_count' = Forever
                ELSE toggle_count' + played' = ToggleCount(playing)'
  BY <1>1, <1>5, <1>6, <1>7, <1>8
<1>10. Counted'
  BY <1>1, <1>9 DEF Counted, Forever, Long
<1>. QED
  BY <1>1, <1>10 DEF CountInv, Steady

LEMMA EnableKeeps ==
  ASSUME RestInv, CountInv, Enable PROVE CountInv'
<1>1. /\ at = "enable" /\ at' = "idle"
      /\ UNCHANGED <<toggle_count, playing, played, torn>>
      /\ timer2' = [timer2 EXCEPT !.ocie = TRUE]
  BY DEF Enable, Continue, HistoryKept, mishaps
<1>2. timer2'.ocie
  BY <1>1 DEF RestInv, ToneTypes
<1>3. Counted'
  <2>1. Counted
    BY <1>1 DEF CountInv
  <2>. QED
    BY <1>1, <2>1 DEF Counted, ToggleCount, Forever, Long
<1>. QED
  BY <1>1, <1>2, <1>3 DEF CountInv, Steady

\* Each toggle is counted, except those of a tone without an end.
LEMMA ToggleCounts ==
  ASSUME Fits, RestInv, CountInv, Toggle
  PROVE  CountInv'
<1>1. /\ timer2.ocie /\ toggle_count # 0
      /\ toggle_count' = CountDown(toggle_count)
      /\ played' = IF Negative(toggle_count) \/ played = Long
                   THEN played ELSE played + 1
      /\ torn' = (torn \/ at = "countHigh")
      /\ UNCHANGED <<tone_pins, timer2, pin, at, arg, want, called, playing>>
  BY DEF Toggle, Over, toneCall
<1>2. ASSUME Counted, at # "countHigh" PROVE Counted'
  <2>1. playing \in Tones
    BY <1>2 DEF Counted
  <2>2. ToggleCount(playing)' = ToggleCount(playing) /\ torn' = torn
    BY <1>1, <1>2 DEF ToggleCount, Forever, Long, RestInv, ToneTypes, ToneTypeOK
  <2>3. CASE torn
    BY <1>1, <2>1, <2>2, <2>3 DEF Counted
  <2>4. CASE ~torn /\ playing.duration = 0
    <3>1. toggle_count = Forever
      BY <1>2, <2>4 DEF Counted
    <3>2. toggle_count' = Forever
      BY <1>1, <3>1, LongFacts DEF CountDown
    <3>. QED
      BY <1>1, <2>1, <2>4, <3>2 DEF Counted, Forever, Long
  <2>5. CASE ~torn /\ playing.duration # 0
    <3>1. /\ toggle_count + played = ToggleCount(playing)
          /\ toggle_count \in Nat /\ played \in Nat
      BY <1>2, <2>5 DEF Counted, RestInv, ToneTypes, ToneTypeOK
    <3>2. /\ ToggleCount(playing) \in 0 .. Long - 1
          /\ ~Negative(ToggleCount(playing))
      BY <2>1, <2>5, ToggleCountType, FittingCount
    <3> DEFINE c == ToggleCount(playing)
    <3> HIDE DEF c
    <3>3. c \in 0 .. Long - 1 /\ 2 * c < Long /\ toggle_count + played = c
      BY <3>1, <3>2, LongFacts DEF c, Negative
    <3>4. toggle_count > 0 /\ 2 * toggle_count < Long /\ played # Long
      BY <1>1, <3>1, <3>3, LongFacts
    <3>5. toggle_count' = toggle_count - 1 /\ played' = played + 1
      BY <1>1, <3>1, <3>4, LongFacts DEF CountDown, Negative
    <3>6. toggle_count' + played' = ToggleCount(playing)'
      BY <2>2, <3>1, <3>5
    <3>. QED
      BY <1>1, <2>1, <2>5, <3>6 DEF Counted
  <2>. QED
    BY <2>3, <2>4, <2>5
<1>3. at = "enable" \/ at \in Steady => Counted'
  BY <1>1, <1>2 DEF CountInv, Steady
<1>. QED
  BY <1>1, <1>3 DEF CountInv, Steady

\* The count has run out, which that of a tone without an end never does.
LEMMA EndCounts ==
  ASSUME RestInv, CountInv, ~struck', End PROVE CountInv'
<1>1. /\ timer2.ocie /\ toggle_count = 0 /\ ~timer2'.ocie
      /\ UNCHANGED <<pin, toggle_count, at, arg, want, called, playing, played, torn>>
  BY DEF End, Lowered, Astray, Over, toneCall, TimerOff
<1>2. /\ ToggleCount(playing)' = ToggleCount(playing)
      /\ ToggleCount(want)' = ToggleCount(want) /\ Forever' = Forever
  BY <1>1 DEF ToggleCount, Forever, Long
<1>3. Counted => Counted'
  BY <1>1, <1>2 DEF Counted
<1>4. ASSUME at \in Steady, ~torn
      PROVE  /\ playing \in Tones /\ playing.duration # 0
             /\ played = ToggleCount(playing)
  <2>1. playing \in Tones /\ playing.duration # 0
    BY <1>1, <1>4, LongFacts DEF CountInv, Counted
  <2>2. toggle_count + played = ToggleCount(playing) /\ played \in Nat
    BY <1>1, <1>4, <2>1 DEF CountInv, Counted, RestInv, ToneTypes, ToneTypeOK
  <2>. QED
    BY <1>1, <2>1, <2>2
<1>. QED
  BY <1>1, <1>2, <1>3, <1>4 DEF CountInv, Steady

\* The other steps leave the count and the tone alone.
LEMMA CountKept ==
  ASSUME RestInv, SlotInv, CountInv,
         \/ UNCHANGED toneVars \/ Begin \/ Search
         \/ Configure \/ Prescale \/ Compare
         \/ Release \/ Disable \/ Low
         \/ \E p \in Pins : CallNoTone(p)
         \/ \E p \in Pins : \E z \in Tones : CallTone(p, z)
  PROVE  CountInv'
<1>. USE DEF Steady, Setting
<1>1. UNCHANGED <<toggle_count, playing, played, torn>>
  BY DEF toneVars, Begin, Search, Configure,
    Prescale, Compare, Release, Disable, Low,
    CallNoTone, CallTone, HistoryKept, mishaps
<1>2. /\ ToggleCount(playing)' = ToggleCount(playing)
      /\ Forever' = Forever
  BY <1>1 DEF ToggleCount, Forever, Long
<1>3. Counted' = Counted
  BY <1>1, <1>2 DEF Counted
<1>4. CASE UNCHANGED toneVars
  <2>1. UNCHANGED <<timer2, pin, at, arg, want, called>>
    BY <1>4 DEF toneVars, toneCall
  <2>2. ToggleCount(want)' = ToggleCount(want)
    BY <2>1 DEF ToggleCount, Forever, Long
  <2>. QED
    BY <1>1, <1>2, <1>3, <2>1, <2>2 DEF CountInv
<1>5. CASE Begin
  <2>1. /\ at = "begin" /\ at' \in {"search", "prescale"}
        /\ UNCHANGED <<timer2, pin, arg, called>>
    BY <1>5 DEF Begin, Continue, HistoryKept
  <2>. QED
    BY <1>1, <1>2, <1>3, <2>1 DEF CountInv
<1>6. CASE Search
  <2>1. /\ at = "search" /\ UNCHANGED <<timer2, pin, arg, called>>
        /\ at' = IF tone_pins = NoPin THEN "configure" ELSE "idle"
    BY <1>6 DEF Search, Continue, HistoryKept
  <2>2. timer2.ocie \/ at' = "configure"
    BY <2>1 DEF SlotInv
  <2>. QED
    BY <1>1, <1>2, <1>3, <2>1, <2>2 DEF CountInv
<1>7. CASE Configure \/ Prescale \/ Compare
  <2>1. at' \in {"prescale", "compare", "countLow"}
    BY <1>7 DEF Configure, Prescale, Compare, Continue
  <2>. QED
    BY <2>1 DEF CountInv
<1>8. CASE Release
  <2>1. /\ at = "release" /\ at' \in {"disable", "low"}
        /\ UNCHANGED <<timer2, pin, arg, called>>
    BY <1>8 DEF Release, Continue, HistoryKept
  <2>. QED
    BY <1>1, <1>2, <1>3, <2>1 DEF CountInv
<1>9. CASE Disable
  <2>1. /\ at = "disable" /\ at' = "low" /\ ~timer2'.ocie
        /\ UNCHANGED <<pin, arg, called>>
    BY <1>9 DEF Disable, Disabled, TimerOff, Continue,
      HistoryKept
  <2>2. pin \notin called
    BY <2>1 DEF RestInv, ToneTypes, SlotInv
  <2>. QED
    BY <2>1, <2>2 DEF CountInv
<1>10. CASE Low
  <2>1. at = "low" /\ at' = "idle" /\ UNCHANGED <<timer2, pin, arg, called>>
    BY <1>10 DEF Low, Continue, HistoryKept
  <2>. QED
    BY <1>1, <1>2, <1>3, <2>1 DEF CountInv
<1>11. ASSUME NEW p \in Pins, CallNoTone(p) PROVE CountInv'
  <2>1. /\ at = "idle" /\ at' = "release" /\ UNCHANGED <<timer2, pin>>
        /\ called' = called \ {p}
    BY <1>11 DEF CallNoTone
  <2>. QED
    BY <1>1, <1>2, <1>3, <2>1 DEF CountInv
<1>12. ASSUME NEW p \in Pins, NEW z \in Tones, CallTone(p, z)
       PROVE  CountInv'
  <2>1. /\ at = "idle" /\ at' = "begin" /\ UNCHANGED <<timer2, pin>>
        /\ called' = called \cup {p} /\ arg' = p
    BY <1>12 DEF CallTone
  <2>. QED
    BY <1>1, <1>2, <1>3, <2>1 DEF CountInv
<1>. QED
  BY <1>4, <1>5, <1>6, <1>7, <1>8, <1>9, <1>10, <1>11, <1>12

LEMMA CountStep ==
  ASSUME Fits, RestInv, ~struck => CountInv, [ToneNext]_toneVars
  PROVE  ~struck' => CountInv'
<1>. SUFFICES ASSUME ~struck' PROVE CountInv'
  OBVIOUS
<1>1. SlotInv /\ CountInv
  BY MishapsStay DEF RestInv
<1>. QED
  BY <1>1, CountLowKeeps, CountHighKeeps, EnableKeeps, ToggleCounts, EndCounts,
    CountKept
  DEF ToneNext, ToneStep, Running, Handler

\* A tone that was left to itself has ended after 2 * frequency * duration /
\* 1000 toggles, and one without a duration never ends, tones started anew and
\* overtaken ones included, unless the handler ran between the stores of the
\* count: for every tone whose arithmetic fits the types tone() does it in.
THEOREM DurationCorrect ==
  ASSUME Fits
  PROVE  ToneSpec => []DurationExact
<1>1. RestInv /\ (~struck => CountInv) => DurationExact
  <2> SUFFICES ASSUME RestInv, CountInv, at = "idle", ~timer2.ocie, pin \in called,
                      ~torn
               PROVE  /\ playing.duration # 0
                      /\ played = (2 * playing.frequency * playing.duration)
                                    \div PerSecond
    BY DEF DurationExact
  <2>1. /\ playing \in Tones /\ playing.duration # 0
        /\ played = ToggleCount(playing)
    BY DEF CountInv, Steady
  <2>. QED
    BY <2>1, FittingCount
<1>2. ToneInit => (~struck => CountInv)
  BY CountInitially
<1>. QED
  BY RestInitially, RestStep, <1>2, CountStep, <1>1, PTL
  DEF ToneSpec

=============================================================================
